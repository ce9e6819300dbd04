-------------------------- MODULE DashboardProofs --------------------------
(***************************************************************************)
(* For any number of providers, detalles and days, and whatever is sold,   *)
(* edited, deleted or cancelled between its statements: the sales report   *)
(* has read everything it has to count, and its totals count it once.      *)
(*                                                                         *)
(* The report adds up in two loops, one over the detalles of a provider    *)
(* and one over the providers; both are folds of the community modules.    *)
(* An induction theorem with the statement as a parameter cannot be used   *)
(* here, so each induction below is over a set of subsets of the finite    *)
(* set that is added up.                                                   *)
(***************************************************************************)
EXTENDS Dashboard, FiniteSetTheorems, WellFoundedInduction, TLAPS

-----------------------------------------------------------------------------
(* Sums over finite sets. *)

\* The least natural number of a set.
LEMMA Least ==
  ASSUME NEW T \in SUBSET Nat, T # {}
  PROVE  \E n \in T : \A m \in T : n <= m
<1>1. \E n \in T : \A m \in T : <<m, n>> \notin OpToRel(<, Nat)
  BY NatLessThanWellFounded, WFMin, Zenon
<1>2. \A m, n \in Nat : <<m, n>> \notin OpToRel(<, Nat) => n <= m
  BY DEF OpToRel
<1> QED
  BY <1>1, <1>2

\* A set of subsets that has every one whose proper subsets it has, has all.
LEMMA SubsetInduction ==
  ASSUME NEW S, IsFiniteSet(S), NEW G \in SUBSET SUBSET S,
         \A s \in SUBSET S : (\A t \in SUBSET s : t # s => t \in G) => s \in G
  PROVE  G = SUBSET S
<1> SUFFICES ASSUME G # SUBSET S PROVE FALSE
  OBVIOUS
<1> DEFINE Sizes == {Cardinality(s) : s \in (SUBSET S) \ G}
<1>1. \A s \in SUBSET S : IsFiniteSet(s) /\ Cardinality(s) \in Nat
  BY FS_Subset, FS_CardinalityType
<1>2. Sizes \in SUBSET Nat /\ Sizes # {}
  BY <1>1
<1>3. PICK s \in (SUBSET S) \ G : \A t \in (SUBSET S) \ G : Cardinality(s) <= Cardinality(t)
  <2>1. PICK n \in Sizes : \A m \in Sizes : n <= m
    <3> HIDE DEF Sizes
    <3> QED
      BY <1>2, Least
  <2>2. PICK s \in (SUBSET S) \ G : n = Cardinality(s)
    OBVIOUS
  <2> QED
    BY <2>1, <2>2
<1>4. \A t \in SUBSET s : t # s => Cardinality(t) < Cardinality(s)
  BY <1>1, FS_Subset
<1>5. \A t \in SUBSET s : t # s => t \in G
  BY <1>1, <1>3, <1>4
<1> QED
  BY <1>3, <1>5

\* What a fold takes next.
Pick(s) == CHOOSE x \in s : TRUE

\* It is an element.
LEMMA Picked == \A s : s # {} => Pick(s) \in s
BY DEF Pick

\* Induction, over a set rather than a predicate.
LEMMA Induction ==
  ASSUME NEW T \in SUBSET Nat, 0 \in T, \A n \in T : n + 1 \in T
  PROVE  T = Nat
<1> SUFFICES ASSUME T # Nat PROVE FALSE
  OBVIOUS
<1>1. PICK n \in Nat \ T : \A m \in Nat \ T : n <= m
  BY Least
<1>2. n # 0 /\ n - 1 \in Nat /\ n - 1 \in T
  BY <1>1
<1> QED
  BY <1>1, <1>2

\* What the function that a fold is made of does with every set.
FoldsUp(g, S, base, step) ==
  /\ g[{}] = base
  /\ \A s \in SUBSET S : s # {} => g[s] = step[Pick(s)][g[s \ {Pick(s)}]]

\* It exists.
LEMMA FoldExists ==
  ASSUME NEW S, IsFiniteSet(S), NEW V, NEW base \in V, NEW step \in [S -> [V -> V]]
  PROVE  \E g : g \in [SUBSET S -> V] /\ FoldsUp(g, S, base, step)
<1> DEFINE R(g, s) == IF s = {} THEN base ELSE step[Pick(s)][g[s \ {Pick(s)}]]
           Small(n) == {s \in SUBSET S : Cardinality(s) <= n}
           Has == {n \in Nat : \E g \in [Small(n) -> V] : \A s \in Small(n) : g[s] = R(g, s)}
<1>1. \A s \in SUBSET S : IsFiniteSet(s) /\ Cardinality(s) \in Nat
                          /\ Cardinality(s) <= Cardinality(S)
  BY FS_Subset, FS_CardinalityType
<1>2. \A s \in SUBSET S : s # {} =>
        /\ Pick(s) \in S /\ s \ {Pick(s)} \in SUBSET S
        /\ Cardinality(s \ {Pick(s)}) = Cardinality(s) - 1 /\ Cardinality(s) # 0
  BY <1>1, Picked, FS_RemoveElement, FS_EmptySet
<1>3. \A s \in Small(0) : s = {}
  BY <1>1, FS_EmptySet
<1>4. Has = Nat
  <2>1. 0 \in Has
    <3> DEFINE g == [s \in Small(0) |-> base]
    <3>1. g \in [Small(0) -> V] /\ \A s \in Small(0) : g[s] = R(g, s)
      BY <1>3
    <3> QED
      BY <3>1
  <2>2. ASSUME NEW n \in Has PROVE n + 1 \in Has
    <3>1. PICK g \in [Small(n) -> V] : \A s \in Small(n) : g[s] = R(g, s)
      OBVIOUS
    <3>2. \A s \in Small(n + 1) : s # {} => s \ {Pick(s)} \in Small(n)
      BY <1>1, <1>2
    <3>3. {} \in Small(n)
      BY FS_EmptySet
    <3>4. \A s \in Small(n + 1) : R(g, s) \in V
      BY <1>2, <3>2
    <3>5. Small(n) \subseteq Small(n + 1)
      BY <1>1
    <3> DEFINE h == [s \in Small(n + 1) |-> R(g, s)]
    <3> HIDE DEF Small
    <3>6. \A s \in Small(n) : h[s] = g[s]
      BY <3>1, <3>5
    <3>7. ASSUME NEW s \in Small(n + 1) PROVE R(h, s) = R(g, s)
      <4>1. CASE s = {}
        BY <4>1
      <4>2. CASE s # {}
        <5>1. h[s \ {Pick(s)}] = g[s \ {Pick(s)}]
          BY <3>2, <3>6, <4>2
        <5> QED
          BY <4>2, <5>1
      <4> QED
        BY <4>1, <4>2
    <3>8. h \in [Small(n + 1) -> V] /\ \A s \in Small(n + 1) : h[s] = R(h, s)
      <4>1. \A s \in Small(n + 1) : h[s] = R(g, s)
        OBVIOUS
      <4> HIDE DEF R
      <4>2. h \in [Small(n + 1) -> V]
        BY <3>4
      <4> QED
        BY <3>7, <4>1, <4>2
    <3> HIDE DEF h, R
    <3> QED
      BY <3>8
  <2> HIDE DEF Has
  <2>3. Has \in SUBSET Nat
    BY DEF Has
  <2> QED
    BY <2>1, <2>2, <2>3, Induction
<1>5. Cardinality(S) \in Has
  BY <1>1, <1>4
<1>6. Small(Cardinality(S)) = SUBSET S
  BY <1>1
<1>7. PICK g \in [SUBSET S -> V] : \A s \in SUBSET S : g[s] = R(g, s)
  BY <1>5, <1>6
<1> QED
  BY <1>7 DEF FoldsUp

\* What the function that a sum is made of does.
Adds(g, f, D) ==
  /\ g \in [SUBSET D -> Nat]
  /\ g[{}] = 0
  /\ \A s \in SUBSET D : s # {} => g[s] = f[Pick(s)] + g[s \ {Pick(s)}]

\* A sum is a value of it.
LEMMA SumFold ==
  ASSUME NEW D, IsFiniteSet(D), NEW f, \A x \in D : f[x] \in Nat
  PROVE  \E g : Adds(g, f, D) /\ Sum(f, D) = g[D]
<1> DEFINE R(g, s) == IF s = {} THEN 0 ELSE f[Pick(s)] + g[s \ {Pick(s)}]
           step == [x \in D |-> [n \in Nat |-> f[x] + n]]
           iter == CHOOSE g : g = [s \in SUBSET D |-> R(g, s)]
<1>1. \A s \in SUBSET D : s # {} => Pick(s) \in D /\ s \ {Pick(s)} \in SUBSET D
  BY Picked
<1>2. PICK g : g \in [SUBSET D -> Nat] /\ FoldsUp(g, D, 0, step)
  <2>1. step \in [D -> [Nat -> Nat]]
    OBVIOUS
  <2> HIDE DEF step
  <2> QED
    BY <2>1, FoldExists
<1>3. \A s \in SUBSET D : g[s] = R(g, s)
  <2> SUFFICES ASSUME NEW s \in SUBSET D, s # {} PROVE g[s] = R(g, s)
    BY <1>2 DEF FoldsUp
  <2>1. g[s \ {Pick(s)}] \in Nat /\ Pick(s) \in D
    BY <1>1, <1>2
  <2>2. g[s] = step[Pick(s)][g[s \ {Pick(s)}]]
    BY <1>2 DEF FoldsUp
  <2> QED
    BY <2>1, <2>2
<1>4. iter = [s \in SUBSET D |-> R(iter, s)]
  <2>1. g = [s \in SUBSET D |-> R(g, s)]
    <3>1. g = [s \in SUBSET D |-> g[s]]
      BY <1>2
    <3> HIDE DEF R
    <3> QED
      BY <1>3, <3>1
  <2> QED
    BY <2>1
<1>5. Sum(f, D) = iter[D]
  BY DEF Sum, MapThenSumSet, MapThenFoldSet, Pick
<1> HIDE DEF iter
<1>6. \A s \in SUBSET D : iter[s] = R(iter, s)
  BY <1>4
<1> DEFINE G == {s \in SUBSET D : iter[s] \in Nat}
<1>7. G = SUBSET D
  <2>1. ASSUME NEW s \in SUBSET D, \A t \in SUBSET s : t # s => t \in G PROVE s \in G
    <3>1. CASE s = {}
      <4>1. iter[s] = 0
        BY <1>6, <3>1
      <4> QED
        BY <4>1
    <3>2. CASE s # {}
      <4>1. s \ {Pick(s)} \in SUBSET s /\ s \ {Pick(s)} # s
        BY <3>2, Picked
      <4>2. iter[s \ {Pick(s)}] \in Nat
        BY <2>1, <4>1
      <4>3. f[Pick(s)] \in Nat
        BY <1>1, <3>2
      <4>4. iter[s] = f[Pick(s)] + iter[s \ {Pick(s)}]
        BY <1>6, <3>2
      <4> QED
        BY <4>2, <4>3, <4>4
    <3> QED
      BY <3>1, <3>2
  <2>2. G \in SUBSET SUBSET D
    OBVIOUS
  <2> HIDE DEF G
  <2> QED
    BY <2>1, <2>2, SubsetInduction
<1>8. iter \in [SUBSET D -> Nat]
  <2>1. iter = [s \in SUBSET D |-> iter[s]]
    BY <1>4
  <2>2. \A s \in SUBSET D : iter[s] \in Nat
    BY <1>7
  <2> QED
    BY <2>1, <2>2
<1>9. Adds(iter, f, D)
  BY <1>6, <1>8 DEF Adds
<1> QED
  BY <1>5, <1>9

\* It is a natural number.
LEMMA SumType ==
  ASSUME NEW D, IsFiniteSet(D), NEW f, \A x \in D : f[x] \in Nat
  PROVE  Sum(f, D) \in Nat
<1>1. PICK g : Adds(g, f, D) /\ Sum(f, D) = g[D]
  BY SumFold
<1> QED
  BY <1>1 DEF Adds

\* That of nothing is 0.
LEMMA SumEmpty == \A f : Sum(f, {}) = 0
<1> SUFFICES ASSUME NEW f PROVE Sum(f, {}) = 0
  OBVIOUS
<1>1. PICK g : Adds(g, f, {}) /\ Sum(f, {}) = g[{}]
  BY FS_EmptySet, SumFold
<1> QED
  BY <1>1 DEF Adds

\* It adds the element that it takes first to the sum of the others.
LEMMA SumPick ==
  ASSUME NEW D, IsFiniteSet(D), D # {}, NEW f, \A x \in D : f[x] \in Nat
  PROVE  Sum(f, D) = f[Pick(D)] + Sum(f, D \ {Pick(D)})
<1> DEFINE E == D \ {Pick(D)}
<1>1. PICK g : Adds(g, f, D) /\ Sum(f, D) = g[D]
  BY SumFold
<1>2. IsFiniteSet(E) /\ \A x \in E : f[x] \in Nat
  BY FS_RemoveElement
<1>3. PICK h : Adds(h, f, E) /\ Sum(f, E) = h[E]
  <2> HIDE DEF E
  <2> QED
    BY <1>2, SumFold
<1> DEFINE G == {s \in SUBSET E : g[s] = h[s]}
<1>4. G = SUBSET E
  <2>1. ASSUME NEW s \in SUBSET E, \A t \in SUBSET s : t # s => t \in G PROVE s \in G
    <3>1. CASE s = {}
      BY <1>1, <1>3, <3>1 DEF Adds
    <3>2. CASE s # {}
      <4>1. s \ {Pick(s)} \in SUBSET s /\ s \ {Pick(s)} # s
        BY <3>2, Picked
      <4>2. g[s \ {Pick(s)}] = h[s \ {Pick(s)}]
        BY <2>1, <4>1
      <4>3. g[s] = f[Pick(s)] + g[s \ {Pick(s)}]
        BY <1>1, <3>2 DEF Adds
      <4>4. h[s] = f[Pick(s)] + h[s \ {Pick(s)}]
        BY <1>3, <3>2 DEF Adds
      <4> QED
        BY <4>2, <4>3, <4>4
    <3> QED
      BY <3>1, <3>2
  <2>2. G \in SUBSET SUBSET E
    OBVIOUS
  <2> HIDE DEF E, G
  <2> QED
    BY <1>2, <2>1, <2>2, SubsetInduction
<1>5. g[E] = h[E]
  BY <1>4
<1>6. g[D] = f[Pick(D)] + g[E]
  BY <1>1 DEF Adds
<1> QED
  BY <1>1, <1>3, <1>5, <1>6

\* Any element can be taken out of a sum.
LEMMA SumRemove ==
  ASSUME NEW D, IsFiniteSet(D), NEW f, \A x \in D : f[x] \in Nat, NEW x \in D
  PROVE  Sum(f, D) = f[x] + Sum(f, D \ {x})
<1> DEFINE G == {s \in SUBSET D : \A y \in s : Sum(f, s) = f[y] + Sum(f, s \ {y})}
<1>1. \A s \in SUBSET D : IsFiniteSet(s) /\ Sum(f, s) \in Nat
  BY FS_Subset, SumType
<1>2. ASSUME NEW s \in SUBSET D, \A t \in SUBSET s : t # s => t \in G PROVE s \in G
  <2> SUFFICES ASSUME NEW y \in s PROVE Sum(f, s) = f[y] + Sum(f, s \ {y})
    OBVIOUS
  <2> DEFINE z == Pick(s)
  <2>1. z \in s /\ z \in D /\ y \in D
    BY Picked
  <2>2. Sum(f, s) = f[z] + Sum(f, s \ {z})
    BY <1>1, SumPick
  <2> HIDE DEF z
  <2> SUFFICES ASSUME y # z PROVE Sum(f, s) = f[y] + Sum(f, s \ {y})
    BY <2>2
  <2>3. s \ {z} \in G /\ s \ {y} \in G /\ y \in s \ {z} /\ z \in s \ {y}
    BY <1>2, <2>1
  <2>4. Sum(f, s \ {z}) = f[y] + Sum(f, (s \ {z}) \ {y})
    BY <2>3
  <2>5. Sum(f, s \ {y}) = f[z] + Sum(f, (s \ {y}) \ {z})
    BY <2>3
  <2>6. (s \ {y}) \ {z} = (s \ {z}) \ {y}
    OBVIOUS
  <2>7. f[y] \in Nat /\ f[z] \in Nat /\ Sum(f, (s \ {z}) \ {y}) \in Nat
    BY <1>1, <2>1
  <2> HIDE DEF G
  <2> QED
    BY <2>2, <2>4, <2>5, <2>6, <2>7
<1>3. G = SUBSET D
  <2>1. G \in SUBSET SUBSET D
    OBVIOUS
  <2> HIDE DEF G
  <2> QED
    BY <1>2, <2>1, SubsetInduction
<1> QED
  BY <1>3

\* A set of subsets that has the empty one, and every one it has without the
\* element that a fold takes from it, has all.
LEMMA PickInduction ==
  ASSUME NEW S, IsFiniteSet(S), NEW G \in SUBSET SUBSET S, {} \in G,
         \A s \in SUBSET S : s # {} /\ s \ {Pick(s)} \in G => s \in G
  PROVE  G = SUBSET S
<1>1. ASSUME NEW s \in SUBSET S, \A t \in SUBSET s : t # s => t \in G PROVE s \in G
  <2>1. CASE s = {}
    BY <2>1
  <2>2. CASE s # {}
    <3>1. s \ {Pick(s)} \in SUBSET s /\ s \ {Pick(s)} # s
      BY <2>2, Picked
    <3> QED
      BY <1>1, <2>2, <3>1
  <2> QED
    BY <2>1, <2>2
<1> QED
  BY <1>1, SubsetInduction

\* An element that is not there yet can be put in.
LEMMA SumAdd ==
  ASSUME NEW D, IsFiniteSet(D), NEW f, NEW x, x \notin D, \A y \in D \cup {x} : f[y] \in Nat
  PROVE  Sum(f, D \cup {x}) = f[x] + Sum(f, D)
<1> DEFINE E == D \cup {x}
<1>1. IsFiniteSet(E)
  BY FS_AddElement
<1>2. x \in E /\ E \ {x} = D /\ \A y \in E : f[y] \in Nat
  OBVIOUS
<1> HIDE DEF E
<1>3. Sum(f, E) = f[x] + Sum(f, E \ {x})
  BY <1>1, <1>2, SumRemove
<1> QED
  BY <1>2, <1>3 DEF E

\* The sum of two sets with nothing in common.
LEMMA SumUnion ==
  ASSUME NEW A, NEW B, IsFiniteSet(A), IsFiniteSet(B), A \cap B = {},
         NEW f, \A x \in A \cup B : f[x] \in Nat
  PROVE  Sum(f, A \cup B) = Sum(f, A) + Sum(f, B)
<1> DEFINE G == {s \in SUBSET B : Sum(f, A \cup s) = Sum(f, A) + Sum(f, s)}
<1>0. Sum(f, A) \in Nat /\ \A s \in SUBSET B : IsFiniteSet(s) /\ Sum(f, s) \in Nat
                                              /\ IsFiniteSet(A \cup s)
  BY FS_Subset, FS_Union, SumType
<1>1. {} \in G
  <2>1. A \cup {} = A
    OBVIOUS
  <2> QED
    BY <1>0, <2>1, SumEmpty
<1>2. ASSUME NEW s \in SUBSET B, s # {}, s \ {Pick(s)} \in G PROVE s \in G
  <2> DEFINE z == Pick(s)
             t == s \ {z}
  <2>1. z \in s /\ z \in B /\ z \notin t /\ z \notin A /\ t \cup {z} = s /\ t \in SUBSET B
    BY <1>2, Picked
  <2>2. Sum(f, A \cup t) = Sum(f, A) + Sum(f, t)
    BY <1>2
  <2> HIDE DEF z, t
  <2>3. Sum(f, s) = f[z] + Sum(f, t)
    BY <1>0, <2>1, SumAdd
  <2>4. Sum(f, (A \cup t) \cup {z}) = f[z] + Sum(f, A \cup t)
    BY <1>0, <2>1, SumAdd
  <2>5. (A \cup t) \cup {z} = A \cup s
    BY <2>1
  <2>6. f[z] \in Nat /\ Sum(f, t) \in Nat
    BY <1>0, <2>1
  <2> QED
    BY <1>0, <2>2, <2>3, <2>4, <2>5, <2>6
<1>3. G = SUBSET B
  <2>1. G \in SUBSET SUBSET B
    OBVIOUS
  <2> HIDE DEF G
  <2> QED
    BY <1>1, <1>2, <2>1, PickInduction
<1> QED
  BY <1>3

\* A sum is at most another when whatever counts in the first counts as much in
\* the second.
LEMMA SumDominated ==
  ASSUME NEW D, NEW E, IsFiniteSet(D), IsFiniteSet(E), NEW f, NEW g,
         \A x \in D : f[x] \in Nat, \A x \in E : g[x] \in Nat,
         \A x \in D : f[x] # 0 => x \in E /\ f[x] <= g[x]
  PROVE  Sum(f, D) <= Sum(g, E)
<1> DEFINE G == {s \in SUBSET D : Sum(f, s) <= Sum(g, s \cap E)}
<1>0. \A s \in SUBSET D : /\ IsFiniteSet(s) /\ Sum(f, s) \in Nat
                          /\ IsFiniteSet(s \cap E) /\ Sum(g, s \cap E) \in Nat
  BY FS_Subset, FS_Intersection, SumType
<1>1. {} \in G
  <2>1. {} \cap E = {}
    OBVIOUS
  <2> QED
    BY <2>1, SumEmpty
<1>2. ASSUME NEW s \in SUBSET D, s # {}, s \ {Pick(s)} \in G PROVE s \in G
  <2> DEFINE z == Pick(s)
             t == s \ {z}
  <2>1. z \in s /\ z \in D /\ z \notin t /\ t \cup {z} = s /\ t \in SUBSET D
    BY <1>2, Picked
  <2>2. Sum(f, t) <= Sum(g, t \cap E)
    BY <1>2
  <2> HIDE DEF z, t
  <2>3. Sum(f, s) = f[z] + Sum(f, t)
    BY <1>0, <2>1, SumAdd
  <2>4. f[z] \in Nat /\ Sum(f, t) \in Nat /\ Sum(g, t \cap E) \in Nat
    BY <1>0, <2>1
  <2>5. CASE z \in E
    <3>1. s \cap E = (t \cap E) \cup {z} /\ z \notin t \cap E
      BY <2>1, <2>5
    <3>2. Sum(g, (t \cap E) \cup {z}) = g[z] + Sum(g, t \cap E)
      BY <1>0, <2>1, <2>5, <3>1, SumAdd
    <3>3. Sum(g, s \cap E) = g[z] + Sum(g, t \cap E)
      BY <3>1, <3>2, Zenon
    <3>4. g[z] \in Nat /\ f[z] <= g[z]
      BY <2>1, <2>4, <2>5
    <3>5. Sum(f, s) <= Sum(g, s \cap E)
      BY <2>2, <2>3, <2>4, <3>3, <3>4
    <3> QED
      BY <3>5
  <2>6. CASE z \notin E
    <3>1. s \cap E = t \cap E /\ f[z] = 0
      BY <2>1, <2>6
    <3>2. Sum(g, s \cap E) = Sum(g, t \cap E)
      BY <3>1, Zenon
    <3>3. Sum(f, s) <= Sum(g, s \cap E)
      BY <2>2, <2>3, <2>4, <3>1, <3>2
    <3> QED
      BY <3>3
  <2> QED
    BY <2>5, <2>6
<1>3. G = SUBSET D
  <2>1. G \in SUBSET SUBSET D
    OBVIOUS
  <2> HIDE DEF G
  <2> QED
    BY <1>0, <1>1, <1>2, <2>1, PickInduction
<1>4. Sum(f, D) <= Sum(g, D \cap E)
  BY <1>3
<1>5. Sum(g, E) = Sum(g, D \cap E) + Sum(g, E \ D)
  <2>1. IsFiniteSet(D \cap E) /\ IsFiniteSet(E \ D) /\ (D \cap E) \cap (E \ D) = {}
    BY <1>0, FS_Difference
  <2>2. Sum(g, (D \cap E) \cup (E \ D)) = Sum(g, D \cap E) + Sum(g, E \ D)
    BY <2>1, SumUnion
  <2>3. (D \cap E) \cup (E \ D) = E
    OBVIOUS
  <2> QED
    BY <2>2, <2>3, Zenon
<1>6. Sum(f, D) \in Nat /\ Sum(g, D \cap E) \in Nat /\ Sum(g, E \ D) \in Nat
  BY <1>0, FS_Difference, SumType
<1> QED
  BY <1>4, <1>5, <1>6

\* Functions that agree have the same sum.
LEMMA SumSame ==
  ASSUME NEW D, IsFiniteSet(D), NEW f, NEW g, \A x \in D : f[x] \in Nat /\ g[x] = f[x]
  PROVE  Sum(f, D) = Sum(g, D)
<1>1. Sum(f, D) <= Sum(g, D) /\ Sum(g, D) <= Sum(f, D)
  BY SumDominated
<1>2. Sum(f, D) \in Nat /\ Sum(g, D) \in Nat
  BY SumType
<1> QED
  BY <1>1, <1>2

\* What one term grows by, the sum grows by.
LEMMA SumUpdate ==
  ASSUME NEW D, IsFiniteSet(D), NEW f, NEW g, NEW x \in D, NEW n \in Nat,
         \A y \in D : f[y] \in Nat, g[x] = n + f[x], \A y \in D \ {x} : g[y] = f[y]
  PROVE  Sum(g, D) = n + Sum(f, D)
<1>1. IsFiniteSet(D \ {x})
  BY FS_RemoveElement
<1>2. \A y \in D : g[y] \in Nat
  <2>1. g[x] \in Nat
    OBVIOUS
  <2> QED
    BY <2>1
<1>3. Sum(f, D) = f[x] + Sum(f, D \ {x}) /\ Sum(g, D) = g[x] + Sum(g, D \ {x})
  BY <1>2, SumRemove
<1>4. Sum(f, D \ {x}) = Sum(g, D \ {x})
  BY <1>1, SumSame
<1>5. f[x] \in Nat /\ Sum(f, D \ {x}) \in Nat
  BY <1>1, SumType
<1> QED
  BY <1>3, <1>4, <1>5

\* The elements with a key, and with one of some keys.
WithKey(D, key, p)  == {x \in D : key[x] = p}
WithKeys(D, key, P) == {x \in D : key[x] \in P}

\* What is added up key by key is added up once.
LEMMA SumByKey ==
  ASSUME NEW D, IsFiniteSet(D), NEW P, IsFiniteSet(P), NEW f, \A x \in D : f[x] \in Nat,
         NEW key, NEW b, \A p \in P : b[p] = Sum(f, WithKey(D, key, p))
  PROVE  Sum(b, P) = Sum(f, WithKeys(D, key, P))
<1> DEFINE G == {s \in SUBSET P : Sum(b, s) = Sum(f, WithKeys(D, key, s))}
<1>0. /\ \A s \in SUBSET P : IsFiniteSet(s)
      /\ \A E \in SUBSET D : IsFiniteSet(E) /\ Sum(f, E) \in Nat
      /\ \A p \in P : b[p] \in Nat
  <2>1. \A E \in SUBSET D : IsFiniteSet(E) /\ Sum(f, E) \in Nat
    BY FS_Subset, SumType
  <2>2. \A p : WithKey(D, key, p) \in SUBSET D
    BY DEF WithKey
  <2> QED
    BY <2>1, <2>2, FS_Subset
<1>1. {} \in G
  <2>1. WithKeys(D, key, {}) = {}
    BY DEF WithKeys
  <2> QED
    BY <2>1, SumEmpty
<1>2. ASSUME NEW s \in SUBSET P, s # {}, s \ {Pick(s)} \in G PROVE s \in G
  <2> DEFINE z == Pick(s)
             t == s \ {z}
             A == WithKeys(D, key, t)
             B == WithKey(D, key, z)
  <2>1. z \in P /\ z \notin t /\ t \cup {z} = s /\ t \in SUBSET P
    BY <1>2, Picked
  <2>2. Sum(b, t) = Sum(f, A)
    BY <1>2
  <2>3. b[z] = Sum(f, B)
    BY <2>1
  <2>4. A \in SUBSET D /\ B \in SUBSET D /\ A \cap B = {} /\ A \cup B = WithKeys(D, key, s)
    BY <2>1 DEF WithKey, WithKeys
  <2> HIDE DEF z, t, A, B
  <2>5. Sum(b, s) = b[z] + Sum(b, t)
    BY <1>0, <2>1, SumAdd
  <2>6. Sum(f, A \cup B) = Sum(f, A) + Sum(f, B)
    BY <1>0, <2>4, SumUnion
  <2>7. Sum(f, A) \in Nat /\ Sum(f, B) \in Nat
    BY <1>0, <2>4
  <2>8. Sum(b, s) = Sum(f, A \cup B)
    BY <2>2, <2>3, <2>5, <2>6, <2>7
  <2> QED
    BY <2>4, <2>8
<1>3. G = SUBSET P
  <2>1. G \in SUBSET SUBSET P
    OBVIOUS
  <2> HIDE DEF G
  <2> QED
    BY <1>1, <1>2, <2>1, PickInduction
<1> QED
  BY <1>3

\* Three columns, of which each element is in one, add up to how many there are.
LEMMA SumOfColumns ==
  ASSUME NEW D, IsFiniteSet(D), NEW f, NEW g, NEW h,
         \A x \in D : f[x] \in Nat /\ g[x] \in Nat /\ h[x] \in Nat /\ f[x] + g[x] + h[x] = 1
  PROVE  Sum(f, D) + Sum(g, D) + Sum(h, D) = Cardinality(D)
<1> DEFINE G == {s \in SUBSET D : Sum(f, s) + Sum(g, s) + Sum(h, s) = Cardinality(s)}
<1>0. \A s \in SUBSET D : /\ IsFiniteSet(s)
                          /\ Sum(f, s) \in Nat /\ Sum(g, s) \in Nat /\ Sum(h, s) \in Nat
  BY FS_Subset, SumType
<1>1. {} \in G
  BY SumEmpty, FS_EmptySet
<1>2. ASSUME NEW s \in SUBSET D, s # {}, s \ {Pick(s)} \in G PROVE s \in G
  <2> DEFINE z == Pick(s)
             t == s \ {z}
  <2>1. z \in D /\ z \notin t /\ t \cup {z} = s /\ t \in SUBSET D
    BY <1>2, Picked
  <2>2. Sum(f, t) + Sum(g, t) + Sum(h, t) = Cardinality(t)
    BY <1>2
  <2> HIDE DEF z, t
  <2>3. /\ Sum(f, s) = f[z] + Sum(f, t) /\ Sum(g, s) = g[z] + Sum(g, t)
        /\ Sum(h, s) = h[z] + Sum(h, t)
    BY <1>0, <2>1, SumAdd
  <2>4. Cardinality(s) = Cardinality(t) + 1
    BY <1>0, <2>1, FS_AddElement
  <2>5. f[z] \in Nat /\ g[z] \in Nat /\ h[z] \in Nat /\ f[z] + g[z] + h[z] = 1
    BY <2>1
  <2>6. Sum(f, t) \in Nat /\ Sum(g, t) \in Nat /\ Sum(h, t) \in Nat
    BY <1>0, <2>1
  <2> QED
    BY <2>2, <2>3, <2>4, <2>5, <2>6
<1>3. G = SUBSET D
  <2>1. G \in SUBSET SUBSET D
    OBVIOUS
  <2> HIDE DEF G
  <2> QED
    BY <1>1, <1>2, <2>1, PickInduction
<1> QED
  BY <1>3

-----------------------------------------------------------------------------
(* The invariant. *)

\* One day is after another or it is not: the two ways of asking for the range.
LEMMA InRangeIsRelevant ==
  ASSUME TypeOK, NEW d \in DOMAIN detalles
  PROVE  d \in Relevant <=> InRange(d)
<1>1. detalles[d].dia \in Nat /\ range.desde \in Nat /\ range.hasta \in Nat
  BY DaysAssumption DEF TypeOK, Days, Detalle
<1> QED
  BY <1>1 DEF Relevant, InRange

\* The empty tables.
LEMMA InitIInv == Init => IInv
<1> SUFFICES ASSUME Init PROVE IInv
  OBVIOUS
<1>1. DOMAIN Nothing = {}
  BY DEF Nothing
<1>2. \A S, T : Nothing \in [DOMAIN Nothing -> S]
  BY DEF Nothing
<1>3. since \in Since /\ today \in Days
  BY DaysAssumption DEF Init, Since, Days
<1>4. TypeOK
  BY <1>1, <1>2, <1>3 DEF Init, TypeOK
<1>5. ProvidersExist /\ ReadsAreSound /\ NewIsPending
  BY <1>1 DEF Init, ProvidersExist, ReadsAreSound, NewIsPending, Begun
<1>6. TablesAreFinite
  BY <1>1, FS_EmptySet DEF Init, TablesAreFinite
<1> QED
  BY <1>4, <1>5, <1>6 DEF IInv

\* A step that changes nothing but the providers, and keeps those with a sale.
LEMMA ProvidersChange ==
  ASSUME IInv, UNCHANGED <<detalles, status, today, readVars>>,
         DOMAIN proveedores' \subseteq Proveedores,
         proveedores' \in [DOMAIN proveedores' -> Proveedor],
         IsFiniteSet(DOMAIN proveedores'),
         \A d \in DOMAIN detalles : detalles[d].proveedor \in DOMAIN proveedores'
  PROVE  IInv'
<1>1. TypeOK'
  BY DEF IInv, TypeOK, readVars
<1>2. ProvidersExist'
  BY DEF ProvidersExist
<1>3. ReadsAreSound'
  BY DEF IInv, ReadsAreSound, readVars, Begun, Old, Relevant
<1>4. NewIsPending' /\ TablesAreFinite'
  BY DEF IInv, NewIsPending, TablesAreFinite, readVars, Begun
<1> QED
  BY <1>1, <1>2, <1>3, <1>4 DEF IInv

\* A sale adds a row that the report, once it has begun, owes nothing to.
LEMMA SellKeeps ==
  ASSUME IInv, NEW d \in Detalles, NEW p \in Proveedores, NEW n \in Subtotales, Sell(d, p, n)
  PROVE  IInv'
<1> DEFINE v == [proveedor |-> p, subtotal |-> n, dia |-> today]
<1>0. /\ d \notin DOMAIN detalles /\ p \in DOMAIN proveedores
      /\ detalles' = With(detalles, d, v) /\ status' = With(status, d, "PENDIENTE")
      /\ UNCHANGED <<proveedores, today, pc, range, leidos, filas, estados>>
  BY DEF Sell
<1>1. /\ DOMAIN detalles' = DOMAIN detalles \cup {d}
      /\ \A e \in DOMAIN detalles : detalles'[e] = detalles[e]
      /\ detalles'[d] = v
  BY <1>0 DEF With
<1> HIDE DEF v
<1>a. DOMAIN status = DOMAIN detalles
  BY DEF IInv, TypeOK
<1>2. /\ DOMAIN status' = DOMAIN detalles'
      /\ \A e \in DOMAIN detalles : status'[e] = status[e]
      /\ status'[d] = "PENDIENTE"
  BY <1>0, <1>1, <1>a DEF With
<1>3. since' \in Since /\ since'.changed = since.changed /\ since.sold \subseteq since'.sold
      /\ since'.sold \subseteq since.sold \cup {d} /\ (~ Begun => since' = since)
      /\ (Begun => since'.sold = since.sold \cup {d})
  BY DEF Sell, IInv, TypeOK, Since
<1>4. TypeOK'
  <2>1. v \in Detalle
    BY DEF v, IInv, TypeOK, Detalle
  <2>2. detalles' \in [DOMAIN detalles' -> Detalle]
    BY <1>0, <1>1, <2>1 DEF IInv, TypeOK, With
  <2>3. status' \in [DOMAIN detalles' -> Status]
    BY <1>0, <1>1, <1>2 DEF IInv, TypeOK, With, Status
  <2> QED
    BY <1>0, <1>1, <1>3, <2>2, <2>3 DEF IInv, TypeOK
<1>5. ProvidersExist'
  BY <1>0, <1>1 DEF v, IInv, ProvidersExist
<1>b. Relevant \subseteq Relevant'
  BY <1>0, <1>1 DEF Relevant
<1>6. Begun => Old' \subseteq Old /\ Old \subseteq DOMAIN detalles /\ d \notin Old
  BY <1>0, <1>1, <1>3 DEF Old, Relevant
<1>7. ReadsAreSound'
  <2>1. Begun' => \A e \in DOMAIN detalles' \ since'.sold :
                    detalles'[e].proveedor \in DOMAIN leidos'
    BY <1>0, <1>1, <1>3 DEF IInv, ReadsAreSound, Begun
  <2>2. pc' \in {"reservas", "done"} =>
          /\ Old' \subseteq DOMAIN filas' /\ DOMAIN filas' \subseteq Relevant'
          /\ \A e \in DOMAIN filas' : filas'[e] = detalles'[e]
    <3> SUFFICES ASSUME pc \in {"reservas", "done"}
                 PROVE  /\ Old' \subseteq DOMAIN filas /\ DOMAIN filas \subseteq Relevant'
                        /\ \A e \in DOMAIN filas : filas[e] = detalles'[e]
      BY <1>0
    <3>1. /\ Old \subseteq DOMAIN filas /\ DOMAIN filas \subseteq Relevant
          /\ \A e \in DOMAIN filas : filas[e] = detalles[e]
      BY DEF IInv, ReadsAreSound
    <3>2. Relevant \subseteq DOMAIN detalles
      BY DEF Relevant
    <3> QED
      BY <1>b, <1>1, <1>6, <3>1, <3>2 DEF Begun
  <2>3. pc' = "done" =>
          /\ DOMAIN estados' = DOMAIN filas'
          /\ \A e \in DOMAIN filas' \ since'.changed : estados'[e] = status'[e]
    BY <1>0, <1>1, <1>2, <1>3 DEF IInv, ReadsAreSound, Relevant
  <2> QED
    BY <2>1, <2>2, <2>3 DEF ReadsAreSound
<1>8. NewIsPending'
  BY <1>0, <1>1, <1>2, <1>3 DEF IInv, NewIsPending, Begun
<1>9. TablesAreFinite'
  BY <1>0, <1>1, FS_AddElement DEF IInv, TablesAreFinite
<1> QED
  BY <1>4, <1>5, <1>7, <1>8, <1>9 DEF IInv

\* Whose status changes is no longer settled.
LEMMA UpdateEstadoKeeps ==
  ASSUME IInv, NEW d \in Detalles, NEW s \in Status, UpdateEstado(d, s)
  PROVE  IInv'
<1>1. /\ UNCHANGED <<proveedores, detalles, today, pc, range, leidos, filas, estados>>
      /\ status' \in [DOMAIN detalles -> Status]
      /\ \A e \in DOMAIN detalles \ {d} : status'[e] = status[e]
  BY DEF UpdateEstado, IInv, TypeOK
<1>2. since' \in Since /\ since'.sold = since.sold /\ since.changed \subseteq since'.changed
      /\ (~ Begun => since' = since)
      /\ (Begun => since'.changed = since.changed \cup {d})
  BY DEF UpdateEstado, IInv, TypeOK, Since
<1>3. TypeOK'
  BY <1>1, <1>2 DEF IInv, TypeOK
<1>4. ProvidersExist' /\ Old' = Old /\ Relevant' = Relevant
  BY <1>1, <1>2 DEF IInv, ProvidersExist, Old, Relevant
<1>5. ReadsAreSound'
  <2>1. Begun' => \A e \in DOMAIN detalles' \ since'.sold :
                    detalles'[e].proveedor \in DOMAIN leidos'
    BY <1>1, <1>2 DEF IInv, ReadsAreSound, Begun
  <2>2. pc' \in {"reservas", "done"} =>
          /\ Old' \subseteq DOMAIN filas' /\ DOMAIN filas' \subseteq Relevant'
          /\ \A e \in DOMAIN filas' : filas'[e] = detalles'[e]
    BY <1>1, <1>4 DEF IInv, ReadsAreSound
  <2>3. pc' = "done" =>
          /\ DOMAIN estados' = DOMAIN filas'
          /\ \A e \in DOMAIN filas' \ since'.changed : estados'[e] = status'[e]
    BY <1>1, <1>2 DEF IInv, ReadsAreSound, Begun, Relevant
  <2> QED
    BY <2>1, <2>2, <2>3 DEF ReadsAreSound
<1>6. NewIsPending' /\ TablesAreFinite'
  BY <1>1, <1>2 DEF IInv, NewIsPending, TablesAreFinite, Begun
<1> QED
  BY <1>3, <1>4, <1>5, <1>6 DEF IInv

\* The foreign key is why the provider of every sale so far is among them.
LEMMA ReadProveedoresKeeps == IInv /\ ReadProveedores => IInv'
<1> SUFFICES ASSUME IInv, ReadProveedores PROVE IInv'
  OBVIOUS
<1>1. UNCHANGED <<dbVars, range, filas, estados, since>> /\ leidos' = proveedores
      /\ pc' = "detalles"
  BY DEF ReadProveedores
<1>2. TypeOK'
  BY <1>1 DEF IInv, TypeOK, dbVars
<1>3. ProvidersExist'
  BY <1>1 DEF IInv, ProvidersExist, dbVars
<1>4. ReadsAreSound'
  BY <1>1 DEF IInv, ReadsAreSound, ProvidersExist, dbVars
<1>5. NewIsPending' /\ TablesAreFinite'
  BY <1>1 DEF IInv, NewIsPending, TablesAreFinite, dbVars, Begun
<1> QED
  BY <1>2, <1>3, <1>4, <1>5 DEF IInv

\* The detalles of the range, as they are.
LEMMA ReadDetallesKeeps == IInv /\ ReadDetalles => IInv'
<1> SUFFICES ASSUME IInv, ReadDetalles PROVE IInv'
  OBVIOUS
<1>1. /\ UNCHANGED <<dbVars, range, leidos, estados, since>>
      /\ pc = "detalles" /\ pc' = "reservas"
      /\ DOMAIN filas' = {e \in DOMAIN detalles : InRange(e)}
      /\ \A e \in DOMAIN filas' : filas'[e] = detalles[e]
      /\ filas' \in [DOMAIN filas' -> Detalle]
  BY DEF ReadDetalles, IInv, TypeOK
<1>2. TypeOK'
  BY <1>1 DEF IInv, TypeOK, dbVars
<1>3. ProvidersExist' /\ Old' = Old /\ Relevant' = Relevant
  BY <1>1 DEF IInv, ProvidersExist, dbVars, Old, Relevant
<1>4. Old \subseteq DOMAIN filas' /\ DOMAIN filas' \subseteq Relevant
  BY <1>1, InRangeIsRelevant DEF IInv, Old, Relevant
<1>5. ReadsAreSound'
  BY <1>1, <1>3, <1>4 DEF IInv, ReadsAreSound, dbVars, Begun
<1>6. NewIsPending' /\ TablesAreFinite'
  BY <1>1 DEF IInv, NewIsPending, TablesAreFinite, dbVars, Begun
<1> QED
  BY <1>2, <1>3, <1>5, <1>6 DEF IInv

\* The status of each, as it is.
LEMMA ReadReservasKeeps == IInv /\ ReadReservas => IInv'
<1> SUFFICES ASSUME IInv, ReadReservas PROVE IInv'
  OBVIOUS
<1>1. /\ UNCHANGED <<dbVars, range, leidos, filas, since>>
      /\ pc = "reservas" /\ pc' = "done"
      /\ estados' = [d \in DOMAIN filas |-> status[d]]
  BY DEF ReadReservas
<1>2. estados' \in [DOMAIN estados' -> Status]
  BY <1>1 DEF IInv, TypeOK, ReadsAreSound, Relevant
<1>3. TypeOK'
  BY <1>1, <1>2 DEF IInv, TypeOK, dbVars
<1>4. ProvidersExist' /\ Old' = Old /\ Relevant' = Relevant
  BY <1>1 DEF IInv, ProvidersExist, dbVars, Old, Relevant
<1>5. ReadsAreSound'
  BY <1>1, <1>4 DEF IInv, ReadsAreSound, dbVars, Begun
<1>6. NewIsPending' /\ TablesAreFinite'
  BY <1>1 DEF IInv, NewIsPending, TablesAreFinite, dbVars, Begun
<1> QED
  BY <1>3, <1>4, <1>5, <1>6 DEF IInv

\* Every step keeps the invariant.
LEMMA NextIInv == IInv /\ [Next]_vars => IInv'
<1> SUFFICES ASSUME IInv, [Next]_vars PROVE IInv'
  OBVIOUS
<1>1. ASSUME NEW p \in Proveedores, NEW tipo \in Tipos, CreateProveedor(p, tipo)
      PROVE  IInv'
  <2> DEFINE v == [tipo |-> tipo, activo |-> TRUE]
  <2>1. /\ DOMAIN proveedores' = DOMAIN proveedores \cup {p}
        /\ proveedores' = With(proveedores, p, v)
        /\ UNCHANGED <<detalles, status, today, readVars>>
    BY <1>1 DEF CreateProveedor, With
  <2>2. v \in Proveedor
    BY DEF Proveedor
  <2>3. proveedores' \in [DOMAIN proveedores' -> Proveedor]
    BY <2>1, <2>2 DEF IInv, TypeOK, With
  <2>4. \A d \in DOMAIN detalles : detalles[d].proveedor \in DOMAIN proveedores'
    BY <2>1 DEF IInv, ProvidersExist
  <2>5. DOMAIN proveedores' \subseteq Proveedores /\ IsFiniteSet(DOMAIN proveedores')
    BY <2>1, FS_AddElement DEF IInv, TypeOK, TablesAreFinite
  <2> QED
    BY <2>1, <2>3, <2>4, <2>5, ProvidersChange
<1>2. ASSUME NEW p \in Proveedores, NEW tipo \in Tipos, NEW activo \in BOOLEAN,
             UpdateProveedor(p, tipo, activo)
      PROVE  IInv'
  <2>1. /\ DOMAIN proveedores' = DOMAIN proveedores
        /\ proveedores' \in [DOMAIN proveedores' -> Proveedor]
        /\ UNCHANGED <<detalles, status, today, readVars>>
    BY <1>2 DEF UpdateProveedor, IInv, TypeOK, Proveedor
  <2>2. \A d \in DOMAIN detalles : detalles[d].proveedor \in DOMAIN proveedores'
    BY <2>1 DEF IInv, ProvidersExist
  <2>3. DOMAIN proveedores' \subseteq Proveedores /\ IsFiniteSet(DOMAIN proveedores')
    BY <2>1 DEF IInv, TypeOK, TablesAreFinite
  <2> QED
    BY <2>1, <2>2, <2>3, ProvidersChange
<1>3. ASSUME NEW p \in Proveedores, DeleteProveedor(p) PROVE IInv'
  <2>1. /\ DOMAIN proveedores' = DOMAIN proveedores \ {p}
        /\ proveedores' \in [DOMAIN proveedores' -> Proveedor]
        /\ UNCHANGED <<detalles, status, today, readVars>>
    BY <1>3 DEF DeleteProveedor, IInv, TypeOK
  <2>2. \A d \in DOMAIN detalles : detalles[d].proveedor \in DOMAIN proveedores'
    BY <2>1, <1>3 DEF IInv, ProvidersExist, DeleteProveedor
  <2>3. DOMAIN proveedores' \subseteq Proveedores /\ IsFiniteSet(DOMAIN proveedores')
    BY <2>1, FS_RemoveElement DEF IInv, TypeOK, TablesAreFinite
  <2> QED
    BY <2>1, <2>2, <2>3, ProvidersChange
<1>4. CASE NextDay
  <2>1. today' \in Days /\ UNCHANGED <<proveedores, detalles, status, readVars>>
    BY <1>4, DaysAssumption DEF NextDay, Days, IInv, TypeOK
  <2>2. TypeOK'
    BY <2>1 DEF IInv, TypeOK, readVars
  <2>3. ProvidersExist' /\ ReadsAreSound'
    BY <2>1 DEF IInv, ProvidersExist, ReadsAreSound, readVars, Begun, Old, Relevant
  <2>4. NewIsPending' /\ TablesAreFinite'
    BY <2>1 DEF IInv, NewIsPending, TablesAreFinite, readVars, Begun
  <2> QED
    BY <2>2, <2>3, <2>4 DEF IInv
<1>5. CASE UNCHANGED vars
  BY <1>5 DEF vars, IInv, TypeOK, ProvidersExist, ReadsAreSound, NewIsPending,
              TablesAreFinite, Begun, Old, Relevant
<1> QED
  BY <1>1, <1>2, <1>3, <1>4, <1>5, SellKeeps, UpdateEstadoKeeps,
     ReadProveedoresKeeps, ReadDetallesKeeps, ReadReservasKeeps DEF Next

\* The invariant holds in every reachable state.
THEOREM Invariant == Spec => []IInv
<1> QED
  BY InitIInv, NextIInv, PTL DEF Spec

\* The tables and what was read of them keep their types.
THEOREM TypeCorrect == Spec => []TypeOK
<1>1. IInv => TypeOK
  BY DEF IInv
<1> QED
  BY <1>1, Invariant, PTL

\* No sale made before the report began is missing from what it read, whatever
\* happens to the tables in between, and no provider of one.
THEOREM ReportIsCompleteAlways == Spec => []ReportIsComplete
<1>1. IInv => ReportIsComplete
  <2> SUFFICES ASSUME IInv, pc = "done"
               PROVE  /\ \A d \in Old : /\ d \in DOMAIN filas /\ filas[d] = detalles[d]
                                        /\ filas[d].proveedor \in DOMAIN leidos
                      /\ \A d \in Settled : estados[d] = status[d]
    BY DEF ReportIsComplete
  <2> QED
    BY DEF IInv, ReadsAreSound, Begun, Old, Settled, Relevant
<1> QED
  BY <1>1, Invariant, PTL
-----------------------------------------------------------------------------
(* The figures of the report. *)

\* What a detalle of the report counts for in a column, as its status puts it.
Weight(c) ==
  [d \in DOMAIN filas |->
     IF c = "revenue"
     THEN IF Column(estados[d]) = "confirmadas" THEN filas[d].subtotal ELSE 0
     ELSE IF Column(estados[d]) = c THEN 1 ELSE 0]

Row == [confirmadas : Nat, canceladas : Nat, pendientes : Nat, revenue : Nat,
        ultimaVenta : Nat]

\* What the loops of the report find in what it read.
LEMMA ReadTypes ==
  ASSUME IInv, pc = "done"
  PROVE  /\ IsFiniteSet(DOMAIN filas) /\ IsFiniteSet(DOMAIN leidos)
         /\ \A d \in DOMAIN filas : filas[d].subtotal \in Nat /\ filas[d].dia \in Nat
         /\ \A p \in DOMAIN leidos : leidos[p].tipo \in TIPOS_BASE
         /\ \A c, d : d \in DOMAIN filas => Weight(c)[d] \in Nat
<1>1. DOMAIN filas \subseteq DOMAIN detalles
  BY DEF IInv, ReadsAreSound, Relevant
<1>2. IsFiniteSet(DOMAIN filas) /\ IsFiniteSet(DOMAIN leidos)
  BY <1>1, FS_Subset DEF IInv, TablesAreFinite
<1>3. \A d \in DOMAIN filas : filas[d].subtotal \in Nat /\ filas[d].dia \in Nat
  BY SubtotalesAssumption, DaysAssumption DEF IInv, TypeOK, Detalle, Days
<1>4. \A p \in DOMAIN leidos : leidos[p].tipo \in TIPOS_BASE
  BY TiposAssumption DEF IInv, TypeOK, Proveedor
<1>5. \A c, d : d \in DOMAIN filas => Weight(c)[d] \in Nat
  BY <1>3 DEF Weight
<1> QED
  BY <1>2, <1>3, <1>4, <1>5

\* One turn of the loop adds to every column what the detalle counts for in it.
LEMMA AddAdds ==
  ASSUME IInv, pc = "done", NEW d \in DOMAIN filas, NEW b \in Row
  PROVE  Add(d, b) \in Row /\ \A c \in SumsOf : Add(d, b)[c] = Weight(c)[d] + b[c]
<1> DEFINE latest == IF filas[d].dia > b.ultimaVenta THEN filas[d].dia ELSE b.ultimaVenta
<1>0. filas[d].subtotal \in Nat /\ filas[d].dia \in Nat
  BY ReadTypes
<1>1. /\ b.confirmadas + 1 \in Nat /\ b.canceladas + 1 \in Nat /\ b.pendientes + 1 \in Nat
      /\ b.revenue \in Nat /\ b.revenue + filas[d].subtotal \in Nat /\ latest \in Nat
  BY <1>0 DEF Row
<1>2. CASE Column(estados[d]) = "confirmadas"
  <2>1. Add(d, b) = [b EXCEPT !.confirmadas = b.confirmadas + 1, !.revenue = b.revenue + filas[d].subtotal,
                              !.ultimaVenta = latest]
    BY <1>2 DEF Add, Row
  <2>2. Add(d, b) \in Row
    <3> HIDE DEF latest
    <3> QED
      BY <1>1, <2>1 DEF Row
  <2>3. /\ Weight("confirmadas")[d] = 1 /\ Weight("canceladas")[d] = 0
        /\ Weight("pendientes")[d] = 0 /\ Weight("revenue")[d] = filas[d].subtotal
    BY <1>2 DEF Weight
  <2> QED
    BY <1>0, <2>1, <2>2, <2>3 DEF Row, SumsOf
<1>3. CASE Column(estados[d]) = "canceladas"
  <2>1. Add(d, b) = [b EXCEPT !.canceladas = b.canceladas + 1, !.revenue = b.revenue,
                              !.ultimaVenta = latest]
    BY <1>3 DEF Add, Row
  <2>2. Add(d, b) \in Row
    <3> HIDE DEF latest
    <3> QED
      BY <1>1, <2>1 DEF Row
  <2>3. /\ Weight("confirmadas")[d] = 0 /\ Weight("canceladas")[d] = 1
        /\ Weight("pendientes")[d] = 0 /\ Weight("revenue")[d] = 0
    BY <1>3 DEF Weight
  <2> QED
    BY <1>0, <2>1, <2>2, <2>3 DEF Row, SumsOf
<1>4. CASE Column(estados[d]) = "pendientes"
  <2>1. Add(d, b) = [b EXCEPT !.pendientes = b.pendientes + 1, !.revenue = b.revenue,
                              !.ultimaVenta = latest]
    BY <1>4 DEF Add, Row
  <2>2. Add(d, b) \in Row
    <3> HIDE DEF latest
    <3> QED
      BY <1>1, <2>1 DEF Row
  <2>3. /\ Weight("confirmadas")[d] = 0 /\ Weight("canceladas")[d] = 0
        /\ Weight("pendientes")[d] = 1 /\ Weight("revenue")[d] = 0
    BY <1>4 DEF Weight
  <2> QED
    BY <1>0, <2>1, <2>2, <2>3 DEF Row, SumsOf
<1> QED
  BY <1>2, <1>3, <1>4 DEF Column

\* The loop over any of the detalles adds up what they count for.
LEMMA LoopAdds ==
  ASSUME IInv, pc = "done", NEW S \in SUBSET DOMAIN filas
  PROVE  /\ FoldSet(Add, Empty, S) \in Row
         /\ \A c \in SumsOf : FoldSet(Add, Empty, S)[c] = Sum(Weight(c), S)
<1> DEFINE R(g, s) == IF s = {} THEN Empty ELSE Add(Pick(s), g[s \ {Pick(s)}])
           step == [x \in S |-> [b \in Row |-> Add(x, b)]]
           iter == CHOOSE g : g = [s \in SUBSET S |-> R(g, s)]
<1>0. IsFiniteSet(S) /\ \A s \in SUBSET S : IsFiniteSet(s)
  BY ReadTypes, FS_Subset
<1>1. \A s \in SUBSET S : s # {} => Pick(s) \in S /\ s \ {Pick(s)} \in SUBSET S
  BY Picked
<1>2. Empty \in Row
  BY DEF Empty, Row
<1>3. PICK g : g \in [SUBSET S -> Row] /\ FoldsUp(g, S, Empty, step)
  <2>1. step \in [S -> [Row -> Row]]
    BY AddAdds
  <2> HIDE DEF step
  <2> QED
    BY <1>0, <1>2, <2>1, FoldExists
<1>4. \A s \in SUBSET S : g[s] = R(g, s)
  <2> SUFFICES ASSUME NEW s \in SUBSET S, s # {} PROVE g[s] = R(g, s)
    BY <1>3 DEF FoldsUp
  <2>1. g[s \ {Pick(s)}] \in Row /\ Pick(s) \in S
    BY <1>1, <1>3
  <2>2. g[s] = step[Pick(s)][g[s \ {Pick(s)}]]
    BY <1>3 DEF FoldsUp
  <2> QED
    BY <2>1, <2>2
<1>5. iter = [s \in SUBSET S |-> R(iter, s)]
  <2>1. g = [s \in SUBSET S |-> R(g, s)]
    <3>1. g = [s \in SUBSET S |-> g[s]]
      BY <1>3
    <3> HIDE DEF R
    <3> QED
      BY <1>4, <3>1
  <2> QED
    BY <2>1
<1>6. FoldSet(Add, Empty, S) = iter[S]
  BY DEF FoldSet, MapThenFoldSet, Pick
<1> HIDE DEF iter
<1>7. \A s \in SUBSET S : iter[s] = R(iter, s)
  BY <1>5
<1> DEFINE G == {s \in SUBSET S :
                   iter[s] \in Row /\ \A c \in SumsOf : iter[s][c] = Sum(Weight(c), s)}
<1>8. {} \in G
  <2>1. iter[{}] = Empty
    BY <1>7
  <2>2. \A c \in SumsOf : Empty[c] = 0
    BY DEF Empty, SumsOf
  <2>3. \A c \in SumsOf : Sum(Weight(c), {}) = 0
    BY SumEmpty
  <2> QED
    BY <1>2, <2>1, <2>2, <2>3
<1>9. ASSUME NEW s \in SUBSET S, s # {}, s \ {Pick(s)} \in G PROVE s \in G
  <2> DEFINE z == Pick(s)
             t == s \ {z}
  <2>1. z \in S /\ z \notin t /\ t \cup {z} = s /\ t \in SUBSET S
    BY <1>9, Picked
  <2>2. iter[t] \in Row /\ \A c \in SumsOf : iter[t][c] = Sum(Weight(c), t)
    BY <1>9
  <2>3. iter[s] = Add(z, iter[t])
    BY <1>7, <1>9
  <2> HIDE DEF z, t
  <2>4. iter[s] \in Row /\ \A c \in SumsOf : iter[s][c] = Weight(c)[z] + iter[t][c]
    BY <2>1, <2>2, <2>3, AddAdds
  <2>5. ASSUME NEW c \in SumsOf PROVE iter[s][c] = Sum(Weight(c), s)
    <3>1. Sum(Weight(c), t \cup {z}) = Weight(c)[z] + Sum(Weight(c), t)
      <4>1. IsFiniteSet(t) /\ \A y \in t \cup {z} : Weight(c)[y] \in Nat
        BY <1>0, <2>1, ReadTypes
      <4> QED
        BY <2>1, <4>1, SumAdd
    <3> QED
      BY <2>1, <2>2, <2>4, <3>1
  <2> QED
    BY <2>4, <2>5
<1>10. G = SUBSET S
  <2>1. G \in SUBSET SUBSET S
    OBVIOUS
  <2> HIDE DEF G
  <2> QED
    BY <1>0, <1>8, <1>9, <2>1, PickInduction
<1>11. S \in G
  BY <1>10
<1> QED
  BY <1>6, <1>11
\* The bucket of a provider has its share of every column.
LEMMA Buckets ==
  ASSUME IInv, pc = "done", NEW p \in DOMAIN leidos, NEW c \in SumsOf
  PROVE  /\ ProveedoresOut[p][c] = Sum(Weight(c), {d \in DOMAIN filas : filas[d].proveedor = p})
         /\ ProveedoresOut[p][c] \in Nat
<1> DEFINE S == {d \in DOMAIN filas : filas[d].proveedor = p}
<1>1. ProveedoresOut[p] = FoldSet(Add, Empty, S)
  BY DEF ProveedoresOut, Bucket
<1>2. S \in SUBSET DOMAIN filas
  OBVIOUS
<1> HIDE DEF S
<1>3. FoldSet(Add, Empty, S) \in Row /\ FoldSet(Add, Empty, S)[c] = Sum(Weight(c), S)
  BY <1>2, LoopAdds
<1>4. FoldSet(Add, Empty, S)[c] \in Nat
  BY <1>3 DEF Row, SumsOf
<1> QED
  BY <1>1, <1>3, <1>4 DEF S

Totales == [TIPOS_BASE -> [SumsOf -> Nat]]

\* A column of the rollup over all tipos.
Over(t, c) == Sum([tipo \in TIPOS_BASE |-> t[tipo][c]], TIPOS_BASE)

\* There are four.
LEMMA TiposAreFinite == IsFiniteSet(TIPOS_BASE)
<1>1. IsFiniteSet({"VEHICLE"})
  BY FS_Singleton
<1>2. IsFiniteSet({"VEHICLE"} \cup {"FLIGHT"})
  BY <1>1, FS_AddElement
<1>3. IsFiniteSet(({"VEHICLE"} \cup {"FLIGHT"}) \cup {"HOTEL"})
  BY <1>2, FS_AddElement
<1>4. IsFiniteSet((({"VEHICLE"} \cup {"FLIGHT"}) \cup {"HOTEL"}) \cup {"ATTRACTION"})
  BY <1>3, FS_AddElement
<1>5. TIPOS_BASE = (({"VEHICLE"} \cup {"FLIGHT"}) \cup {"HOTEL"}) \cup {"ATTRACTION"}
  BY DEF TIPOS_BASE
<1> QED
  BY <1>4, <1>5

\* A provider adds its row to the totals of its tipo, and so to the whole.
LEMMA AddRowAdds ==
  ASSUME IInv, pc = "done", NEW p \in DOMAIN leidos, NEW t \in Totales
  PROVE  /\ AddRow(p, t) \in Totales
         /\ \A c \in SumsOf : Over(AddRow(p, t), c) = ProveedoresOut[p][c] + Over(t, c)
<1> DEFINE q == leidos[p].tipo
           row == [c \in SumsOf |-> t[q][c] + ProveedoresOut[p][c]]
           u == AddRow(p, t)
<1>1. q \in TIPOS_BASE
  BY ReadTypes
<1>2. \A c \in SumsOf : ProveedoresOut[p][c] \in Nat
  BY Buckets
<1>3. row \in [SumsOf -> Nat]
  BY <1>1, <1>2 DEF Totales
<1>4. u = [t EXCEPT ![q] = row]
  BY DEF AddRow
<1> HIDE DEF q, row, u
<1>5. u \in Totales
  BY <1>1, <1>3, <1>4 DEF Totales
<1>6. ASSUME NEW c \in SumsOf PROVE Over(u, c) = ProveedoresOut[p][c] + Over(t, c)
  <2> DEFINE f == [tipo \in TIPOS_BASE |-> t[tipo][c]]
             g == [tipo \in TIPOS_BASE |-> u[tipo][c]]
             n == ProveedoresOut[p][c]
  <2>1. \A tipo \in TIPOS_BASE : f[tipo] \in Nat
    BY DEF Totales
  <2>2. g[q] = n + f[q]
    <3>1. u[q][c] = row[c]
      BY <1>1, <1>4 DEF Totales
    <3>2. row[c] = t[q][c] + n
      BY DEF row
    <3>3. t[q][c] \in Nat /\ n \in Nat
      BY <1>1, <1>2 DEF Totales
    <3> QED
      BY <1>1, <3>1, <3>2, <3>3
  <2>3. \A tipo \in TIPOS_BASE \ {q} : g[tipo] = f[tipo]
    BY <1>4 DEF Totales
  <2>4. n \in Nat
    BY <1>2
  <2> HIDE DEF f, g, n
  <2>5. Sum(g, TIPOS_BASE) = n + Sum(f, TIPOS_BASE)
    BY <1>1, <2>1, <2>2, <2>3, <2>4, TiposAreFinite, SumUpdate
  <2> QED
    BY <2>5 DEF Over, f, g, n
<1> QED
  BY <1>5, <1>6 DEF u

Out(c) == [p \in DOMAIN leidos |-> ProveedoresOut[p][c]]

\* The totals add up the rows of the providers that were read.
LEMMA TotalesAdd ==
  ASSUME IInv, pc = "done", NEW c \in SumsOf
  PROVE  Overall(c) = Sum(Out(c), DOMAIN leidos)
<1> DEFINE S == DOMAIN leidos
           none == [tipo \in TIPOS_BASE |-> [k \in SumsOf |-> 0]]
           R(g, s) == IF s = {} THEN none ELSE AddRow(Pick(s), g[s \ {Pick(s)}])
           step == [x \in S |-> [t \in Totales |-> AddRow(x, t)]]
           iter == CHOOSE g : g = [s \in SUBSET S |-> R(g, s)]
<1>0. IsFiniteSet(S) /\ \A s \in SUBSET S : IsFiniteSet(s)
  BY ReadTypes, FS_Subset
<1>1. \A s \in SUBSET S : s # {} => Pick(s) \in S /\ s \ {Pick(s)} \in SUBSET S
  BY Picked
<1>2. none \in Totales
  BY DEF Totales
<1>3. PICK g : g \in [SUBSET S -> Totales] /\ FoldsUp(g, S, none, step)
  <2>1. step \in [S -> [Totales -> Totales]]
    BY AddRowAdds
  <2> HIDE DEF S, step, none
  <2> QED
    BY <1>0, <1>2, <2>1, FoldExists
<1> HIDE DEF S, none
<1>4. \A s \in SUBSET S : g[s] = R(g, s)
  <2> SUFFICES ASSUME NEW s \in SUBSET S, s # {} PROVE g[s] = R(g, s)
    BY <1>3 DEF FoldsUp
  <2>1. g[s \ {Pick(s)}] \in Totales /\ Pick(s) \in S
    BY <1>1, <1>3
  <2>2. g[s] = step[Pick(s)][g[s \ {Pick(s)}]]
    BY <1>3 DEF FoldsUp
  <2> QED
    BY <2>1, <2>2
<1>5. iter = [s \in SUBSET S |-> R(iter, s)]
  <2>1. g = [s \in SUBSET S |-> R(g, s)]
    <3>1. g = [s \in SUBSET S |-> g[s]]
      BY <1>3
    <3> HIDE DEF R
    <3> QED
      BY <1>4, <3>1
  <2> QED
    BY <2>1
<1>6. TotalesPorTipo = iter[S]
  BY DEF TotalesPorTipo, FoldSet, MapThenFoldSet, Pick, S, none
<1> HIDE DEF iter
<1>7. \A s \in SUBSET S : iter[s] = R(iter, s)
  BY <1>5
<1> DEFINE G == {s \in SUBSET S : iter[s] \in Totales /\ Over(iter[s], c) = Sum(Out(c), s)}
<1>8. {} \in G
  <2>1. iter[{}] = none
    BY <1>7
  <2>2. Over(none, c) = 0
    <3> DEFINE f == [tipo \in TIPOS_BASE |-> none[tipo][c]]
    <3>1. \A tipo \in TIPOS_BASE : f[tipo] = 0
      BY DEF none
    <3> HIDE DEF f
    <3>2. Sum(f, TIPOS_BASE) <= Sum(f, {})
      BY <3>1, TiposAreFinite, FS_EmptySet, SumDominated
    <3>3. Sum(f, TIPOS_BASE) \in Nat
      BY <3>1, TiposAreFinite, SumType
    <3>4. Sum(f, TIPOS_BASE) = 0
      BY <3>2, <3>3, SumEmpty
    <3> QED
      BY <3>4 DEF f, Over
  <2> QED
    BY <1>2, <2>1, <2>2, SumEmpty
<1>9. ASSUME NEW s \in SUBSET S, s # {}, s \ {Pick(s)} \in G PROVE s \in G
  <2> DEFINE z == Pick(s)
             t == s \ {z}
  <2>1. z \in S /\ z \notin t /\ t \cup {z} = s /\ t \in SUBSET S
    BY <1>9, Picked
  <2>2. iter[t] \in Totales /\ Over(iter[t], c) = Sum(Out(c), t)
    BY <1>9
  <2>3. iter[s] = AddRow(z, iter[t])
    BY <1>7, <1>9
  <2> HIDE DEF z, t
  <2>4. iter[s] \in Totales /\ Over(iter[s], c) = Out(c)[z] + Over(iter[t], c)
    BY <2>1, <2>2, <2>3, AddRowAdds DEF S, Out
  <2>5. Sum(Out(c), t \cup {z}) = Out(c)[z] + Sum(Out(c), t)
    <3>1. IsFiniteSet(t) /\ \A y \in t \cup {z} : Out(c)[y] \in Nat
      BY <1>0, <2>1, Buckets DEF S, Out
    <3> QED
      BY <2>1, <3>1, SumAdd
  <2>6. Over(iter[s], c) = Sum(Out(c), s)
    BY <2>1, <2>2, <2>4, <2>5
  <2> QED
    BY <2>4, <2>6
<1>10. G = SUBSET S
  <2>1. G \in SUBSET SUBSET S
    OBVIOUS
  <2> HIDE DEF G
  <2> QED
    BY <1>0, <1>8, <1>9, <2>1, PickInduction
<1>11. S \in G
  BY <1>10
<1> QED
  BY <1>6, <1>11 DEF Overall, Over, S

\* The detalles that the report counts: those it read of a provider it read.
Counted == {d \in DOMAIN filas : filas[d].proveedor \in DOMAIN leidos}

\* Each of them counts once in the totals, whatever its provider and its tipo.
LEMMA OverallIsCounted ==
  ASSUME IInv, pc = "done", NEW c \in SumsOf
  PROVE  Overall(c) = Sum(Weight(c), Counted)
<1> DEFINE key == [d \in DOMAIN filas |-> filas[d].proveedor]
<1>1. \A p \in DOMAIN leidos : Out(c)[p] = Sum(Weight(c), WithKey(DOMAIN filas, key, p))
  <2> SUFFICES ASSUME NEW p \in DOMAIN leidos
               PROVE  Out(c)[p] = Sum(Weight(c), WithKey(DOMAIN filas, key, p))
    OBVIOUS
  <2>1. WithKey(DOMAIN filas, key, p) = {d \in DOMAIN filas : filas[d].proveedor = p}
    BY DEF WithKey
  <2>2. Out(c)[p] = ProveedoresOut[p][c]
    BY DEF Out
  <2> QED
    BY <2>1, <2>2, Buckets
<1>2. Counted = WithKeys(DOMAIN filas, key, DOMAIN leidos)
  BY DEF Counted, WithKeys
<1> HIDE DEF key
<1>3. /\ IsFiniteSet(DOMAIN filas) /\ IsFiniteSet(DOMAIN leidos)
      /\ \A d \in DOMAIN filas : Weight(c)[d] \in Nat
  BY ReadTypes
<1>4. Sum(Out(c), DOMAIN leidos) = Sum(Weight(c), WithKeys(DOMAIN filas, key, DOMAIN leidos))
  BY <1>1, <1>3, SumByKey
<1> QED
  BY <1>2, <1>4, TotalesAdd

\* It counts what there was when it began, and nothing out of its range.
LEMMA CountedIsBetween ==
  ASSUME IInv, pc = "done"
  PROVE  /\ IsFiniteSet(Relevant) /\ IsFiniteSet(Old) /\ IsFiniteSet(Counted)
         /\ Old \subseteq Counted /\ Counted \subseteq Relevant
<1>1. Old \subseteq Counted /\ Counted \subseteq Relevant
  BY DEF IInv, ReadsAreSound, Begun, Old, Relevant, Counted
<1>2. IsFiniteSet(DOMAIN detalles) /\ Relevant \subseteq DOMAIN detalles
  BY DEF IInv, TablesAreFinite, Relevant
<1>3. IsFiniteSet(Relevant)
  BY <1>2, FS_Subset
<1> QED
  BY <1>1, <1>3, FS_Subset

\* No sale made before the report began is left out of its totals or counted
\* twice, in whatever order sales, edits and cancellations fall between its
\* reads: the three columns of the totals add up to the detalles it counts.
THEOREM EverySaleIsCountedOnceAlways == Spec => []EverySaleIsCountedOnce
<1>1. ASSUME IInv, pc = "done"
      PROVE  LET counted == Overall("confirmadas") + Overall("canceladas")
                            + Overall("pendientes")
             IN  Cardinality(Old) <= counted /\ counted <= Cardinality(Relevant)
  <2>1. ASSUME NEW d \in Counted
        PROVE  /\ Weight("confirmadas")[d] \in Nat /\ Weight("canceladas")[d] \in Nat
               /\ Weight("pendientes")[d] \in Nat
               /\ Weight("confirmadas")[d] + Weight("canceladas")[d]
                    + Weight("pendientes")[d] = 1
    BY <1>1 DEF Counted, Weight, Column
  <2>2. IsFiniteSet(Relevant) /\ IsFiniteSet(Counted)
        /\ Old \subseteq Counted /\ Counted \subseteq Relevant
    BY <1>1, CountedIsBetween
  <2>3. Sum(Weight("confirmadas"), Counted) + Sum(Weight("canceladas"), Counted)
          + Sum(Weight("pendientes"), Counted) = Cardinality(Counted)
    BY <2>1, <2>2, SumOfColumns
  <2>4. /\ Overall("confirmadas") = Sum(Weight("confirmadas"), Counted)
        /\ Overall("canceladas") = Sum(Weight("canceladas"), Counted)
        /\ Overall("pendientes") = Sum(Weight("pendientes"), Counted)
    BY <1>1, OverallIsCounted DEF SumsOf
  <2>5. Cardinality(Old) <= Cardinality(Counted) /\ Cardinality(Counted) <= Cardinality(Relevant)
    BY <2>2, FS_Subset
  <2> QED
    BY <2>3, <2>4, <2>5
<1>2. IInv => EverySaleIsCountedOnce
  BY <1>1 DEF EverySaleIsCountedOnce
<1> QED
  BY <1>2, Invariant, PTL

\* The total revenue is at least the price of the CONFIRMADA reservas of the
\* range that were left alone during the report, and at most that, the price of
\* the failed ones, which the code takes for sales, and of what changed its status
\* meanwhile: nothing pending or cancelled that was left alone is revenue.
THEOREM RevenueIsAccountedAlways == Spec => []RevenueIsAccounted
<1>1. ASSUME IInv, pc = "done"
      PROVE  LET sales  == {d \in Settled : IsSale(d)}
                 failed == {d \in Settled : HasFailed(d)}
             IN  /\ Overall("revenue") >= Earned(sales)
                 /\ Overall("revenue")
                      <= Earned(sales \cup failed \cup (Relevant \cap since.changed))
  <2> DEFINE sure == {d \in Settled : IsSale(d)}
             failed == {d \in Settled : HasFailed(d)}
             most == sure \cup failed \cup (Relevant \cap since.changed)
             price == [d \in DOMAIN detalles |-> detalles[d].subtotal]
             w == Weight("revenue")
  <2>1. Overall("revenue") = Sum(w, Counted)
    BY <1>1, OverallIsCounted DEF SumsOf
  <2>2. IsFiniteSet(Relevant) /\ IsFiniteSet(Counted)
        /\ Old \subseteq Counted /\ Counted \subseteq Relevant
    BY <1>1, CountedIsBetween
  <2>3. sure \subseteq Old /\ most \subseteq Relevant
    BY DEF Settled, Old
  <2>4. IsFiniteSet(sure) /\ IsFiniteSet(most)
    BY <2>2, <2>3, FS_Subset
  <2>5. \A d \in Relevant : price[d] \in Nat
    BY <1>1, SubtotalesAssumption DEF Relevant, IInv, TypeOK, Detalle
  <2>6. \A d \in Counted : w[d] \in Nat
    BY <1>1, ReadTypes DEF Counted
  <2>7. \A d \in Counted : d \notin since.changed => estados[d] = status[d]
    BY <1>1 DEF Counted, IInv, ReadsAreSound
  <2>8. \A d \in Counted : filas[d].subtotal = price[d]
    BY <1>1, <2>2 DEF Counted, IInv, ReadsAreSound, Relevant
  <2>9. \A d \in sure : d \in Counted /\ price[d] <= w[d]
    <3> SUFFICES ASSUME NEW d \in sure PROVE d \in Counted /\ price[d] <= w[d]
      OBVIOUS
    <3>1. d \in Counted /\ d \notin since.changed
      BY <2>2, <2>3 DEF Settled
    <3>2. Column(estados[d]) = "confirmadas"
      BY <2>7, <3>1 DEF IsSale, Column
    <3>3. w[d] = price[d] /\ price[d] \in Nat
      BY <2>2, <2>5, <2>8, <3>1, <3>2 DEF Weight, Counted
    <3> HIDE DEF w, price
    <3> QED
      BY <3>1, <3>3
  <2>10. \A d \in Counted : w[d] # 0 => d \in most /\ w[d] <= price[d]
    <3> SUFFICES ASSUME NEW d \in Counted, w[d] # 0 PROVE d \in most /\ w[d] <= price[d]
      OBVIOUS
    <3>1. Column(estados[d]) = "confirmadas" /\ w[d] = filas[d].subtotal
      BY DEF Weight, Counted
    <3>2. w[d] = price[d] /\ price[d] \in Nat
      BY <2>2, <2>5, <2>8, <3>1
    <3>3. CASE d \in since.changed
      BY <2>2, <3>2, <3>3
    <3>4. CASE d \notin since.changed
      <4>0. status[d] \in Status
        BY <1>1, <2>2 DEF IInv, TypeOK, Relevant
      <4>1. IsSale(d) \/ HasFailed(d)
        BY <2>7, <3>1, <3>4, <4>0 DEF IsSale, HasFailed, Column, Status
      <4>2. d \notin since.sold
        BY <1>1, <3>4, <4>1 DEF IInv, NewIsPending, IsSale, HasFailed
      <4>3. d \in sure \cup failed
        BY <2>2, <3>4, <4>1, <4>2 DEF Settled, Old
      <4> HIDE DEF w, price, sure, failed
      <4> QED
        BY <3>2, <4>3
    <3> QED
      BY <3>3, <3>4
  <2> HIDE DEF w, price, sure, failed, most
  <2>11. Sum(price, sure) <= Sum(w, Counted)
    BY <2>2, <2>3, <2>4, <2>5, <2>6, <2>9, SumDominated
  <2>12. Sum(w, Counted) <= Sum(price, most)
    BY <2>2, <2>3, <2>4, <2>5, <2>6, <2>10, SumDominated
  <2>13. Sum(price, sure) \in Nat /\ Sum(w, Counted) \in Nat
    BY <2>2, <2>3, <2>4, <2>5, <2>6, SumType
  <2>14. Overall("revenue") >= Earned(sure) /\ Overall("revenue") <= Earned(most)
    BY <2>1, <2>11, <2>12, <2>13 DEF Earned, price
  <2> QED
    BY <2>14 DEF sure, failed, most
<1>2. IInv => RevenueIsAccounted
  BY <1>1 DEF RevenueIsAccounted
<1> QED
  BY <1>2, Invariant, PTL
=============================================================================
