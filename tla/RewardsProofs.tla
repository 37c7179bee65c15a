--------------------------- MODULE RewardsProofs ---------------------------
(***************************************************************************)
(* Proofs about Rewards for any heights, miners, weights, rewards, fee,    *)
(* goroutines and faults.                                                  *)
(*                                                                         *)
(* The first part is about finite sets: induction (over the subsets of a   *)
(* finite set and over the numbers, from the well-foundedness theorems of  *)
(* the library), least and greatest members, and sums.  MapThenSumSet and  *)
(* SumFunction fold + over the members of a set in an order nobody knows:  *)
(* that the folding function exists, and that the order does not matter,   *)
(* is proved first.                                                        *)
(***************************************************************************)
EXTENDS Rewards, FiniteSetTheorems, WellFoundedInduction, TLAPS

-----------------------------------------------------------------------------
(* Finite sets.                                                            *)

\* The sum of f[p] over the members p of S.
SumOver(f, S) == MapThenSumSet(LAMBDA p : f[p], S)

\* The sums of the rows and of the columns of a table a with rows S and columns R.
RowSums(a, S, R) == [x \in S |-> SumOver(a[x], R)]
ColumnSums(a, S, R) == [y \in R |-> SumOver([x \in S |-> a[x][y]], S)]

\* The member a fold over s takes first.
First(s) == CHOOSE x \in s : TRUE

\* g folds + over the sets of D, from the value of f at their members.
Folds(f, D, g) ==
    g = [s \in D |-> IF s = {} THEN 0 ELSE f[First(s)] + g[s \ {First(s)}]]

\* g and h both do, over the subsets of R and over those of a part S of it.
BothFold(f, S, R, g, h) == S \subseteq R /\ Folds(f, SUBSET R, g) /\ Folds(f, SUBSET S, h)

-----------------------------------------------------------------------------
\* Induction over the subsets of a finite set, for a set G of the good ones.
LEMMA FiniteInduction ==
    ASSUME NEW S, IsFiniteSet(S), NEW G,
           {} \in G,
           ASSUME NEW T \in SUBSET S, T # {}, \A x \in T : T \ {x} \in G
           PROVE  T \in G
    PROVE  S \in G
<1> DEFINE Bad == {T \in SUBSET S : T \notin G}
<1> SUFFICES ASSUME Bad # {} PROVE FALSE
  OBVIOUS
<1>1. Bad \subseteq FiniteSubsetsOf(S)
  BY FS_Subset DEF FiniteSubsetsOf
<1>2. PICK B \in Bad : \A y \in Bad : ~(<<y, B>> \in StrictSubsetOrdering(S))
  <2> HIDE DEF Bad
  <2> QED
    BY <1>1, FS_StrictSubsetOrderingWellFounded, WFMin
<1>3. \A x \in B : <<B \ {x}, B>> \in StrictSubsetOrdering(S)
  BY DEF StrictSubsetOrdering
<1>4. \A x \in B : B \ {x} \in G
  BY <1>2, <1>3
<1>5. B \in SUBSET S /\ B \notin G
  OBVIOUS
<1> QED
  BY <1>4, <1>5

\* Induction over the natural numbers, for a set G of the good ones.
LEMMA NumberInduction ==
    ASSUME NEW G, 0 \in G, \A n \in Nat : n \in G => n + 1 \in G
    PROVE  Nat \subseteq G
<1> DEFINE Bad == {n \in Nat : n \notin G}
<1> SUFFICES ASSUME Bad # {} PROVE FALSE
  OBVIOUS
<1>1. PICK b \in Bad : \A y \in Bad : ~(<<y, b>> \in OpToRel(<, Nat))
  <2> HIDE DEF Bad
  <2>1. Bad \subseteq Nat
    BY DEF Bad
  <2> QED BY <2>1, NatLessThanWellFounded, WFMin
<1>2. b - 1 \in Bad
  OBVIOUS
<1>3. <<b - 1, b>> \in OpToRel(<, Nat)
  BY <1>2 DEF OpToRel
<1> QED
  BY <1>1, <1>2, <1>3

-----------------------------------------------------------------------------
\* A finite set of numbers has a least and a greatest member.
LEMMA MinMax ==
    ASSUME NEW S \in SUBSET Nat, IsFiniteSet(S), S # {}
    PROVE  /\ Min(S) \in S /\ \A x \in S : Min(S) <= x
           /\ Max(S) \in S /\ \A x \in S : x <= Max(S)
<1> DEFINE Least(T) == \E x \in T : \A y \in T : x <= y
           Greatest(T) == \E x \in T : \A y \in T : y <= x
           G == {T \in SUBSET S : T = {} \/ (Least(T) /\ Greatest(T))}
<1>1. {} \in G
  OBVIOUS
<1>2. ASSUME NEW T \in SUBSET S, T # {}, \A x \in T : T \ {x} \in G
      PROVE  T \in G
  <2>1. PICK x : x \in T
    BY <1>2
  <2>2. CASE T \ {x} = {}
    BY <2>1, <2>2
  <2>3. CASE T \ {x} # {}
    <3>1. PICK l \in T \ {x} : \A y \in T \ {x} : l <= y
      BY <1>2, <2>1, <2>3
    <3>2. PICK g \in T \ {x} : \A y \in T \ {x} : y <= g
      BY <1>2, <2>1, <2>3
    <3>3. Least(T)
      BY <2>1, <3>1
    <3>4. Greatest(T)
      BY <2>1, <3>2
    <3> QED
      BY <3>3, <3>4
  <2> QED
    BY <2>2, <2>3
<1>3. S \in G
  <2> HIDE DEF G
  <2> QED
    BY <1>1, <1>2, FiniteInduction
<1> QED
  BY <1>3 DEF Min, Max

-----------------------------------------------------------------------------
(* Sums.                                                                   *)

\* The folding function of a sum exists.
LEMMA FoldExists ==
    ASSUME NEW f, NEW S, IsFiniteSet(S)
    PROVE  \E g : Folds(f, SUBSET S, g)
<1> DEFINE D(n) == {s \in SUBSET S : Cardinality(s) <= n}
           G == {n \in Nat : \E g : Folds(f, D(n), g)}
<1>1. \A s \in SUBSET S : IsFiniteSet(s) /\ Cardinality(s) \in Nat
  BY FS_Subset, FS_CardinalityType
<1>2. 0 \in G
  <2> DEFINE g == [s \in D(0) |-> 0]
  <2>1. \A s \in D(0) : s = {}
    BY <1>1, FS_EmptySet
  <2>2. Folds(f, D(0), g)
    BY <2>1 DEF Folds
  <2> HIDE DEF g
  <2> QED
    BY <2>2
<1>3. ASSUME NEW n \in Nat, n \in G
      PROVE  n + 1 \in G
  <2>1. PICK g : Folds(f, D(n), g)
    BY <1>3
  <2> DEFINE h == [s \in D(n+1) |-> IF s = {} THEN 0 ELSE f[First(s)] + g[s \ {First(s)}]]
  <2>2. \A s \in D(n+1) : s # {} => s \ {First(s)} \in D(n)
    <3> SUFFICES ASSUME NEW s \in D(n+1), s # {}
                 PROVE  s \ {First(s)} \in D(n)
      OBVIOUS
    <3>1. First(s) \in s
      BY DEF First
    <3> QED
      BY <3>1, <1>1, FS_RemoveElement
  <2>3. \A s \in D(n) : s \in D(n+1)
    BY <1>1
  <2>4. \A s \in D(n) : g[s] = h[s]
    BY <2>1, <2>3 DEF Folds
  <2>5. \A s \in D(n+1) : h[s] = IF s = {} THEN 0 ELSE f[First(s)] + h[s \ {First(s)}]
    BY <2>2, <2>3, <2>4
  <2>6. Folds(f, D(n+1), h)
    BY <2>5 DEF Folds
  <2> HIDE DEF h
  <2> QED
    BY <2>6
<1>4. Cardinality(S) \in G
  <2> HIDE DEF G
  <2> QED
    BY <1>1, <1>2, <1>3, NumberInduction
<1>5. D(Cardinality(S)) = SUBSET S
  BY FS_Subset
<1> QED
  BY <1>4, <1>5

\* Two folding functions agree where both are defined.
LEMMA FoldUnique ==
    ASSUME NEW f, NEW S, IsFiniteSet(S), NEW R, NEW g, NEW h, BothFold(f, S, R, g, h)
    PROVE  g[S] = h[S]
<1> USE DEF BothFold
<1> DEFINE G == {T \in SUBSET S : g[T] = h[T]}
<1>1. {} \in G
  BY DEF Folds
<1>2. ASSUME NEW T \in SUBSET S, T # {}, \A x \in T : T \ {x} \in G
      PROVE  T \in G
  <2>1. First(T) \in T
    BY <1>2 DEF First
  <2>2. g[T] = f[First(T)] + g[T \ {First(T)}] /\ h[T] = f[First(T)] + h[T \ {First(T)}]
    BY <1>2 DEF Folds
  <2>3. g[T \ {First(T)}] = h[T \ {First(T)}]
    BY <1>2, <2>1
  <2> QED
    BY <2>2, <2>3
<1>3. S \in G
  <2> HIDE DEF G
  <2> QED
    BY <1>1, <1>2, FiniteInduction
<1> QED
  BY <1>3

\* The sum as any folding function computes it.
LEMMA SumByFold ==
    ASSUME NEW f, NEW S, IsFiniteSet(S), NEW R, NEW g,
           S \subseteq R, Folds(f, SUBSET R, g)
    PROVE  SumOver(f, S) = g[S]
<1> DEFINE h == CHOOSE hh : Folds(f, SUBSET S, hh)
<1>1. SumOver(f, S) = h[S]
  BY DEF SumOver, MapThenSumSet, MapThenFoldSet, Folds, First
<1>2. Folds(f, SUBSET S, h)
  BY FoldExists
<1> HIDE DEF h
<1>3. BothFold(f, S, R, g, h)
  BY <1>2 DEF BothFold
<1> QED
  BY <1>1, <1>3, FoldUnique

\* The sum over no member.
LEMMA SumEmpty ==
    ASSUME NEW f
    PROVE  SumOver(f, {}) = 0
<1>1. IsFiniteSet({})
  BY FS_EmptySet
<1>2. PICK g : Folds(f, SUBSET {}, g)
  BY <1>1, FoldExists
<1>3. g[{}] = 0
  BY <1>2 DEF Folds
<1> QED
  BY <1>1, <1>2, <1>3, SumByFold

\* The sum takes one member first.
LEMMA SumFirst ==
    ASSUME NEW f, NEW S, IsFiniteSet(S), S # {}
    PROVE  SumOver(f, S) = f[First(S)] + SumOver(f, S \ {First(S)})
<1>1. PICK g : Folds(f, SUBSET S, g)
  BY FoldExists
<1>2. g[S] = f[First(S)] + g[S \ {First(S)}]
  BY <1>1 DEF Folds
<1>3. SumOver(f, S) = g[S]
  BY <1>1, SumByFold
<1>4. IsFiniteSet(S \ {First(S)})
  BY FS_RemoveElement
<1>5. SumOver(f, S \ {First(S)}) = g[S \ {First(S)}]
  BY <1>1, <1>4, SumByFold
<1> QED
  BY <1>2, <1>3, <1>5

\* A sum of natural numbers is one.
LEMMA SumType ==
    ASSUME NEW f, NEW S, IsFiniteSet(S), \A x \in S : f[x] \in Nat
    PROVE  SumOver(f, S) \in Nat
<1> DEFINE G == {T \in SUBSET S : SumOver(f, T) \in Nat}
<1>1. {} \in G
  BY SumEmpty
<1>2. ASSUME NEW T \in SUBSET S, T # {}, \A x \in T : T \ {x} \in G
      PROVE  T \in G
  <2>1. First(T) \in T
    BY <1>2 DEF First
  <2>2. IsFiniteSet(T)
    BY FS_Subset
  <2>3. SumOver(f, T) = f[First(T)] + SumOver(f, T \ {First(T)})
    BY <1>2, <2>2, SumFirst
  <2> QED
    BY <1>2, <2>1, <2>3
<1>3. S \in G
  <2> HIDE DEF G
  <2> QED
    BY <1>1, <1>2, FiniteInduction
<1> QED
  BY <1>3

\* Any member may be taken out first: + does not mind the order.
LEMMA SumRemove ==
    ASSUME NEW f, NEW S, IsFiniteSet(S), \A x \in S : f[x] \in Nat, NEW a \in S
    PROVE  SumOver(f, S) = f[a] + SumOver(f, S \ {a})
<1> DEFINE G == {T \in SUBSET S : \A x \in T : SumOver(f, T) = f[x] + SumOver(f, T \ {x})}
<1>1. {} \in G
  OBVIOUS
<1>2. ASSUME NEW T \in SUBSET S, T # {}, \A x \in T : T \ {x} \in G
      PROVE  T \in G
  <2> DEFINE c == First(T)
  <2>1. c \in T
    BY <1>2 DEF First
  <2>2. \A U \in SUBSET S : IsFiniteSet(U) /\ SumOver(f, U) \in Nat
    BY FS_Subset, SumType
  <2>3. SumOver(f, T) = f[c] + SumOver(f, T \ {c})
    BY <1>2, <2>2, SumFirst
  <2> SUFFICES ASSUME NEW x \in T, x # c
               PROVE  SumOver(f, T) = f[x] + SumOver(f, T \ {x})
    BY <2>3
  <2> HIDE DEF c
  <2> DEFINE rest == SumOver(f, (T \ {c}) \ {x})
  <2>4. SumOver(f, T \ {c}) = f[x] + rest
    BY <1>2, <2>1
  <2>5. SumOver(f, T \ {x}) = f[c] + rest
    <3>1. (T \ {c}) \ {x} = (T \ {x}) \ {c}
      OBVIOUS
    <3>2. SumOver(f, T \ {x}) = f[c] + SumOver(f, (T \ {x}) \ {c})
      BY <1>2, <2>1
    <3> QED
      BY <3>1, <3>2
  <2>6. rest \in Nat /\ f[x] \in Nat /\ f[c] \in Nat
    BY <2>1, <2>2
  <2> HIDE DEF rest
  <2> QED
    BY <2>3, <2>4, <2>5, <2>6
<1>3. S \in G
  <2> HIDE DEF G
  <2> QED
    BY <1>1, <1>2, FiniteInduction
<1> QED
  BY <1>3

\* A part sums to no more than the whole.
LEMMA SumMonotone ==
    ASSUME NEW f, NEW S, IsFiniteSet(S), \A x \in S : f[x] \in Nat, NEW P \in SUBSET S
    PROVE  SumOver(f, P) <= SumOver(f, S)
<1> DEFINE G == {T \in SUBSET S : SumOver(f, T \cap P) <= SumOver(f, T)}
<1>1. {} \in G
  BY SumEmpty
<1>2. ASSUME NEW T \in SUBSET S, T # {}, \A x \in T : T \ {x} \in G
      PROVE  T \in G
  <2>1. \A U \in SUBSET S : IsFiniteSet(U) /\ SumOver(f, U) \in Nat
    BY FS_Subset, SumType
  <2>2. PICK x : x \in T
    BY <1>2
  <2>3. SumOver(f, T) = f[x] + SumOver(f, T \ {x})
    BY <2>1, <2>2, SumRemove
  <2> DEFINE all == SumOver(f, T \ {x})
             part == SumOver(f, (T \ {x}) \cap P)
  <2>4. part <= all /\ part \in Nat /\ all \in Nat /\ f[x] \in Nat
    BY <1>2, <2>1, <2>2
  <2>5. SumOver(f, T \cap P) = part \/ SumOver(f, T \cap P) = f[x] + part
    <3>1. CASE x \in P
      <4>1. SumOver(f, T \cap P) = f[x] + SumOver(f, (T \cap P) \ {x})
        BY <2>1, <2>2, <3>1, SumRemove
      <4>2. (T \cap P) \ {x} = (T \ {x}) \cap P
        OBVIOUS
      <4> QED
        BY <4>1, <4>2
    <3>2. CASE x \notin P
      <4>1. T \cap P = (T \ {x}) \cap P
        BY <3>2
      <4> QED
        BY <4>1
    <3> QED
      BY <3>1, <3>2
  <2>6. SumOver(f, T \cap P) <= SumOver(f, T)
    <3> HIDE DEF all, part
    <3>1. SumOver(f, T) = f[x] + all
      BY <2>3 DEF all
    <3> QED
      BY <2>4, <2>5, <3>1
  <2> QED
    BY <2>6
<1>3. S \in G
  <2> HIDE DEF G
  <2> QED
    BY <1>1, <1>2, FiniteInduction
<1>4. S \cap P = P
  OBVIOUS
<1> QED
  BY <1>3, <1>4

\* The sum depends on the values at the members only.
LEMMA SumEqual ==
    ASSUME NEW f, NEW g, NEW S, IsFiniteSet(S), \A x \in S : f[x] = g[x]
    PROVE  SumOver(f, S) = SumOver(g, S)
<1> DEFINE G == {T \in SUBSET S : SumOver(f, T) = SumOver(g, T)}
<1>1. {} \in G
  BY SumEmpty
<1>2. ASSUME NEW T \in SUBSET S, T # {}, \A x \in T : T \ {x} \in G
      PROVE  T \in G
  <2>1. First(T) \in T
    BY <1>2 DEF First
  <2>2. IsFiniteSet(T)
    BY FS_Subset
  <2>3. /\ SumOver(f, T) = f[First(T)] + SumOver(f, T \ {First(T)})
        /\ SumOver(g, T) = g[First(T)] + SumOver(g, T \ {First(T)})
    BY <1>2, <2>2, SumFirst
  <2> QED
    BY <1>2, <2>1, <2>3
<1>3. S \in G
  <2> HIDE DEF G
  <2> QED
    BY <1>1, <1>2, FiniteInduction
<1> QED
  BY <1>3

\* Member by member no more, together no more.
LEMMA SumPointwise ==
    ASSUME NEW f, NEW g, NEW S, IsFiniteSet(S),
           \A x \in S : f[x] \in Nat /\ g[x] \in Nat /\ f[x] <= g[x]
    PROVE  SumOver(f, S) <= SumOver(g, S)
<1> DEFINE G == {T \in SUBSET S : SumOver(f, T) <= SumOver(g, T)}
<1>1. {} \in G
  BY SumEmpty
<1>2. ASSUME NEW T \in SUBSET S, T # {}, \A x \in T : T \ {x} \in G
      PROVE  T \in G
  <2>1. PICK x : x \in T
    BY <1>2
  <2>2. IsFiniteSet(T) /\ IsFiniteSet(T \ {x})
    BY FS_Subset
  <2>3. /\ SumOver(f, T \ {x}) \in Nat /\ SumOver(g, T \ {x}) \in Nat
        /\ SumOver(f, T \ {x}) <= SumOver(g, T \ {x})
    BY <1>2, <2>1, <2>2, SumType
  <2>4. SumOver(f, T) = f[x] + SumOver(f, T \ {x}) /\ SumOver(g, T) = g[x] + SumOver(g, T \ {x})
    BY <2>1, <2>2, SumRemove
  <2> QED
    BY <2>1, <2>3, <2>4
<1>3. S \in G
  <2> HIDE DEF G
  <2> QED
    BY <1>1, <1>2, FiniteInduction
<1> QED
  BY <1>3

\* The sum of sums, member by member.
LEMMA SumPlus ==
    ASSUME NEW f, NEW g, NEW h, NEW S, IsFiniteSet(S),
           \A x \in S : f[x] \in Nat /\ g[x] \in Nat /\ h[x] = f[x] + g[x]
    PROVE  SumOver(h, S) = SumOver(f, S) + SumOver(g, S)
<1> DEFINE G == {T \in SUBSET S : SumOver(h, T) = SumOver(f, T) + SumOver(g, T)}
<1>1. {} \in G
  BY SumEmpty
<1>2. ASSUME NEW T \in SUBSET S, T # {}, \A x \in T : T \ {x} \in G
      PROVE  T \in G
  <2>1. PICK x : x \in T
    BY <1>2
  <2>2. IsFiniteSet(T) /\ IsFiniteSet(T \ {x})
    BY FS_Subset
  <2>3. /\ SumOver(f, T \ {x}) \in Nat /\ SumOver(g, T \ {x}) \in Nat
        /\ SumOver(h, T \ {x}) = SumOver(f, T \ {x}) + SumOver(g, T \ {x})
    BY <1>2, <2>1, <2>2, SumType
  <2>4. /\ SumOver(f, T) = f[x] + SumOver(f, T \ {x})
        /\ SumOver(g, T) = g[x] + SumOver(g, T \ {x})
        /\ SumOver(h, T) = h[x] + SumOver(h, T \ {x})
    BY <2>1, <2>2, SumRemove
  <2> QED
    BY <2>1, <2>3, <2>4
<1>3. S \in G
  <2> HIDE DEF G
  <2> QED
    BY <1>1, <1>2, FiniteInduction
<1> QED
  BY <1>3

\* Members whose value is 0 add nothing.
LEMMA SumZeroOutside ==
    ASSUME NEW f, NEW S, IsFiniteSet(S), NEW P \in SUBSET S,
           \A x \in S : f[x] \in Nat, \A x \in S \ P : f[x] = 0
    PROVE  SumOver(f, S) = SumOver(f, P)
<1> DEFINE G == {T \in SUBSET S : SumOver(f, T) = SumOver(f, T \cap P)}
<1>1. {} \in G
  OBVIOUS
<1>2. ASSUME NEW T \in SUBSET S, T # {}, \A x \in T : T \ {x} \in G
      PROVE  T \in G
  <2>1. PICK x : x \in T
    BY <1>2
  <2>2. IsFiniteSet(T) /\ IsFiniteSet(T \cap P) /\ IsFiniteSet((T \ {x}) \cap P)
    BY FS_Subset
  <2>3. SumOver(f, T) = f[x] + SumOver(f, (T \ {x}) \cap P)
    <3>1. SumOver(f, T) = f[x] + SumOver(f, T \ {x})
      BY <2>1, <2>2, SumRemove
    <3> QED
      BY <1>2, <2>1, <3>1
  <2>4. CASE x \in P
    <3>1. SumOver(f, T \cap P) = f[x] + SumOver(f, (T \cap P) \ {x})
      BY <2>1, <2>2, <2>4, SumRemove
    <3>2. (T \cap P) \ {x} = (T \ {x}) \cap P
      OBVIOUS
    <3> QED
      BY <2>3, <3>1, <3>2
  <2>5. CASE x \notin P
    <3>1. f[x] = 0 /\ T \cap P = (T \ {x}) \cap P
      BY <2>1, <2>5
    <3>2. SumOver(f, (T \ {x}) \cap P) \in Nat
      BY <2>2, SumType
    <3>3. SumOver(f, T) = SumOver(f, (T \ {x}) \cap P)
      BY <2>3, <3>1, <3>2
    <3> QED
      BY <3>1, <3>3
  <2> QED
    BY <2>4, <2>5
<1>3. S \in G
  <2> HIDE DEF G
  <2> QED
    BY <1>1, <1>2, FiniteInduction
<1>4. S \cap P = P
  OBVIOUS
<1> QED
  BY <1>3, <1>4

\* A table adds up to the same by rows and by columns.
LEMMA SumSwap ==
    ASSUME NEW a, NEW S, NEW R, IsFiniteSet(S), IsFiniteSet(R),
           \A x \in S : \A y \in R : a[x][y] \in Nat
    PROVE  SumOver(RowSums(a, S, R), S) = SumOver(ColumnSums(a, S, R), R)
<1> DEFINE row == [x \in S |-> SumOver(a[x], R)]
           column(T) == [y \in R |-> SumOver([x \in S |-> a[x][y]], T)]
           G == {T \in SUBSET S : SumOver(row, T) = SumOver(column(T), R)}
<1>1. {} \in G
  <2> DEFINE z == column({})
  <2>1. \A y \in R : z[y] = 0
    BY SumEmpty
  <2> HIDE DEF z
  <2>2. SumOver(z, R) = SumOver(z, {})
    BY <2>1, SumZeroOutside
  <2> QED
    BY <2>2, SumEmpty DEF z
<1>2. ASSUME NEW T \in SUBSET S, T # {}, \A x \in T : T \ {x} \in G
      PROVE  T \in G
  <2>1. PICK x : x \in T
    BY <1>2
  <2>2. IsFiniteSet(T) /\ IsFiniteSet(T \ {x})
    BY FS_Subset
  <2>3. \A s \in S : row[s] \in Nat
    BY SumType
  <2>4. SumOver(row, T) = row[x] + SumOver(row, T \ {x})
    BY <2>1, <2>2, <2>3, SumRemove
  <2>5. \A y \in R : /\ column(T)[y] = a[x][y] + column(T \ {x})[y]
                     /\ column(T \ {x})[y] \in Nat
    <3> SUFFICES ASSUME NEW y \in R
                 PROVE  /\ column(T)[y] = a[x][y] + column(T \ {x})[y]
                        /\ column(T \ {x})[y] \in Nat
      OBVIOUS
    <3> DEFINE c == [s \in S |-> a[s][y]]
    <3>1. \A s \in S : c[s] \in Nat /\ c[s] = a[s][y]
      OBVIOUS
    <3>2. column(T)[y] = SumOver(c, T) /\ column(T \ {x})[y] = SumOver(c, T \ {x})
      OBVIOUS
    <3> HIDE DEF c
    <3>3. SumOver(c, T) = c[x] + SumOver(c, T \ {x}) /\ SumOver(c, T \ {x}) \in Nat
      BY <2>1, <2>2, <3>1, SumRemove, SumType
    <3> HIDE DEF column
    <3> QED
      BY <2>1, <3>1, <3>2, <3>3
  <2>6. SumOver(column(T), R) = SumOver(a[x], R) + SumOver(column(T \ {x}), R)
    <3> DEFINE before == column(T \ {x})
               after == column(T)
    <3>1. \A y \in R : a[x][y] \in Nat /\ before[y] \in Nat /\ after[y] = a[x][y] + before[y]
      BY <2>1, <2>5
    <3> HIDE DEF before, after
    <3>2. SumOver(after, R) = SumOver(a[x], R) + SumOver(before, R)
      BY <3>1, SumPlus
    <3> QED
      BY <3>2 DEF before, after
  <2>7. row[x] = SumOver(a[x], R)
    BY <2>1
  <2> HIDE DEF row, column
  <2> QED
    BY <1>2, <2>1, <2>4, <2>6, <2>7
<1>3. S \in G
  <2> HIDE DEF G
  <2> QED
    BY <1>1, <1>2, FiniteInduction
<1> QED
  BY <1>3 DEF RowSums, ColumnSums

-----------------------------------------------------------------------------
(* Types, and which variables of a goroutine are in use.                   *)

\* Where a run of UpdatePendingBals has a list to work on.
Listed == {"next", "check", "create", "calc", "begin", "beginRows", "inside", "insideRows",
           "complete", "mark"}

\* A run has transfers on its list exactly while it works on them, and knows the
\* highest until it is over.
ListsMatch ==
    \A u \in Updates :
        /\ upc[u] \in Listed <=> ulist[u] # {}
        /\ uhigh[u] # 0 <=> upc[u] \in Listed \cup {"save", "bump"}

\* A goroutine has a height, and a miner while it changes the balance.
FindsMatch ==
    \A f \in Finds :
        /\ fpc[f] = "none" <=> fheight[f] = 0
        /\ fpc[f] \in {"read", "write"} => \E m \in Miners : fminer[f] = {m}
        /\ fpc[f] \notin {"read", "write"} => fminer[f] = {}
        /\ fpc[f] \in {"loop", "read", "write"} => TotalWeight(Weight) # 0

\* The first inductive invariant: types, and what the lists agree on.
TypeInv == TypeOK /\ ListsMatch /\ FindsMatch

-----------------------------------------------------------------------------
(* Transfers.                                                              *)

\* Heights the master keeps are heights of transfers that have arrived; a run knows
\* the highest of its list.
HeightsArrived ==
    /\ saved # 0 => saved \in arrived
    /\ minHeight >= 1 /\ (minHeight # 1 => minHeight - 1 \in arrived)
    /\ \A u \in Updates : /\ uhigh[u] # 0 => uhigh[u] \in arrived
                          /\ ufrom[u] > 1 => ufrom[u] - 1 \in arrived
                          /\ ulist[u] \subseteq arrived
                          /\ \A h \in ulist[u] : h <= uhigh[u]

\* A transfer is marked only when its block is completed.
MarkedIsCompleted ==
    /\ \A h \in processed : blocks[h] = "completed"
    /\ \A u \in Updates : upc[u] = "mark" => blocks[Current(u)] = "completed"

\* As long as no statement failed no transfer is stepped over: not by a run, not by
\* the height the next query starts from, not by the height a restart starts from.
NothingSteppedOver ==
    \A h \in arrived \ processed :
        /\ h > saved /\ h >= minHeight
        /\ \A u \in Updates : /\ upc[u] = "query" => h >= ufrom[u]
                              /\ h <= uhigh[u] => h \in ulist[u]

\* The second: what is known of the heights a run of the updates has read and saved.
TransferInv ==
    /\ HeightsArrived
    /\ MarkedIsCompleted
    /\ faults.errors = 0 => NothingSteppedOver

-----------------------------------------------------------------------------
(* Distributions.                                                          *)

\* A height is distributed by one goroutine at most.
OneFindPerHeight ==
    \A f, g \in Finds : fheight[f] = fheight[g] /\ fheight[f] # 0 => f = g

\* What has been recorded for a height and a miner is the miner's part, and nothing
\* is recorded before the goroutine of the height gets there.
RecordedOnce ==
    /\ \A h \in Heights, m \in Miners :
          dist[h][m] # 0 => TotalWeight(Weight) # 0 /\ dist[h][m] = Part[h][m]
    /\ \A h \in Heights : fees[h] \in {0, FeeAmount(Reward[h], FeePercent)}
    /\ \A h \in Heights : (\A f \in Finds : fheight[f] # h) =>
          fees[h] = 0 /\ \A m \in Miners : dist[h][m] = 0
    /\ \A f \in Finds : fpc[f] \in {"sleep", "loop", "read", "write"} => fees[fheight[f]] = 0
    /\ \A f \in Finds : fpc[f] = "sleep" =>
          ftodo[f] = {} /\ \A m \in Miners : dist[fheight[f]][m] = 0
    /\ \A f \in Finds : \A m \in ftodo[f] :
          fpc[f] \in {"loop", "read", "write"} /\ dist[fheight[f]][m] = 0
    /\ \A f \in Finds : \A m \in fminer[f] :
          m \notin ftodo[f] /\ dist[fheight[f]][m] = Part[fheight[f]][m]

\* Heights whose part for m is recorded but not yet in m's balance.
Unwritten(m) == {fheight[f] : f \in {g \in Finds : m \in fminer[g]}}

\* What is recorded for m and has been added to m's balance at some time.
Added(m) == SumOver([h \in Heights |-> dist[h][m]], Heights \ Unwritten(m))

\* Neither a balance nor what a goroutine has read of it exceeds what was added, also
\* when two goroutines read the same balance and the second write undoes the first.
BalanceIsCovered ==
    \A m \in Miners :
        /\ balance[m] <= Added(m)
        /\ \A f \in Finds : fpc[f] = "write" /\ m \in fminer[f] => fbal[f] <= Added(m)

\* The third: what each found block has been paid, at every step of its distribution.
PayInv ==
    /\ OneFindPerHeight
    /\ RecordedOnce
    /\ BalanceIsCovered

-----------------------------------------------------------------------------
(* The operators.                                                          *)

\* Multiplication distributes over addition.
LEMMA Distributes ==
    ASSUME NEW a \in Nat, NEW b \in Nat, NEW c \in Nat
    PROVE  (a + b) * c = a * c + b * c /\ c * (a + b) = c * a + c * b
OBVIOUS

\* Division rounds down.
LEMMA DivBound ==
    ASSUME NEW a \in Nat, NEW w \in Nat, w # 0
    PROVE  a \div w \in Nat /\ (a \div w) * w <= a
OBVIOUS

\* The total weight is the sum of the weights.
LEMMA WeightIsSum == TotalWeight(Weight) = SumOver(Weight, Miners) /\ TotalWeight(Weight) \in Nat
<1>1. TotalWeight(Weight) = SumOver(Weight, Miners)
  BY RewardsAssumption DEF TotalWeight, SumFunction, SumFunctionOnSet, FoldFunctionOnSet,
     SumOver, MapThenSumSet
<1> QED
  BY <1>1, RewardsAssumption, SumType

\* The fee is part of the reward.
LEMMA FeeType ==
    ASSUME NEW h \in Heights
    PROVE  /\ FeeAmount(Reward[h], FeePercent) \in 0..Reward[h]
           /\ NetReward(Reward[h], FeePercent) = Reward[h] - FeeAmount(Reward[h], FeePercent)
           /\ NetReward(Reward[h], FeePercent) \in Nat
<1>1. Reward[h] \in Nat /\ FeePercent \in Nat /\ FeePercent <= 100
  BY RewardsAssumption
<1>2. Reward[h] * FeePercent \in Nat /\ Reward[h] * FeePercent <= Reward[h] * 100
  BY <1>1
<1>3. FeeAmount(Reward[h], FeePercent) \in 0..Reward[h]
  BY <1>1, <1>2 DEF FeeAmount
<1> QED
  BY <1>1, <1>3 DEF NetReward

\* A miner's part is an amount once there are shares.
LEMMA PartType ==
    ASSUME TotalWeight(Weight) # 0, NEW h \in Heights, NEW m \in Miners
    PROVE  Part[h][m] \in Nat
<1>1. NetReward(Reward[h], FeePercent) \in Nat /\ Weight[m] \in Nat /\ TotalWeight(Weight) \in Nat
  BY FeeType, WeightIsSum, RewardsAssumption
<1>2. NetReward(Reward[h], FeePercent) * Weight[m] \in Nat
  BY <1>1
<1>3. MinerReward(Reward[h], FeePercent, Weight, m) \in Nat
  BY <1>1, <1>2, DivBound DEF MinerReward
<1> QED
  BY <1>3 DEF Part

\* The transfer a run is at is the first of its list.
LEMMA CurrentIsFirst ==
    ASSUME TypeOK, NEW u \in Updates, ulist[u] # {}
    PROVE  /\ Current(u) \in ulist[u] /\ Current(u) \in Heights /\ Current(u) \in Nat \ {0}
           /\ \A h \in ulist[u] : Current(u) <= h
<1>1. ulist[u] \in SUBSET Nat /\ IsFiniteSet(ulist[u]) /\ ulist[u] \subseteq Heights
  BY RewardsAssumption, FS_Subset DEF TypeOK
<1> QED
  BY <1>1, MinMax, RewardsAssumption DEF Current

\* A run goes on to the next transfer of its list, or to the end.
LEMMA AdvanceFacts ==
    ASSUME TypeOK, NEW u \in Updates, ulist[u] # {}, AdvanceNext(u)
    PROVE  /\ ulist' \in [Updates -> SUBSET Heights]
           /\ ulist'[u] = ulist[u] \ {Current(u)}
           /\ upc'[u] = IF ulist'[u] = {} THEN "save" ELSE "next"
           /\ \A v \in Updates \ {u} : ulist'[v] = ulist[v] /\ upc'[v] = upc[v]
           /\ upc' \in [Updates -> {"idle", "query", "next", "check", "create", "calc",
                                    "begin", "beginRows", "inside", "insideRows", "complete",
                                    "mark", "save", "bump"}]
<1> DEFINE c == Current(u)
<1>1. ulist' = [ulist EXCEPT ![u] = ulist[u] \ {c}] /\ c \in ulist[u]
  BY CurrentIsFirst DEF AdvanceNext, TypeOK
<1>2. upc' = [upc EXCEPT ![u] = IF ulist[u] = {c} THEN "save" ELSE "next"]
  BY DEF AdvanceNext
<1> HIDE DEF c
<1>3. ulist' \in [Updates -> SUBSET Heights] /\ ulist'[u] = ulist[u] \ {c}
  BY <1>1 DEF TypeOK
<1>4. ulist'[u] = {} <=> ulist[u] = {c}
  BY <1>1, <1>3
<1>5. upc'[u] = IF ulist'[u] = {} THEN "save" ELSE "next"
  BY <1>2, <1>4 DEF TypeOK
<1>6. \A v \in Updates \ {u} : ulist'[v] = ulist[v] /\ upc'[v] = upc[v]
  BY <1>1, <1>2 DEF TypeOK
<1> QED
  BY <1>2, <1>3, <1>5, <1>6 DEF TypeOK, c

\* The next query starts above the transfer.
LEMMA RaiseFacts ==
    ASSUME TypeOK, NEW h \in Nat, Raise(h)
    PROVE  minHeight' \in Nat /\ minHeight' \in {minHeight, h + 1} /\ minHeight' > h
BY DEF Raise, TypeOK

\* A failed statement and a crash are counted.
LEMMA FaultsType ==
    ASSUME TypeOK
    PROVE  /\ [faults EXCEPT !.errors = @ + 1] \in [errors: Nat, lost: Nat, crashes: Nat]
           /\ [faults EXCEPT !.lost = @ + 1] \in [errors: Nat, lost: Nat, crashes: Nat]
           /\ [faults EXCEPT !.lost = @ + 1].errors = faults.errors
           /\ [faults EXCEPT !.crashes = @ + 1] \in [errors: Nat, lost: Nat, crashes: Nat]
<1>1. faults \in [errors: Nat, lost: Nat, crashes: Nat]
  BY DEF TypeOK
<1> QED
  BY ONLY <1>1

\* A transaction has the connection alone.
LEMMA HolderType ==
    /\ {} \subseteq Updates /\ Cardinality({}) <= 1
    /\ \A u \in Updates : {u} \subseteq Updates /\ Cardinality({u}) <= 1
<1>1. Cardinality({}) <= 1
  BY FS_EmptySet
<1>2. \A u \in Updates : Cardinality({u}) = 1
  BY FS_Singleton, Zenon
<1> QED
  BY <1>1, <1>2

\* Of what the wallet lists, the highest is kept.
LEMMA FoundType ==
    ASSUME TypeOK, NEW n \in Nat, NEW found, found = {h \in arrived : h >= n}, found # {}
    PROVE  /\ found \in SUBSET Heights
           /\ Max(found) \in found
           /\ \A h \in found : h <= Max(found)
<1>1. found \in SUBSET Nat /\ IsFiniteSet(found) /\ found \in SUBSET Heights
  BY RewardsAssumption, FS_Subset DEF TypeOK
<1> QED
  BY <1>1, MinMax

-----------------------------------------------------------------------------
(* Types.                                                                  *)

\* The initial state has the right types.
LEMMA InitTypeInv == Init => TypeInv
BY RewardsAssumption, HolderType DEF Init, TypeInv, TypeOK, ListsMatch, FindsMatch, Listed

\* Every step keeps the types.
LEMMA StepTypeInv == TypeInv /\ [Next]_vars => TypeInv'
<1> SUFFICES ASSUME TypeInv, [Next]_vars PROVE TypeInv'
  OBVIOUS
<1> USE DEF TypeInv, tables, findVars, updateVars
<1>0. CASE UNCHANGED vars
  BY <1>0 DEF vars, TypeOK, ListsMatch, FindsMatch
<1>1. ASSUME NEW f \in Finds, NEW h \in Heights, BlockFound(f, h) PROVE TypeInv'
  <2>1. TypeOK'
    BY <1>1, RewardsAssumption DEF BlockFound, InsertBlock, TypeOK
  <2>2. ListsMatch'
    BY <1>1 DEF BlockFound, InsertBlock, TypeOK, ListsMatch, Listed
  <2>3. FindsMatch'
    BY <1>1, RewardsAssumption DEF BlockFound, TypeOK, FindsMatch
  <2> QED
    BY <2>1, <2>2, <2>3
<1>2. ASSUME NEW f \in Finds, DistributeStart(f) PROVE TypeInv'
  <2> DEFINE todo == {m \in Miners : Part[fheight[f]][m] > 0}
  <2>1. fpc' = [fpc EXCEPT ![f] = "loop"] /\ ftodo' = [ftodo EXCEPT ![f] = todo]
    BY <1>2 DEF DistributeStart
  <2>2. todo \in SUBSET Miners
    OBVIOUS
  <2> HIDE DEF todo
  <2>3. TypeOK'
    BY <1>2, <2>1, <2>2 DEF DistributeStart, TypeOK
  <2> QED
    BY <1>2, <2>1, <2>3 DEF DistributeStart, TypeOK, ListsMatch, Listed, FindsMatch
<1>23. ASSUME NEW f \in Finds, DistributeNothing(f) PROVE TypeInv'
  <2>1. TypeOK'
    <3>1. fheight[f] \in Heights
      BY <1>23 DEF DistributeNothing, TypeOK, FindsMatch
    <3> QED
      BY <1>23, <3>1 DEF DistributeNothing, TypeOK
  <2>2. ListsMatch'
    BY <1>23 DEF DistributeNothing, ListsMatch
  <2>3. FindsMatch'
    BY <1>23 DEF DistributeNothing, TypeOK, FindsMatch
  <2> QED
    BY <2>1, <2>2, <2>3
<1>24. ASSUME NEW f \in Finds, DistributionFails(f) PROVE TypeInv'
  <2>1. faults' \in [errors: Nat, lost: Nat, crashes: Nat]
    BY <1>24, FaultsType DEF DistributionFails
  <2>2. UNCHANGED <<tables, holder, fheight, updateVars, minHeight, arrived>>
    BY <1>24 DEF DistributionFails
  <2>3. ListsMatch'
    BY <2>2 DEF ListsMatch
  <2>4. CASE GiveUpBlock(f)
    <3>1. fheight[f] \in Heights
      BY <2>4 DEF GiveUpBlock, TypeOK, FindsMatch
    <3>2. TypeOK'
      BY <2>1, <2>2, <2>4, <3>1 DEF GiveUpBlock, TypeOK
    <3>3. FindsMatch'
      BY <2>2, <2>4 DEF GiveUpBlock, TypeOK, FindsMatch
    <3> QED
      BY <2>3, <3>2, <3>3
  <2>5. ASSUME NEW m \in Miners, SkipMiner(f, m) PROVE TypeInv'
    <3>1. TypeOK'
      BY <2>1, <2>2, <2>5 DEF SkipMiner, TypeOK
    <3>2. FindsMatch'
      BY <2>2, <2>5 DEF SkipMiner, TypeOK, FindsMatch
    <3> QED
      BY <2>3, <3>1, <3>2
  <2>6. CASE SkipCredit(f)
    <3>1. TypeOK'
      BY <2>1, <2>2, <2>6 DEF SkipCredit, TypeOK
    <3>2. FindsMatch'
      BY <2>2, <2>6 DEF SkipCredit, TypeOK, FindsMatch
    <3> QED
      BY <2>3, <3>1, <3>2
  <2>7. CASE SkipFee(f)
    <3>1. TypeOK'
      BY <2>1, <2>2, <2>7 DEF SkipFee, TypeOK
    <3>2. FindsMatch'
      BY <2>2, <2>7 DEF SkipFee, TypeOK, FindsMatch
    <3> QED
      BY <2>3, <3>1, <3>2
  <2> QED
    BY <1>24, <2>4, <2>5, <2>6, <2>7 DEF DistributionFails
<1>3. ASSUME NEW f \in Finds, NEW m \in Miners, DistributeMiner(f, m) PROVE TypeInv'
  <2>1. fheight[f] \in Heights /\ Part[fheight[f]][m] \in Nat
    <3>1. fpc[f] = "loop"
      BY <1>3 DEF DistributeMiner
    <3>2. fheight[f] \in Heights \cup {0} /\ fheight[f] # 0 /\ TotalWeight(Weight) # 0
      BY <3>1 DEF TypeOK, FindsMatch
    <3> QED
      BY <3>2, PartType
  <2>2. dist' \in [Heights -> [Miners -> Nat]]
    <3> DEFINE part == Part[fheight[f]][m]
    <3>1. dist' = [dist EXCEPT ![fheight[f]][m] = part] \/ dist' = dist
      BY <1>3 DEF DistributeMiner, CreateDistribution
    <3>2. part \in Nat
      BY <2>1
    <3>3. dist \in [Heights -> [Miners -> Nat]]
      BY DEF TypeOK
    <3> HIDE DEF part
    <3>4. [dist[fheight[f]] EXCEPT ![m] = part] \in [Miners -> Nat]
      BY <2>1, <3>2, <3>3
    <3>5. dist' = [dist EXCEPT ![fheight[f]] = [dist[fheight[f]] EXCEPT ![m] = part]]
            \/ dist' = dist
      BY <3>1
    <3> QED
      BY <2>1, <3>3, <3>4, <3>5
  <2>3. TypeOK'
    <3>1. /\ ftodo' = [ftodo EXCEPT ![f] = ftodo[f] \ {m}]
          /\ fminer' = [fminer EXCEPT ![f] = {m}] \/ fminer' = fminer
          /\ fpc' = [fpc EXCEPT ![f] = "read"] \/ fpc' = fpc
          /\ UNCHANGED <<blocks, fees, balance, processed, saved, holder, fheight, fbal,
                         updateVars, minHeight, arrived, faults, dropped>>
      BY <1>3 DEF DistributeMiner
    <3>2. {m} \in SUBSET Miners
      OBVIOUS
    <3>3. ftodo' \in [Finds -> SUBSET Miners] /\ fminer' \in [Finds -> SUBSET Miners]
      BY <3>1, <3>2 DEF TypeOK
    <3>4. fpc' \in [Finds -> {"none", "sleep", "loop", "read", "write", "mark", "done"}]
      BY <3>1 DEF TypeOK
    <3> QED
      BY ONLY <2>2, <3>1, <3>3, <3>4, TypeOK DEF TypeOK, updateVars
  <2>4. ListsMatch'
    BY <1>3 DEF DistributeMiner, TypeOK, ListsMatch, Listed
  <2>5. FindsMatch'
    <3>1. CASE FullSchema
      <4>1. /\ fminer' = [fminer EXCEPT ![f] = {m}]
            /\ fpc' = [fpc EXCEPT ![f] = "read"] /\ fpc[f] = "loop"
            /\ UNCHANGED fheight
        BY <1>3, <3>1 DEF DistributeMiner
      <4> QED
        BY <4>1 DEF TypeOK, FindsMatch
    <3>2. CASE ~FullSchema
      BY <1>3, <3>2 DEF DistributeMiner, TypeOK, FindsMatch
    <3> QED
      BY <3>1, <3>2
  <2> QED
    BY <2>3, <2>4, <2>5
<1>4. ASSUME NEW f \in Finds, ReadBalance(f) PROVE TypeInv'
  <2>1. TypeOK'
    BY <1>4, RewardsAssumption DEF ReadBalance, TypeOK
  <2>2. ListsMatch'
    BY <1>4 DEF ReadBalance, TypeOK, ListsMatch, Listed
  <2>3. FindsMatch'
    BY <1>4 DEF ReadBalance, TypeOK, FindsMatch
  <2> QED
    BY <2>1, <2>2, <2>3
<1>5. ASSUME NEW f \in Finds, WriteBalance(f) PROVE TypeInv'
  <2>1. TypeOK'
    <3>1. PICK m \in Miners : fminer[f] = {m}
      BY <1>5 DEF WriteBalance, FindsMatch
    <3>2. fheight[f] \in Heights /\ Part[fheight[f]][m] \in Nat /\ fbal[f] \in Nat
      BY <1>5, PartType, RewardsAssumption DEF WriteBalance, TypeOK, FindsMatch
    <3>3. balance' \in [Miners -> Nat]
      BY <1>5, <3>1, <3>2 DEF WriteBalance, TypeOK
    <3> QED
      BY <1>5, <3>3 DEF WriteBalance, TypeOK
  <2>2. ListsMatch'
    BY <1>5 DEF WriteBalance, TypeOK, ListsMatch, Listed
  <2>3. FindsMatch'
    BY <1>5 DEF WriteBalance, TypeOK, FindsMatch
  <2> QED
    BY <2>1, <2>2, <2>3
<1>6. ASSUME NEW f \in Finds, DistributeFee(f) PROVE TypeInv'
  <2>1. TypeOK'
    <3>1. fheight[f] \in Heights
      BY <1>6 DEF DistributeFee, TypeOK, FindsMatch
    <3>2. FeeAmount(Reward[fheight[f]], FeePercent) \in Nat
      <4>1. FeeAmount(Reward[fheight[f]], FeePercent) \in 0..Reward[fheight[f]]
        BY <3>1, FeeType
      <4>2. Reward[fheight[f]] \in Nat
        BY <3>1, RewardsAssumption
      <4> QED
        BY <4>1, <4>2
    <3>3. fees' \in [Heights -> Nat]
      BY <1>6, <3>1, <3>2 DEF DistributeFee, TypeOK
    <3> QED
      BY <1>6, <3>3 DEF DistributeFee, TypeOK
  <2>2. ListsMatch'
    BY <1>6 DEF DistributeFee, TypeOK, ListsMatch, Listed
  <2>3. FindsMatch'
    BY <1>6 DEF DistributeFee, TypeOK, FindsMatch
  <2> QED
    BY <2>1, <2>2, <2>3
<1>7. ASSUME NEW f \in Finds, DistributeEnd(f) PROVE TypeInv'
  <2>1. TypeOK'
    BY <1>7, RewardsAssumption DEF DistributeEnd, MarkBlockProcessed, TypeOK
  <2>2. ListsMatch'
    BY <1>7 DEF DistributeEnd, MarkBlockProcessed, TypeOK, ListsMatch, Listed
  <2>3. FindsMatch'
    BY <1>7 DEF DistributeEnd, MarkBlockProcessed, TypeOK, FindsMatch
  <2> QED
    BY <2>1, <2>2, <2>3
<1>8. ASSUME NEW h \in Heights, TransferArrives(h) PROVE TypeInv'
  <2>1. TypeOK'
    BY <1>8, RewardsAssumption DEF TransferArrives, TypeOK
  <2>2. ListsMatch'
    BY <1>8 DEF TransferArrives, TypeOK, ListsMatch, Listed
  <2>3. FindsMatch'
    BY <1>8 DEF TransferArrives, TypeOK, FindsMatch
  <2> QED
    BY <2>1, <2>2, <2>3
<1>9. ASSUME NEW u \in Updates, UpdateStart(u) PROVE TypeInv'
  <2>1. TypeOK'
    BY <1>9, RewardsAssumption DEF UpdateStart, TypeOK
  <2>2. ListsMatch'
    BY <1>9 DEF UpdateStart, TypeOK, ListsMatch, Listed
  <2>3. FindsMatch'
    BY <1>9 DEF UpdateStart, TypeOK, FindsMatch
  <2> QED
    BY <2>1, <2>2, <2>3
<1>10. ASSUME NEW u \in Updates, GetTransfers(u) PROVE TypeInv'
  <2> DEFINE found == {h \in arrived : h >= ufrom[u]}
  <2>1. CASE found = {}
    <3>1. upc' = [upc EXCEPT ![u] = "idle"] /\ ufrom' = [ufrom EXCEPT ![u] = 0]
          /\ UNCHANGED <<ulist, uhigh>>
      BY <1>10, <2>1 DEF GetTransfers
    <3> HIDE DEF found
    <3> QED
      BY <1>10, <3>1 DEF GetTransfers, TypeOK, ListsMatch, Listed, FindsMatch
  <2>2. CASE found # {}
    <3>1. /\ upc' = [upc EXCEPT ![u] = "next"] /\ ufrom' = [ufrom EXCEPT ![u] = 0]
          /\ ulist' = [ulist EXCEPT ![u] = found]
          /\ uhigh' = [uhigh EXCEPT ![u] = Max(found)]
      BY <1>10, <2>2 DEF GetTransfers
    <3>2. ufrom[u] \in Nat
      BY DEF TypeOK
    <3>3. found \in SUBSET Heights /\ Max(found) \in Heights
      BY <2>2, <3>2, FoundType
    <3>4. Max(found) # 0
      BY <3>3, RewardsAssumption
    <3> HIDE DEF found
    <3>5. TypeOK'
      BY <1>10, <3>1, <3>3 DEF GetTransfers, TypeOK
    <3>6. ListsMatch'
      BY <1>10, <2>2, <3>1, <3>3, <3>4 DEF GetTransfers, TypeOK, ListsMatch, Listed
    <3>7. FindsMatch'
      BY <1>10 DEF GetTransfers, FindsMatch
    <3> QED
      BY <3>5, <3>6, <3>7
  <2> QED
    BY <2>1, <2>2
<1>11. ASSUME NEW u \in Updates, CheckTransfer(u) PROVE TypeInv'
  <2>1. ulist[u] # {} /\ upc[u] = "next"
    BY <1>11 DEF CheckTransfer, ListsMatch, Listed
  <2>2. CASE Current(u) \in processed
    <3>1. Raise(Current(u)) /\ AdvanceNext(u)
      BY <1>11, <2>2 DEF CheckTransfer
    <3>2. minHeight' \in Nat
      BY <2>1, <3>1, CurrentIsFirst, RaiseFacts
    <3>3. TypeOK'
      BY <1>11, <2>1, <3>1, <3>2, AdvanceFacts DEF CheckTransfer, TypeOK
    <3>4. ListsMatch'
      BY <1>11, <2>1, <3>1, AdvanceFacts DEF CheckTransfer, ListsMatch, Listed
    <3> QED
      BY <1>11, <3>3, <3>4 DEF CheckTransfer, FindsMatch
  <2>3. CASE Current(u) \notin processed
    <3>1. upc' = [upc EXCEPT ![u] = "check"] /\ UNCHANGED <<minHeight, ulist, uhigh>>
      BY <1>11, <2>3 DEF CheckTransfer
    <3>2. ListsMatch'
      BY <2>1, <3>1 DEF TypeOK, ListsMatch, Listed
    <3> QED
      BY <1>11, <3>1, <3>2 DEF CheckTransfer, TypeOK, FindsMatch
  <2> QED
    BY <2>2, <2>3
<1>12. ASSUME NEW u \in Updates, CheckBlock(u) PROVE TypeInv'
  <2>1. TypeOK'
    BY <1>12, RewardsAssumption DEF CheckBlock, TypeOK
  <2>2. ListsMatch'
    BY <1>12 DEF CheckBlock, TypeOK, ListsMatch, Listed
  <2>3. FindsMatch'
    BY <1>12 DEF CheckBlock, TypeOK, FindsMatch
  <2> QED
    BY <2>1, <2>2, <2>3
<1>13. ASSUME NEW u \in Updates, CreateBlock(u) PROVE TypeInv'
  <2>1. TypeOK'
    BY <1>13, RewardsAssumption, CurrentIsFirst
       DEF CreateBlock, InsertBlock, TypeOK, ListsMatch, Listed
  <2>2. ListsMatch'
    BY <1>13 DEF CreateBlock, InsertBlock, TypeOK, ListsMatch, Listed
  <2>3. FindsMatch'
    BY <1>13 DEF CreateBlock, InsertBlock, TypeOK, FindsMatch
  <2> QED
    BY <2>1, <2>2, <2>3
<1>14. ASSUME NEW u \in Updates, Calculate(u) PROVE TypeInv'
  <2>1. TypeOK'
    BY <1>14, RewardsAssumption DEF Calculate, TypeOK
  <2>2. ListsMatch'
    BY <1>14 DEF Calculate, TypeOK, ListsMatch, Listed
  <2>3. FindsMatch'
    BY <1>14 DEF Calculate, TypeOK, FindsMatch
  <2> QED
    BY <2>1, <2>2, <2>3
<1>15. ASSUME NEW u \in Updates, BeginTransaction(u) PROVE TypeInv'
  <2>1. TypeOK'
    BY <1>15, RewardsAssumption, HolderType DEF BeginTransaction, TypeOK
  <2>2. ListsMatch'
    BY <1>15 DEF BeginTransaction, TypeOK, ListsMatch, Listed
  <2>3. FindsMatch'
    BY <1>15 DEF BeginTransaction, TypeOK, FindsMatch
  <2> QED
    BY <2>1, <2>2, <2>3
<1>16. ASSUME NEW u \in Updates, InsideTransaction(u) PROVE TypeInv'
  <2>1. TypeOK'
    BY <1>16, RewardsAssumption, HolderType DEF InsideTransaction, TypeOK
  <2>2. ListsMatch'
    BY <1>16 DEF InsideTransaction, TypeOK, ListsMatch, Listed
  <2>3. FindsMatch'
    BY <1>16 DEF InsideTransaction, TypeOK, FindsMatch
  <2> QED
    BY <2>1, <2>2, <2>3
<1>17. ASSUME NEW u \in Updates, CompleteBlock(u) PROVE TypeInv'
  <2>1. TypeOK'
    BY <1>17, RewardsAssumption, CurrentIsFirst
       DEF CompleteBlock, MarkBlockProcessed, TypeOK, ListsMatch, Listed
  <2>2. ListsMatch'
    BY <1>17 DEF CompleteBlock, MarkBlockProcessed, TypeOK, ListsMatch, Listed
  <2>3. FindsMatch'
    BY <1>17 DEF CompleteBlock, MarkBlockProcessed, TypeOK, FindsMatch
  <2> QED
    BY <2>1, <2>2, <2>3
<1>18. ASSUME NEW u \in Updates, MarkTransfer(u) PROVE TypeInv'
  <2>1. ulist[u] # {} /\ upc[u] = "mark" /\ Raise(Current(u)) /\ AdvanceNext(u)
    BY <1>18 DEF MarkTransfer, ListsMatch, Listed
  <2>2. minHeight' \in Nat /\ Current(u) \in Heights
    BY <2>1, CurrentIsFirst, RaiseFacts
  <2>3. TypeOK'
    BY <1>18, <2>1, <2>2, AdvanceFacts DEF MarkTransfer, TypeOK
  <2>4. ListsMatch'
    BY <1>18, <2>1, AdvanceFacts DEF MarkTransfer, ListsMatch, Listed
  <2> QED
    BY <1>18, <2>3, <2>4 DEF MarkTransfer, FindsMatch
<1>19. ASSUME NEW u \in Updates, SaveHeight(u) PROVE TypeInv'
  <2>1. TypeOK'
    BY <1>19, RewardsAssumption DEF SaveHeight, TypeOK
  <2>2. ListsMatch'
    BY <1>19 DEF SaveHeight, TypeOK, ListsMatch, Listed
  <2>3. FindsMatch'
    BY <1>19 DEF SaveHeight, TypeOK, FindsMatch
  <2> QED
    BY <2>1, <2>2, <2>3
<1>20. ASSUME NEW u \in Updates, BumpHeight(u) PROVE TypeInv'
  <2>1. TypeOK'
    <3>1. uhigh[u] \in Nat
      <4>1. uhigh[u] \in Heights \cup {0} /\ Heights \subseteq Nat /\ 0 \in Nat
        BY RewardsAssumption DEF TypeOK
      <4> QED
        BY <4>1, Zenon
    <3>2. uhigh[u] + 1 \in Nat
      BY <3>1
    <3> QED
      BY <1>20, <3>2 DEF BumpHeight, TypeOK
  <2>2. ListsMatch'
    BY <1>20 DEF BumpHeight, TypeOK, ListsMatch, Listed
  <2>3. FindsMatch'
    BY <1>20 DEF BumpHeight, TypeOK, FindsMatch
  <2> QED
    BY <2>1, <2>2, <2>3
<1>21. ASSUME NEW u \in Updates, StatementFails(u) PROVE TypeInv'
  <2>1. ulist[u] # {} /\ upc[u] \in Listed /\ AdvanceNext(u)
    BY <1>21 DEF StatementFails, ListsMatch, Listed
  <2>2. TypeOK'
    BY <1>21, <2>1, AdvanceFacts, FaultsType, HolderType DEF StatementFails, TypeOK
  <2>3. ListsMatch'
    BY <1>21, <2>1, AdvanceFacts DEF StatementFails, ListsMatch, Listed
  <2> QED
    BY <1>21, <2>2, <2>3 DEF StatementFails, FindsMatch
<1>22. CASE Crash
  <2>1. TypeOK'
    BY <1>22, RewardsAssumption, FaultsType, HolderType DEF Crash, TypeOK
  <2>2. ListsMatch'
    BY <1>22 DEF Crash, TypeOK, ListsMatch, Listed
  <2>3. FindsMatch'
    BY <1>22 DEF Crash, TypeOK, FindsMatch
  <2> QED
    BY <2>1, <2>2, <2>3
<1>25. ASSUME NEW u \in Updates, SaveFails(u) PROVE TypeInv'
  <2>1. TypeOK'
    BY <1>25, RewardsAssumption, FaultsType DEF SaveFails, TypeOK
  <2>2. ListsMatch'
    BY <1>25 DEF SaveFails, TypeOK, ListsMatch, Listed
  <2>3. FindsMatch'
    BY <1>25 DEF SaveFails, TypeOK, FindsMatch
  <2> QED
    BY <2>1, <2>2, <2>3
<1> QED
  BY <1>0, <1>1, <1>2, <1>3, <1>4, <1>5, <1>6, <1>7, <1>8, <1>9, <1>10, <1>11, <1>12,
     <1>13, <1>14, <1>15, <1>16, <1>17, <1>18, <1>19, <1>20, <1>21, <1>22, <1>23, <1>24,
     <1>25 DEF Next, Distribute, UpdatePendingBals

-----------------------------------------------------------------------------
(* Transfers.                                                              *)

\* The initial state.
LEMMA InitTransferInv == Init => TransferInv
BY RewardsAssumption DEF Init, TransferInv, HeightsArrived, MarkedIsCompleted, NothingSteppedOver

\* Heights are numbers.
LEMMA HeightsType ==
    ASSUME TypeOK
    PROVE  /\ Heights \subseteq Nat \ {0} /\ arrived \subseteq Nat \ {0}
           /\ saved \in Nat /\ minHeight \in Nat
           /\ \A u \in Updates : uhigh[u] \in Nat /\ ufrom[u] \in Nat /\ ulist[u] \subseteq Heights
<1>1. Heights \subseteq Nat \ {0}
  BY RewardsAssumption
<1>2. \A u \in Updates : uhigh[u] \in Heights \cup {0} /\ ufrom[u] \in Nat /\ ulist[u] \subseteq Heights
  BY DEF TypeOK
<1>3. arrived \subseteq Heights /\ saved \in Heights \cup {0} /\ minHeight \in Nat
  BY DEF TypeOK
<1>4. Heights \cup {0} \subseteq Nat
  BY <1>1
<1> QED
  BY <1>1, <1>2, <1>3, <1>4

\* What a run is at is the first of its list and has arrived.
LEMMA CurrentArrived ==
    ASSUME TypeInv, HeightsArrived, NEW u \in Updates, ulist[u] # {}
    PROVE  /\ Current(u) \in ulist[u] /\ Current(u) \in Nat \ {0} /\ Current(u) \in Heights
           /\ Current(u) \in arrived /\ Current(u) <= uhigh[u]
           /\ \A h \in ulist[u] : Current(u) <= h
BY CurrentIsFirst DEF TypeInv, HeightsArrived

\* A step that changes no height, completes blocks at most, and lets a run come to
\* the mark only when its block is completed.
LEMMA QuietTransfers ==
    ASSUME TransferInv,
           UNCHANGED <<processed, saved, ufrom, ulist, uhigh, minHeight, arrived>>,
           faults'.errors = faults.errors,
           \A h \in Heights : blocks[h] = "completed" => blocks'[h] = "completed",
           \A u \in Updates : upc'[u] = "query" => upc[u] = "query",
           \A u \in Updates : upc'[u] = "mark" =>
                 upc[u] = "mark" \/ blocks'[Current(u)] = "completed",
           \A u \in Updates : upc[u] = "mark" => Current(u) \in Heights,
           processed \subseteq Heights
    PROVE  TransferInv'
<1>1. HeightsArrived'
  BY DEF TransferInv, HeightsArrived
<1>2. MarkedIsCompleted'
  BY DEF TransferInv, MarkedIsCompleted, Current
<1>3. NothingSteppedOver => NothingSteppedOver'
  BY DEF NothingSteppedOver
<1> QED
  BY <1>1, <1>2, <1>3 DEF TransferInv

\* A new transfer is above everything the master has seen.
LEMMA TransferArrivesTransfers ==
    ASSUME TypeInv, TransferInv, NEW h \in Heights, TransferArrives(h)
    PROVE  TransferInv'
<1> USE DEF TypeInv, TransferInv, tables, findVars, updateVars
<1>1. HeightsArrived'
  BY DEF TransferArrives, HeightsArrived
<1>2. MarkedIsCompleted'
  BY DEF TransferArrives, MarkedIsCompleted, Current
<1>3. ASSUME faults'.errors = 0 PROVE NothingSteppedOver'
  <2>1. NothingSteppedOver /\ UNCHANGED <<processed, saved, minHeight, updateVars>>
    BY <1>3 DEF TransferArrives
  <2>2. h \in Nat \ {0} /\ \A g \in arrived : g < h
    BY HeightsType DEF TransferArrives
  <2>3. /\ h > saved /\ h >= minHeight
        /\ \A u \in Updates : h >= ufrom[u] /\ ~(h <= uhigh[u])
    BY <2>2, HeightsType DEF HeightsArrived
  <2>4. arrived' = arrived \cup {h}
    BY DEF TransferArrives
  <2> QED
    BY <2>1, <2>3, <2>4 DEF NothingSteppedOver
<1> QED
  BY <1>1, <1>2, <1>3

\* A run starts from minHeight, which nothing open is below.
LEMMA UpdateStartTransfers ==
    ASSUME TypeInv, TransferInv, NEW u \in Updates, UpdateStart(u)
    PROVE  TransferInv'
<1> USE DEF TypeInv, TransferInv, tables, findVars, updateVars
<1>1. HeightsArrived'
  BY DEF UpdateStart, TypeOK, HeightsArrived
<1>2. MarkedIsCompleted'
  BY DEF UpdateStart, TypeOK, MarkedIsCompleted, Current
<1>3. ASSUME faults'.errors = 0 PROVE NothingSteppedOver'
  BY <1>3 DEF UpdateStart, TypeOK, NothingSteppedOver
<1> QED
  BY <1>1, <1>2, <1>3

\* The list of the wallet holds everything open.
LEMMA GetTransfersTransfers ==
    ASSUME TypeInv, TransferInv, NEW u \in Updates, GetTransfers(u)
    PROVE  TransferInv'
<1> USE DEF TypeInv, TransferInv, tables, findVars, updateVars
<1> DEFINE found == {h \in arrived : h >= ufrom[u]}
<1>1. HeightsArrived'
  <2>1. CASE found = {}
    <3>1. UNCHANGED <<saved, minHeight, arrived, ulist, uhigh>> /\ ufrom' = [ufrom EXCEPT ![u] = 0]
      BY <2>1 DEF GetTransfers
    <3> QED
      BY <3>1 DEF HeightsArrived, TypeOK
  <2>2. CASE found # {}
    <3>1. /\ UNCHANGED <<saved, minHeight, arrived>> /\ ufrom' = [ufrom EXCEPT ![u] = 0]
          /\ ulist' = [ulist EXCEPT ![u] = found]
          /\ uhigh' = [uhigh EXCEPT ![u] = Max(found)]
      BY <2>2 DEF GetTransfers
    <3>2. ufrom[u] \in Nat /\ found \subseteq arrived
      BY DEF TypeOK
    <3>3. Max(found) \in found /\ \A h \in found : h <= Max(found)
      BY <2>2, <3>2, FoundType
    <3> HIDE DEF found
    <3> QED
      BY <3>1, <3>2, <3>3 DEF HeightsArrived, TypeOK
  <2> QED
    BY <2>1, <2>2
<1>2. MarkedIsCompleted'
  <2>1. \A v \in Updates \ {u} : upc'[v] = upc[v] /\ ulist'[v] = ulist[v]
    BY DEF GetTransfers, TypeOK
  <2>2. upc'[u] # "mark" /\ UNCHANGED <<processed, blocks>>
    BY DEF GetTransfers, TypeOK
  <2> QED
    BY <2>1, <2>2 DEF MarkedIsCompleted, Current
<1>3. ASSUME faults'.errors = 0 PROVE NothingSteppedOver'
  <2>1. NothingSteppedOver /\ UNCHANGED <<saved, minHeight, arrived, processed>> /\ upc[u] = "query"
    BY <1>3 DEF GetTransfers
  <2>2. \A v \in Updates \ {u} : /\ upc'[v] = upc[v] /\ ufrom'[v] = ufrom[v]
                                 /\ uhigh'[v] = uhigh[v] /\ ulist'[v] = ulist[v]
    BY DEF GetTransfers, TypeOK
  <2>3. upc'[u] # "query" /\ (uhigh'[u] = 0 \/ ulist'[u] = found)
    BY DEF GetTransfers, TypeOK, ListsMatch, Listed
  <2>4. \A h \in arrived \ processed : h \in found
    BY <2>1 DEF NothingSteppedOver
  <2>5. \A h \in arrived : ~(h <= 0)
    BY HeightsType
  <2> HIDE DEF found
  <2> QED
    BY <2>1, <2>2, <2>3, <2>4, <2>5 DEF NothingSteppedOver
<1> QED
  BY <1>1, <1>2, <1>3

\* A run goes on with the rest of its list: what it kept still arrived, and another
\* run's transfer is the one it was.
LEMMA AdvanceKeeps ==
    ASSUME TypeInv, HeightsArrived, MarkedIsCompleted, NEW u \in Updates, ulist[u] # {},
           AdvanceNext(u),
           UNCHANGED <<blocks, saved, ufrom, uhigh, arrived>>,
           processed' = processed \/ (processed' = processed \cup {Current(u)}
                                         /\ blocks[Current(u)] = "completed"),
           minHeight' \in {minHeight, Current(u) + 1}
    PROVE  HeightsArrived' /\ MarkedIsCompleted'
<1>1. /\ ulist'[u] = ulist[u] \ {Current(u)} /\ upc'[u] # "mark"
      /\ \A v \in Updates \ {u} : ulist'[v] = ulist[v] /\ upc'[v] = upc[v]
  BY AdvanceFacts DEF TypeInv
<1>2. Current(u) \in arrived /\ Current(u) \in Nat \ {0}
  BY CurrentArrived
<1>3. \A v \in Updates : ulist'[v] \subseteq ulist[v]
  BY <1>1
<1>4. minHeight' >= 1 /\ (minHeight' # 1 => minHeight' - 1 \in arrived)
  BY <1>2 DEF HeightsArrived
<1>5. HeightsArrived'
  BY <1>3, <1>4 DEF HeightsArrived
<1>6. \A v \in Updates : upc'[v] = "mark" => upc[v] = "mark" /\ Current(v)' = Current(v)
  BY <1>1 DEF Current
<1>7. MarkedIsCompleted'
  BY <1>6 DEF MarkedIsCompleted
<1> QED
  BY <1>5, <1>7

\* A run that goes on with the rest of its list leaves what it has done processed.
LEMMA AdvanceStepsOverNothing ==
    ASSUME TypeInv, HeightsArrived, NothingSteppedOver, NEW u \in Updates, ulist[u] # {},
           AdvanceNext(u), Raise(Current(u)),
           UNCHANGED <<saved, ufrom, uhigh, arrived>>,
           processed' = processed \cup {Current(u)}
    PROVE  NothingSteppedOver'
<1>1. /\ ulist'[u] = ulist[u] \ {Current(u)} /\ upc'[u] # "query"
      /\ \A v \in Updates \ {u} : ulist'[v] = ulist[v] /\ upc'[v] = upc[v]
  BY AdvanceFacts DEF TypeInv
<1>2. /\ Current(u) \in Nat /\ Current(u) <= uhigh[u]
      /\ \A h \in ulist[u] : Current(u) <= h
  BY CurrentArrived
<1>3. uhigh[u] \in Nat /\ arrived \subseteq Nat /\ minHeight \in Nat
  BY HeightsType DEF TypeInv
<1>4. minHeight' \in {minHeight, Current(u) + 1}
  BY <1>2, RaiseFacts DEF TypeInv
<1>5. ASSUME NEW h \in arrived \ processed, h # Current(u), h <= Current(u) PROVE FALSE
  <2>1. h \in Nat /\ h <= Current(u)
    BY <1>3, <1>5
  <2>2. ~(Current(u) <= h)
    BY <1>2, <1>5, <2>1
  <2>3. h \notin ulist[u]
    BY <1>2, <2>2
  <2>4. ~(h <= uhigh[u])
    BY <2>3 DEF NothingSteppedOver
  <2> QED
    BY <1>2, <1>3, <2>1, <2>4
<1>6. \A h \in arrived \ processed : h # Current(u) => h >= minHeight'
  BY <1>2, <1>3, <1>4, <1>5 DEF NothingSteppedOver
<1> QED
  BY <1>1, <1>6 DEF NothingSteppedOver

\* A transfer processed before.
LEMMA CheckTransferTransfers ==
    ASSUME TypeInv, TypeInv', TransferInv, NEW u \in Updates, CheckTransfer(u)
    PROVE  TransferInv'
<1> USE DEF tables, findVars
<1>1. ulist[u] # {} /\ upc[u] = "next"
  BY DEF CheckTransfer, TypeInv, ListsMatch, Listed
<1>2. CASE Current(u) \in processed
  <2>1. /\ Raise(Current(u)) /\ AdvanceNext(u) /\ processed' = processed \cup {Current(u)}
        /\ UNCHANGED <<blocks, saved, ufrom, uhigh, arrived, faults, processed>>
    BY <1>2 DEF CheckTransfer
  <2>2. minHeight' \in {minHeight, Current(u) + 1}
    BY <1>1, <2>1, CurrentArrived, RaiseFacts DEF TypeInv, TransferInv
  <2>3. HeightsArrived' /\ MarkedIsCompleted'
    BY <1>1, <2>1, <2>2, AdvanceKeeps DEF TransferInv
  <2>4. NothingSteppedOver => NothingSteppedOver'
    BY <1>1, <2>1, AdvanceStepsOverNothing DEF TransferInv
  <2> QED
    BY <2>1, <2>3, <2>4 DEF TransferInv
<1>3. CASE Current(u) \notin processed
  <2>1. /\ upc' = [upc EXCEPT ![u] = "check"]
        /\ UNCHANGED <<blocks, processed, saved, ufrom, ulist, uhigh, minHeight, arrived, faults>>
    BY <1>3 DEF CheckTransfer
  <2>2. \A v \in Updates : upc[v] = "mark" => Current(v) \in Heights
    BY CurrentArrived DEF TypeInv, TransferInv, ListsMatch, Listed
  <2> QED
    BY <1>1, <2>1, <2>2, QuietTransfers DEF TypeInv, TypeOK
<1> QED
  BY <1>2, <1>3

\* The mark.
LEMMA MarkTransferTransfers ==
    ASSUME TypeInv, TypeInv', TransferInv, NEW u \in Updates, MarkTransfer(u)
    PROVE  TransferInv'
<1> USE DEF tables, findVars
<1>1. ulist[u] # {} /\ upc[u] = "mark"
  BY DEF MarkTransfer, TypeInv, ListsMatch, Listed
<1>2. /\ Raise(Current(u)) /\ AdvanceNext(u) /\ processed' = processed \cup {Current(u)}
      /\ UNCHANGED <<blocks, saved, ufrom, uhigh, arrived, faults>>
  BY DEF MarkTransfer
<1>3. minHeight' \in {minHeight, Current(u) + 1} /\ blocks[Current(u)] = "completed"
  BY <1>1, <1>2, CurrentArrived, RaiseFacts DEF TypeInv, TransferInv, MarkedIsCompleted
<1>4. HeightsArrived' /\ MarkedIsCompleted'
  BY <1>1, <1>2, <1>3, AdvanceKeeps DEF TransferInv
<1>5. NothingSteppedOver => NothingSteppedOver'
  BY <1>1, <1>2, AdvanceStepsOverNothing DEF TransferInv
<1> QED
  BY <1>2, <1>4, <1>5 DEF TransferInv

\* A failure steps over the transfer; nothing is said of that any more.
LEMMA StatementFailsTransfers ==
    ASSUME TypeInv, TransferInv, NEW u \in Updates, StatementFails(u)
    PROVE  TransferInv'
<1> USE DEF tables, findVars
<1>1. ulist[u] # {}
  BY DEF StatementFails, TypeInv, ListsMatch, Listed
<1>2. AdvanceNext(u) /\ UNCHANGED <<blocks, processed, saved, ufrom, uhigh, minHeight, arrived>>
  BY DEF StatementFails
<1>3. HeightsArrived' /\ MarkedIsCompleted'
  BY <1>1, <1>2, AdvanceKeeps DEF TransferInv
<1>4. faults'.errors # 0
  BY DEF StatementFails, TypeInv, TypeOK
<1> QED
  BY <1>3, <1>4 DEF TransferInv

\* The height of the list is saved when the list is empty.
LEMMA SaveHeightTransfers ==
    ASSUME TypeInv, TransferInv, NEW u \in Updates, SaveHeight(u)
    PROVE  TransferInv'
<1> USE DEF TypeInv, TransferInv, tables, findVars, updateVars
<1>1. ulist[u] = {} /\ uhigh[u] # 0
  BY DEF SaveHeight, ListsMatch, Listed
<1>2. HeightsArrived'
  BY <1>1 DEF SaveHeight, HeightsArrived
<1>3. MarkedIsCompleted'
  BY DEF SaveHeight, TypeOK, MarkedIsCompleted, Current
<1>4. ASSUME faults'.errors = 0 PROVE NothingSteppedOver'
  <2>1. NothingSteppedOver /\ UNCHANGED <<processed, arrived, minHeight, ufrom, ulist, uhigh>>
    BY <1>4 DEF SaveHeight
  <2>2. \A h \in arrived \ processed : ~(h <= uhigh[u])
    BY <1>1, <2>1 DEF NothingSteppedOver
  <2>3. \A h \in arrived \ processed : h > saved'
    BY <2>2, HeightsType DEF SaveHeight
  <2>4. \A v \in Updates : upc'[v] = "query" => upc[v] = "query"
    BY DEF SaveHeight, TypeOK
  <2> QED
    BY <2>1, <2>3, <2>4 DEF NothingSteppedOver
<1> QED
  BY <1>2, <1>3, <1>4

\* So is minHeight raised.
LEMMA BumpHeightTransfers ==
    ASSUME TypeInv, TransferInv, NEW u \in Updates, BumpHeight(u)
    PROVE  TransferInv'
<1> USE DEF TypeInv, TransferInv, tables, findVars, updateVars
<1>1. ulist[u] = {} /\ uhigh[u] # 0 /\ uhigh[u] \in Nat
  BY HeightsType DEF BumpHeight, ListsMatch, Listed
<1>2. minHeight' = uhigh[u] + 1 /\ UNCHANGED <<blocks, processed, saved, ufrom, ulist, arrived, faults>>
  BY DEF BumpHeight
<1>3. /\ uhigh'[u] = 0 /\ upc'[u] = "idle"
      /\ \A v \in Updates \ {u} : uhigh'[v] = uhigh[v] /\ upc'[v] = upc[v]
  BY DEF BumpHeight, TypeOK
<1>4. HeightsArrived'
  BY <1>1, <1>2, <1>3 DEF HeightsArrived
<1>5. MarkedIsCompleted'
  BY <1>2, <1>3 DEF MarkedIsCompleted, Current
<1>6. ASSUME faults'.errors = 0 PROVE NothingSteppedOver'
  <2>1. NothingSteppedOver
    BY <1>2, <1>6
  <2>2. \A h \in arrived \ processed : h \in Nat \ {0} /\ ~(h <= uhigh[u])
    BY <1>1, <2>1, HeightsType DEF NothingSteppedOver
  <2>3. \A h \in arrived \ processed : h >= minHeight' /\ ~(h <= uhigh'[u])
    BY <1>1, <1>2, <1>3, <2>2
  <2> QED
    BY <1>2, <1>3, <2>1, <2>3 DEF NothingSteppedOver
<1> QED
  BY <1>4, <1>5, <1>6

\* A restart starts above the saved height.
LEMMA CrashTransfers ==
    ASSUME TypeInv, TransferInv, Crash
    PROVE  TransferInv'
<1> USE DEF TypeInv, TransferInv, tables
<1>1. UNCHANGED <<blocks, processed, saved, arrived>> /\ minHeight' = saved + 1
  BY DEF Crash
<1>2. \A u \in Updates : upc'[u] = "idle" /\ ufrom'[u] = 0 /\ ulist'[u] = {} /\ uhigh'[u] = 0
  BY DEF Crash
<1>3. saved \in Nat /\ arrived \subseteq Nat \ {0}
  BY HeightsType
<1>4. HeightsArrived'
  BY <1>1, <1>2, <1>3 DEF HeightsArrived
<1>5. MarkedIsCompleted'
  BY <1>1, <1>2 DEF MarkedIsCompleted
<1>6. ASSUME faults'.errors = 0 PROVE NothingSteppedOver'
  <2>1. NothingSteppedOver
    BY <1>6 DEF Crash, TypeOK
  <2>2. \A h \in arrived \ processed : h >= minHeight' /\ ~(h <= 0)
    BY <1>1, <1>3, <2>1 DEF NothingSteppedOver
  <2> QED
    BY <1>1, <1>2, <2>1, <2>2 DEF NothingSteppedOver
<1> QED
  BY <1>4, <1>5, <1>6

\* Every step.
LEMMA StepTransferInv ==
    ASSUME TypeInv, TypeInv', TransferInv, [Next]_vars
    PROVE  TransferInv'
<1> USE DEF tables, findVars, updateVars
<1>1. /\ \A u \in Updates : upc[u] \in Listed => Current(u) \in Heights
      /\ processed \subseteq Heights
  BY CurrentArrived DEF TypeInv, TypeOK, TransferInv, ListsMatch
<1>2. ASSUME NEW f \in Finds, Distribute(f) PROVE TransferInv'
  <2>1. /\ UNCHANGED <<processed, saved, updateVars, minHeight, arrived, faults>>
        /\ \A h \in Heights : blocks[h] = "completed" => blocks'[h] = "completed"
    BY <1>2 DEF Distribute, DistributeStart, DistributeMiner, ReadBalance, WriteBalance,
       DistributeFee, DistributeEnd, DistributeNothing, MarkBlockProcessed, TypeInv, TypeOK
  <2> QED
    BY <1>1, <2>1, QuietTransfers DEF Listed
<1>3. ASSUME NEW f \in Finds, NEW h \in Heights, BlockFound(f, h) PROVE TransferInv'
  <2>1. /\ UNCHANGED <<processed, saved, updateVars, minHeight, arrived, faults>>
        /\ \A g \in Heights : blocks[g] = "completed" => blocks'[g] = "completed"
    BY <1>3 DEF BlockFound, InsertBlock, TypeInv, TypeOK
  <2> QED
    BY <1>1, <2>1, QuietTransfers DEF Listed
<1>4. ASSUME NEW u \in Updates, CheckBlock(u) \/ CreateBlock(u) \/ Calculate(u)
             \/ BeginTransaction(u) \/ InsideTransaction(u) \/ CompleteBlock(u)
      PROVE TransferInv'
  <2> USE DEF CheckBlock, CreateBlock, Calculate, BeginTransaction, InsideTransaction, CompleteBlock
  <2>1. /\ UNCHANGED <<processed, saved, ufrom, ulist, uhigh, minHeight, arrived, faults>>
        /\ upc[u] \in Listed /\ Current(u) \in Heights
    BY <1>1, <1>4 DEF Listed
  <2>2. \A h \in Heights : blocks[h] = "completed" => blocks'[h] = "completed"
    BY <1>4 DEF InsertBlock, MarkBlockProcessed, TypeInv, TypeOK
  <2>3. /\ \A v \in Updates \ {u} : upc'[v] = upc[v]
        /\ upc'[u] # "query" /\ (upc'[u] = "mark" => blocks'[Current(u)] = "completed")
    BY <1>4, <2>1 DEF IsBlockProcessed, MarkBlockProcessed, TypeInv, TypeOK
  <2> QED
    BY <1>1, <2>1, <2>2, <2>3, QuietTransfers DEF Listed
<1>7. ASSUME NEW f \in Finds, DistributionFails(f) PROVE TransferInv'
  <2>1. UNCHANGED <<tables, updateVars, minHeight, arrived>> /\ faults'.errors = faults.errors
    BY <1>7, FaultsType DEF DistributionFails, TypeInv
  <2> QED
    BY <1>1, <2>1, QuietTransfers DEF Listed
<1>8. ASSUME NEW u \in Updates, SaveFails(u) PROVE TransferInv'
  <2>1. /\ UNCHANGED <<tables, ufrom, ulist, uhigh, minHeight, arrived>>
        /\ faults'.errors = faults.errors
    BY <1>8, FaultsType DEF SaveFails, TypeInv
  <2>2. \A v \in Updates : upc'[v] \in {"query", "mark"} => upc'[v] = upc[v]
    BY <1>8 DEF SaveFails, TypeInv, TypeOK
  <2> QED
    BY <1>1, <2>1, <2>2, QuietTransfers DEF Listed
<1>5. ASSUME NEW u \in Updates, UpdatePendingBals(u) \/ StatementFails(u) PROVE TransferInv'
  BY <1>4, <1>5, UpdateStartTransfers, GetTransfersTransfers, CheckTransferTransfers,
     MarkTransferTransfers, SaveHeightTransfers, BumpHeightTransfers, StatementFailsTransfers
     DEF UpdatePendingBals
<1>6. CASE UNCHANGED vars
  BY <1>1, <1>6, QuietTransfers DEF vars, Listed
<1> QED
  BY <1>2, <1>3, <1>5, <1>6, <1>7, <1>8, TransferArrivesTransfers, CrashTransfers DEF Next

-----------------------------------------------------------------------------
(* Distributions.                                                          *)

\* What has been added is a number of coins.
LEMMA AddedType ==
    ASSUME TypeOK, NEW m \in Miners
    PROVE  /\ IsFiniteSet(Heights) /\ \A h \in Heights : dist[h][m] \in Nat
           /\ Added(m) \in Nat
<1>1. IsFiniteSet(Heights) /\ \A h \in Heights : dist[h][m] \in Nat
  BY RewardsAssumption DEF TypeOK
<1>2. IsFiniteSet(Heights \ Unwritten(m))
  BY <1>1, FS_Difference
<1> QED
  BY <1>1, <1>2, SumType DEF Added

\* It does not shrink when what has been recorded and added stays.
LEMMA AddedGrows ==
    ASSUME TypeOK, TypeOK', NEW m \in Miners,
           \A h \in Heights \ Unwritten(m) :
               dist[h][m] = 0 \/ (h \notin Unwritten(m)' /\ dist'[h][m] = dist[h][m])
    PROVE  Added(m) \in Nat /\ Added(m)' \in Nat /\ Added(m) <= Added(m)'
<1> DEFINE S == Heights \ Unwritten(m)
           R == Heights \ Unwritten(m)'
           d == [h \in Heights |-> dist[h][m]]
           e == [h \in Heights |-> dist'[h][m]]
           P == {h \in S : d[h] # 0}
<1>1. /\ IsFiniteSet(S) /\ IsFiniteSet(R) /\ IsFiniteSet(P)
      /\ \A h \in S : d[h] \in Nat
      /\ \A h \in R : e[h] \in Nat
  <2>1. S \subseteq Heights /\ R \subseteq Heights /\ P \subseteq Heights /\ IsFiniteSet(Heights)
    BY RewardsAssumption
  <2>2. \A h \in Heights : dist[h][m] \in Nat /\ dist'[h][m] \in Nat
    BY DEF TypeOK
  <2> QED
    BY <2>1, <2>2, FS_Subset
<1>2. P \subseteq S /\ P \subseteq R /\ \A h \in P : d[h] = e[h]
  OBVIOUS
<1>3. \A h \in S \ P : d[h] = 0
  OBVIOUS
<1> HIDE DEF S, R, d, e, P
<1>4. SumOver(d, S) = SumOver(d, P)
  BY <1>1, <1>2, <1>3, SumZeroOutside
<1>5. SumOver(d, P) = SumOver(e, P) /\ SumOver(e, P) <= SumOver(e, R)
  BY <1>1, <1>2, SumEqual, SumMonotone
<1>6. SumOver(d, S) \in Nat /\ SumOver(e, R) \in Nat
  BY <1>1, SumType
<1> QED
  BY <1>4, <1>5, <1>6 DEF Added, S, R, d, e

\* A record that is no longer on the way has been added.
LEMMA AddedWritten ==
    ASSUME TypeOK, NEW m \in Miners, NEW h \in Heights, h \in Unwritten(m),
           Unwritten(m)' = Unwritten(m) \ {h}, UNCHANGED dist
    PROVE  Added(m) \in Nat /\ dist[h][m] \in Nat /\ Added(m)' = Added(m) + dist[h][m]
<1> DEFINE R == Heights \ Unwritten(m)'
           d == [g \in Heights |-> dist[g][m]]
<1>1. IsFiniteSet(R) /\ h \in R /\ \A g \in R : d[g] \in Nat
  <2>1. R \subseteq Heights /\ IsFiniteSet(Heights) /\ \A g \in Heights : dist[g][m] \in Nat
    BY AddedType
  <2> QED
    BY <2>1, FS_Subset
<1>2. R \ {h} = Heights \ Unwritten(m) /\ d[h] = dist[h][m]
  OBVIOUS
<1>3. Added(m)' = SumOver(d, R) /\ Added(m) = SumOver(d, R \ {h})
  BY <1>2 DEF Added
<1> HIDE DEF R, d
<1>4. SumOver(d, R) = d[h] + SumOver(d, R \ {h})
  BY <1>1, SumRemove
<1>5. d[h] \in Nat /\ SumOver(d, R \ {h}) \in Nat
  BY <1>1, SumType, FS_RemoveElement
<1> QED
  BY <1>2, <1>3, <1>4, <1>5

\* The initial state: nothing is recorded.
LEMMA InitPayInv == ASSUME Init PROVE PayInv
<1>1. TypeOK
  BY InitTypeInv DEF TypeInv
<1>2. OneFindPerHeight
  BY DEF Init, OneFindPerHeight
<1>3. RecordedOnce
  BY DEF Init, RecordedOnce
<1>4. BalanceIsCovered
  BY <1>1, AddedType DEF Init, BalanceIsCovered
<1> QED
  BY <1>2, <1>3, <1>4 DEF PayInv

\* A block is announced when no goroutine has its height yet.
LEMMA BlockFoundIsNew ==
    ASSUME TypeInv, MaxPerHeight = 1, NEW f \in Finds, NEW h \in Heights, BlockFound(f, h)
    PROVE  /\ \A g \in Finds : fheight[g] # h
           /\ fheight[f] = 0 /\ fminer[f] = {} /\ h # 0
           /\ fheight'[f] = h /\ fpc'[f] = "sleep"
           /\ \A g \in Finds \ {f} : fheight'[g] = fheight[g] /\ fpc'[g] = fpc[g]
           /\ UNCHANGED <<dist, fees, balance, ftodo, fminer, fbal>>
<1> DEFINE S == {g \in Finds : fheight[g] = h}
<1>1. IsFiniteSet(S)
  BY RewardsAssumption, FS_Subset
<1>2. Cardinality(S) \in Nat /\ Cardinality(S) < 1
  BY <1>1, FS_CardinalityType DEF BlockFound
<1>3. S = {}
  BY <1>1, <1>2, FS_EmptySet
<1>4. fpc[f] = "none" /\ h # 0
  BY RewardsAssumption DEF BlockFound
<1>5. /\ fheight' = [fheight EXCEPT ![f] = h] /\ fpc' = [fpc EXCEPT ![f] = "sleep"]
      /\ UNCHANGED <<dist, fees, balance, ftodo, fminer, fbal>>
  BY DEF BlockFound
<1> QED
  BY <1>3, <1>4, <1>5 DEF TypeInv, TypeOK, FindsMatch

\* Every step leaves a height to one goroutine.
LEMMA StepOneFind ==
    ASSUME TypeInv, OneFindPerHeight, MaxPerHeight = 1, [Next]_vars
    PROVE  OneFindPerHeight'
<1>1. ASSUME NEW f \in Finds, NEW h \in Heights, BlockFound(f, h) PROVE OneFindPerHeight'
  BY <1>1, BlockFoundIsNew DEF OneFindPerHeight
<1>2. ASSUME UNCHANGED fheight PROVE OneFindPerHeight'
  BY <1>2 DEF OneFindPerHeight
<1>3. ASSUME NEW f \in Finds, Distribute(f) \/ DistributionFails(f) PROVE UNCHANGED fheight
  BY <1>3 DEF Distribute, DistributeStart, DistributeMiner, ReadBalance, WriteBalance,
     DistributeFee, DistributeEnd, DistributeNothing, DistributionFails, tables, updateVars
<1>4. ASSUME NEW u \in Updates, UpdatePendingBals(u) \/ StatementFails(u) \/ SaveFails(u)
      PROVE  UNCHANGED fheight
  BY <1>4 DEF UpdatePendingBals, UpdateStart, GetTransfers, CheckTransfer, CheckBlock,
     CreateBlock,
     Calculate, BeginTransaction, InsideTransaction, CompleteBlock, MarkTransfer, SaveHeight,
     BumpHeight, StatementFails, SaveFails, tables, findVars
<1>5. (\E h \in Heights : TransferArrives(h)) \/ Crash \/ UNCHANGED vars => UNCHANGED fheight
  BY DEF TransferArrives, Crash, vars, findVars
<1> QED
  BY <1>1, <1>2, <1>3, <1>4, <1>5 DEF Next

\* Every step records at most once.
LEMMA StepRecorded ==
    ASSUME TypeInv, OneFindPerHeight, RecordedOnce, MaxPerHeight = 1, [Next]_vars
    PROVE  RecordedOnce'
<1> USE DEF tables, findVars, updateVars
<1>1. ASSUME NEW f \in Finds, NEW h \in Heights, BlockFound(f, h) PROVE RecordedOnce'
  <2>1. fees[h] = 0 /\ \A m \in Miners : dist[h][m] = 0
    BY <1>1, BlockFoundIsNew DEF RecordedOnce
  <2>2. fpc[f] = "none" /\ ftodo[f] = {}
    BY <1>1 DEF BlockFound, RecordedOnce
  <2>3. /\ fheight'[f] = h /\ fpc'[f] = "sleep" /\ fminer[f] = {}
        /\ \A g \in Finds \ {f} : fheight'[g] = fheight[g] /\ fpc'[g] = fpc[g]
        /\ UNCHANGED <<dist, fees, ftodo, fminer>>
    BY <1>1, BlockFoundIsNew
  <2>4. fheight[f] = 0 /\ 0 \notin Heights
    BY <1>1, BlockFoundIsNew, RewardsAssumption
  <2>5. \A g \in Heights : (\A e \in Finds : fheight'[e] # g) =>
            fees[g] = 0 /\ \A m \in Miners : dist[g][m] = 0
    BY <2>3, <2>4 DEF RecordedOnce
  <2>6. \A g \in Finds : fpc'[g] \in {"sleep", "loop", "read", "write"} => fees[fheight'[g]] = 0
    BY <2>1, <2>3 DEF RecordedOnce
  <2>7. \A g \in Finds : fpc'[g] = "sleep" =>
            ftodo[g] = {} /\ \A m \in Miners : dist[fheight'[g]][m] = 0
    BY <2>1, <2>2, <2>3 DEF RecordedOnce
  <2>8. /\ \A g \in Finds : \A m \in ftodo[g] :
            fpc'[g] \in {"loop", "read", "write"} /\ dist[fheight'[g]][m] = 0
        /\ \A g \in Finds : \A m \in fminer[g] :
            m \notin ftodo[g] /\ dist[fheight'[g]][m] = Part[fheight'[g]][m]
    BY <2>2, <2>3 DEF RecordedOnce
  <2> QED
    BY <2>3, <2>5, <2>6, <2>7, <2>8 DEF RecordedOnce
<1>2. ASSUME NEW f \in Finds, DistributeStart(f) \/ DistributeNothing(f) PROVE RecordedOnce'
  <2>1. /\ fpc[f] = "sleep" /\ fpc'[f] \in {"loop", "done"} /\ ftodo'[f] \subseteq Miners
        /\ fpc'[f] = "done" => ftodo'[f] = {}
        /\ \A g \in Finds \ {f} : fpc'[g] = fpc[g] /\ ftodo'[g] = ftodo[g]
        /\ UNCHANGED <<dist, fees, fheight, fminer>>
    BY <1>2 DEF DistributeStart, DistributeNothing, TypeInv, TypeOK, RecordedOnce
  <2>2. fminer[f] = {}
    BY <2>1 DEF TypeInv, FindsMatch
  <2> QED
    BY <2>1, <2>2 DEF RecordedOnce
<1>12. ASSUME NEW f \in Finds, DistributionFails(f) PROVE RecordedOnce'
  <2>1. UNCHANGED <<dist, fees, fheight>>
    BY <1>12 DEF DistributionFails
  <2>2. CASE GiveUpBlock(f) \/ SkipFee(f)
    <3>1. /\ UNCHANGED <<ftodo, fminer>> /\ fpc[f] \in {"sleep", "mark", "loop"}
          /\ fpc'[f] \in {"done", "mark"} /\ \A g \in Finds \ {f} : fpc'[g] = fpc[g]
      BY <2>2 DEF GiveUpBlock, SkipFee, TypeInv, TypeOK
    <3>2. ftodo[f] = {}
      BY <2>2 DEF GiveUpBlock, SkipFee, RecordedOnce, TypeInv, TypeOK
    <3> QED
      BY <2>1, <3>1, <3>2 DEF RecordedOnce
  <2>3. ASSUME NEW m \in Miners, SkipMiner(f, m) PROVE RecordedOnce'
    <3>1. UNCHANGED <<fpc, fminer>> /\ \A g \in Finds : ftodo'[g] \subseteq ftodo[g]
      BY <2>3 DEF SkipMiner, TypeInv, TypeOK
    <3>2. fpc[f] = "loop" /\ \A g \in Finds \ {f} : ftodo'[g] = ftodo[g]
      BY <2>3 DEF SkipMiner, TypeInv, TypeOK
    <3> QED
      BY <2>1, <3>1, <3>2 DEF RecordedOnce
  <2>4. CASE SkipCredit(f)
    <3>1. /\ fpc[f] \in {"read", "write"} /\ fpc'[f] = "loop" /\ fminer'[f] = {}
          /\ \A g \in Finds \ {f} : fpc'[g] = fpc[g] /\ fminer'[g] = fminer[g]
          /\ UNCHANGED ftodo
      BY <2>4 DEF SkipCredit, TypeInv, TypeOK
    <3> QED
      BY <2>1, <3>1 DEF RecordedOnce
  <2> QED
    BY <1>12, <2>2, <2>3, <2>4 DEF DistributionFails
<1>3. ASSUME NEW f \in Finds, NEW m \in Miners, DistributeMiner(f, m) PROVE RecordedOnce'
  <2> DEFINE h == fheight[f]
  <2>1. /\ fpc[f] = "loop" /\ m \in ftodo[f] /\ h \in Heights
        /\ TotalWeight(Weight) # 0 /\ fminer[f] = {}
    BY <1>3 DEF DistributeMiner, TypeInv, TypeOK, FindsMatch
  <2>2. ftodo' = [ftodo EXCEPT ![f] = ftodo[f] \ {m}] /\ UNCHANGED <<fees, fheight>>
    BY <1>3 DEF DistributeMiner
  <2>3. \A g \in Finds : ftodo'[g] \subseteq ftodo[g]
    BY <2>2 DEF TypeInv, TypeOK
  <2>4. CASE UNCHANGED <<dist, fminer, fpc>>
    BY <2>2, <2>3, <2>4 DEF RecordedOnce
  <2>5. CASE /\ dist' = [dist EXCEPT ![h][m] = Part[h][m]]
             /\ fminer' = [fminer EXCEPT ![f] = {m}]
             /\ fpc' = [fpc EXCEPT ![f] = "read"]
    <3>1. /\ dist'[h][m] = Part[h][m]
          /\ \A g \in Heights, k \in Miners : g # h \/ k # m => dist'[g][k] = dist[g][k]
      BY <2>1, <2>5 DEF TypeInv, TypeOK
    <3>2. /\ fminer'[f] = {m} /\ fpc'[f] = "read" /\ m \notin ftodo'[f]
          /\ \A g \in Finds \ {f} : fminer'[g] = fminer[g] /\ fpc'[g] = fpc[g]
      BY <2>2, <2>5 DEF TypeInv, TypeOK
    <3>3. \A g \in Finds \ {f} : fheight[g] # h
      BY <2>1, RewardsAssumption DEF OneFindPerHeight
    <3>4. \A g \in Finds : fheight[g] \in Heights \/ fpc[g] = "none"
      BY DEF TypeInv, TypeOK, FindsMatch
    <3>5. ftodo \in [Finds -> SUBSET Miners] /\ fminer \in [Finds -> SUBSET Miners]
      BY DEF TypeInv, TypeOK
    <3> HIDE DEF h
    <3>6. \A g \in Finds : fpc'[g] = "sleep" =>
              ftodo'[g] = {} /\ \A k \in Miners : dist'[fheight[g]][k] = 0
      BY <2>3, <3>1, <3>2, <3>3, <3>4 DEF RecordedOnce
    <3>7. \A g \in Finds : \A k \in ftodo'[g] :
              fpc'[g] \in {"loop", "read", "write"} /\ dist'[fheight[g]][k] = 0
      BY <2>1, <2>3, <3>1, <3>2, <3>3, <3>4, <3>5 DEF RecordedOnce, h
    <3>8. \A g \in Finds : \A k \in fminer'[g] :
              k \notin ftodo'[g] /\ dist'[fheight[g]][k] = Part[fheight[g]][k]
      BY <2>1, <2>3, <3>1, <3>2, <3>3, <3>4, <3>5 DEF RecordedOnce, h, TypeInv, FindsMatch
    <3>9. \A g \in Heights : (\A e \in Finds : fheight[e] # g) =>
              fees[g] = 0 /\ \A k \in Miners : dist'[g][k] = 0
      BY <3>1 DEF RecordedOnce, h
    <3>10. \A g \in Finds : fpc'[g] \in {"sleep", "loop", "read", "write"} => fees[fheight[g]] = 0
      BY <2>1, <3>2 DEF RecordedOnce
    <3>11. \A g \in Heights, k \in Miners :
              dist'[g][k] # 0 => TotalWeight(Weight) # 0 /\ dist'[g][k] = Part[g][k]
      BY <2>1, <3>1 DEF RecordedOnce
    <3> QED
      BY <2>2, <3>6, <3>7, <3>8, <3>9, <3>10, <3>11 DEF RecordedOnce
  <2> QED
    BY <1>3, <2>4, <2>5 DEF DistributeMiner, CreateDistribution
<1>4. ASSUME NEW f \in Finds, ReadBalance(f) PROVE RecordedOnce'
  <2>1. /\ fpc[f] = "read" /\ fpc'[f] = "write" /\ \A g \in Finds \ {f} : fpc'[g] = fpc[g]
        /\ UNCHANGED <<dist, fees, fheight, ftodo, fminer>>
    BY <1>4 DEF ReadBalance, TypeInv, TypeOK
  <2> QED
    BY <2>1 DEF RecordedOnce
<1>5. ASSUME NEW f \in Finds, WriteBalance(f) PROVE RecordedOnce'
  <2>1. /\ fpc[f] = "write" /\ fpc'[f] = "loop" /\ fminer'[f] = {}
        /\ \A g \in Finds \ {f} : fpc'[g] = fpc[g] /\ fminer'[g] = fminer[g]
        /\ UNCHANGED <<dist, fees, fheight, ftodo>>
    BY <1>5 DEF WriteBalance, TypeInv, TypeOK
  <2> QED
    BY <2>1 DEF RecordedOnce
<1>6. ASSUME NEW f \in Finds, DistributeFee(f) PROVE RecordedOnce'
  <2> DEFINE h == fheight[f]
  <2>1. /\ fpc[f] = "loop" /\ fpc'[f] = "mark" /\ ftodo[f] = {}
        /\ \A g \in Finds \ {f} : fpc'[g] = fpc[g]
        /\ UNCHANGED <<dist, fheight, ftodo, fminer>>
    BY <1>6 DEF DistributeFee, TypeInv, TypeOK
  <2>2. h \in Heights /\ fees[h] = 0 /\ fminer[f] = {}
    <3>1. h \in Heights \cup {0} /\ h # 0 /\ fminer[f] = {}
      BY <2>1 DEF TypeInv, TypeOK, FindsMatch
    <3>2. fees[h] = 0
      BY <2>1 DEF RecordedOnce
    <3> QED
      BY <3>1, <3>2
  <2>3. FeeAmount(Reward[h], FeePercent) \in Nat
    BY <2>2, FeeType
  <2>4. /\ fees'[h] \in {0, FeeAmount(Reward[h], FeePercent)}
        /\ \A g \in Heights \ {h} : fees'[g] = fees[g]
    BY <1>6, <2>2, <2>3 DEF DistributeFee, TypeInv, TypeOK
  <2>5. \A g \in Finds \ {f} : fheight[g] # h
    BY <2>2, RewardsAssumption DEF OneFindPerHeight
  <2>6. \A g \in Finds : fheight[g] \in Heights \/ fpc[g] = "none"
    BY DEF TypeInv, TypeOK, FindsMatch
  <2>7. \A g \in Finds : fpc'[g] \in {"sleep", "loop", "read", "write"} => fees'[fheight[g]] = 0
    BY <2>1, <2>4, <2>5, <2>6 DEF RecordedOnce
  <2>8. \A g \in Heights : fees'[g] \in {0, FeeAmount(Reward[g], FeePercent)}
    BY <2>4 DEF RecordedOnce
  <2>9. \A g \in Heights : (\A e \in Finds : fheight[e] # g) => fees'[g] = 0
    BY <2>4 DEF RecordedOnce
  <2> QED
    BY <2>1, <2>7, <2>8, <2>9 DEF RecordedOnce
<1>7. ASSUME NEW f \in Finds, DistributeEnd(f) PROVE RecordedOnce'
  <2>1. /\ fpc[f] = "mark" /\ fpc'[f] = "done" /\ \A g \in Finds \ {f} : fpc'[g] = fpc[g]
        /\ UNCHANGED <<dist, fees, fheight, ftodo, fminer>>
    BY <1>7 DEF DistributeEnd, TypeInv, TypeOK
  <2> QED
    BY <2>1 DEF RecordedOnce
<1>8. CASE Crash
  <2>1. /\ \A g \in Finds : fpc'[g] \in {"none", "done"} /\ ftodo'[g] = {} /\ fminer'[g] = {}
        /\ UNCHANGED <<dist, fees, fheight>>
    BY <1>8 DEF Crash
  <2> QED
    BY <2>1 DEF RecordedOnce
<1>9. ASSUME UNCHANGED <<dist, fees, findVars>> PROVE RecordedOnce'
  BY <1>9 DEF RecordedOnce
<1>10. ASSUME NEW u \in Updates, UpdatePendingBals(u) \/ StatementFails(u) \/ SaveFails(u)
       PROVE UNCHANGED <<dist, fees, findVars>>
  BY <1>10 DEF UpdatePendingBals, UpdateStart, GetTransfers, CheckTransfer, CheckBlock,
     CreateBlock,
     Calculate, BeginTransaction, InsideTransaction, CompleteBlock, MarkTransfer, SaveHeight,
     BumpHeight, StatementFails, SaveFails
<1>11. (\E h \in Heights : TransferArrives(h)) \/ UNCHANGED vars => UNCHANGED <<dist, fees, findVars>>
  BY DEF TransferArrives, vars
<1> QED
  BY <1>1, <1>2, <1>3, <1>4, <1>5, <1>6, <1>7, <1>8, <1>9, <1>10, <1>11,
     <1>12 DEF Next, Distribute

\* A step that writes no balance keeps them covered when no record is lost and a
\* goroutine reads what is there.
LEMMA CoverKept ==
    ASSUME TypeInv, TypeInv', BalanceIsCovered, UNCHANGED balance,
           \A m \in Miners : \A h \in Heights \ Unwritten(m) :
               dist[h][m] = 0 \/ (h \notin Unwritten(m)' /\ dist'[h][m] = dist[h][m]),
           \A g \in Finds : \A m \in fminer'[g] : fpc'[g] = "write" =>
               fbal'[g] = balance[m] \/ (fpc[g] = "write" /\ m \in fminer[g] /\ fbal'[g] = fbal[g])
    PROVE  BalanceIsCovered'
<1>1. \A m \in Miners : /\ Added(m) \in Nat /\ Added(m)' \in Nat /\ Added(m) <= Added(m)'
                        /\ balance[m] \in Nat
  BY AddedGrows DEF TypeInv, TypeOK
<1>2. \A g \in Finds : fbal'[g] \in Nat
  BY DEF TypeInv, TypeOK
<1>3. \A m \in Miners : balance[m] <= Added(m)'
  BY <1>1 DEF BalanceIsCovered
<1>4. ASSUME NEW m \in Miners, NEW g \in Finds, fpc'[g] = "write", m \in fminer'[g]
      PROVE  fbal'[g] <= Added(m)'
  <2>1. CASE fbal'[g] = balance[m]
    BY <1>3, <2>1
  <2>2. CASE fpc[g] = "write" /\ m \in fminer[g] /\ fbal'[g] = fbal[g]
    <3>1. fbal'[g] <= Added(m)
      BY <2>2 DEF BalanceIsCovered
    <3> QED
      BY <1>1, <1>2, <3>1
  <2> QED
    BY <1>4, <2>1, <2>2
<1> QED
  BY <1>3, <1>4 DEF BalanceIsCovered

\* The second half of the read and write: at most what is recorded is written.
LEMMA WriteCovers ==
    ASSUME TypeInv, TypeInv', OneFindPerHeight, RecordedOnce, BalanceIsCovered,
           NEW f \in Finds, WriteBalance(f)
    PROVE  BalanceIsCovered'
<1> DEFINE h == fheight[f]
<1>1. /\ fpc[f] = "write" /\ UNCHANGED <<dist, fheight>>
      /\ fminer' = [fminer EXCEPT ![f] = {}] /\ fbal' = [fbal EXCEPT ![f] = 0]
      /\ fpc' = [fpc EXCEPT ![f] = "loop"]
  BY DEF WriteBalance
<1>2. PICK m \in Miners : fminer[f] = {m}
  BY <1>1 DEF TypeInv, FindsMatch
<1>3. balance' = [balance EXCEPT ![m] = fbal[f] + Part[h][m]]
  BY <1>2 DEF WriteBalance
<1>4. h \in Heights /\ h # 0
  <2>1. h \in Heights \cup {0} /\ h # 0
    BY <1>1 DEF TypeInv, TypeOK, FindsMatch
  <2> QED
    BY <2>1
<1>5. /\ fminer'[f] = {} /\ fpc'[f] = "loop"
      /\ \A g \in Finds \ {f} : fminer'[g] = fminer[g] /\ fpc'[g] = fpc[g] /\ fbal'[g] = fbal[g]
  BY <1>1 DEF TypeInv, TypeOK
<1>6. \A g \in Finds \ {f} : fheight[g] # h
  BY <1>4 DEF OneFindPerHeight
<1>7. h \in Unwritten(m) /\ Unwritten(m)' = Unwritten(m) \ {h}
  <2>1. h \in Unwritten(m)
    BY <1>2 DEF Unwritten
  <2>2. ASSUME NEW g \in Finds, m \in fminer'[g] PROVE fheight[g] \in Unwritten(m) \ {h}
    BY <1>5, <1>6, <2>2 DEF Unwritten
  <2>3. ASSUME NEW g \in Finds, m \in fminer[g], fheight[g] # h PROVE m \in fminer'[g]
    BY <1>5, <2>3
  <2> HIDE DEF h
  <2> QED
    BY <1>1, <2>1, <2>2, <2>3 DEF Unwritten
<1>8. /\ Added(m) \in Nat /\ dist[h][m] \in Nat /\ Added(m)' = Added(m) + dist[h][m]
  BY <1>1, <1>4, <1>7, AddedWritten DEF TypeInv
<1>9. dist[h][m] = Part[h][m] /\ fbal[f] <= Added(m) /\ fbal[f] \in Nat
  BY <1>1, <1>2 DEF RecordedOnce, BalanceIsCovered, TypeInv, TypeOK
<1>10. \A k \in Miners \ {m} : Unwritten(k)' = Unwritten(k)
  <2>1. ASSUME NEW k \in Miners \ {m}, NEW g \in Finds PROVE k \in fminer'[g] <=> k \in fminer[g]
    BY <1>2, <1>5
  <2> QED
    BY <1>1, <2>1 DEF Unwritten
<1>11. \A k \in Miners \ {m} : Added(k)' = Added(k)
  BY <1>1, <1>10 DEF Added
<1>12. \A k \in Miners : Added(k) <= Added(k)' /\ Added(k) \in Nat /\ Added(k)' \in Nat
  BY <1>8, <1>11, AddedType DEF TypeInv
<1>13. \A k \in Miners : balance'[k] <= Added(k)'
  <2>1. balance'[m] = fbal[f] + dist[h][m] /\ \A k \in Miners \ {m} : balance'[k] = balance[k]
    BY <1>3, <1>9 DEF TypeInv, TypeOK
  <2> HIDE DEF h
  <2>2. balance'[m] <= Added(m)'
    BY <1>8, <1>9, <2>1
  <2>3. \A k \in Miners \ {m} : balance'[k] <= Added(k)'
    BY <1>11, <2>1 DEF BalanceIsCovered
  <2> QED
    BY <2>2, <2>3
<1>14. ASSUME NEW k \in Miners, NEW g \in Finds, fpc'[g] = "write", k \in fminer'[g]
       PROVE  fbal'[g] <= Added(k)'
  <2>1. fbal'[g] = fbal[g] /\ fbal[g] <= Added(k) /\ fbal[g] \in Nat
    BY <1>5, <1>14 DEF BalanceIsCovered, TypeInv, TypeOK
  <2> QED
    BY <1>12, <2>1
<1> QED
  BY <1>13, <1>14 DEF BalanceIsCovered

\* Every step covers the balances.
LEMMA StepCovered ==
    ASSUME TypeInv, TypeInv', OneFindPerHeight, RecordedOnce, BalanceIsCovered,
           MaxPerHeight = 1, [Next]_vars
    PROVE  BalanceIsCovered'
<1> USE DEF tables, findVars, updateVars
<1>1. ASSUME NEW f \in Finds, NEW h \in Heights, BlockFound(f, h) PROVE BalanceIsCovered'
  <2>1. /\ fminer[f] = {} /\ fpc'[f] = "sleep"
        /\ \A g \in Finds \ {f} : fheight'[g] = fheight[g] /\ fpc'[g] = fpc[g]
        /\ UNCHANGED <<dist, balance, fminer, fbal>>
    BY <1>1, BlockFoundIsNew
  <2>2. \A m \in Miners : Unwritten(m)' = Unwritten(m)
    BY <2>1 DEF Unwritten
  <2> QED
    BY <2>1, <2>2, CoverKept
<1>2. ASSUME NEW f \in Finds, NEW m \in Miners, DistributeMiner(f, m) PROVE BalanceIsCovered'
  <2> DEFINE h == fheight[f]
  <2>1. fpc[f] = "loop" /\ m \in ftodo[f] /\ dist[h][m] = 0 /\ h \in Heights
    <3>1. fpc[f] = "loop" /\ m \in ftodo[f] /\ h \in Heights \cup {0} /\ h # 0
      BY <1>2 DEF DistributeMiner, TypeInv, TypeOK, FindsMatch
    <3> QED
      BY <3>1 DEF RecordedOnce
  <2>2. UNCHANGED <<fheight, balance, fbal>>
    BY <1>2 DEF DistributeMiner
  <2>3. CASE UNCHANGED <<dist, fminer, fpc>>
    BY <2>2, <2>3, CoverKept DEF Unwritten
  <2>4. CASE /\ dist' = [dist EXCEPT ![h][m] = Part[h][m]]
             /\ fminer' = [fminer EXCEPT ![f] = {m}]
             /\ fpc' = [fpc EXCEPT ![f] = "read"]
    <3>1. \A g \in Heights, k \in Miners : g # h \/ k # m => dist'[g][k] = dist[g][k]
      BY <2>1, <2>4 DEF TypeInv, TypeOK
    <3>2. /\ fminer[f] = {} /\ fminer'[f] = {m} /\ fpc'[f] = "read"
          /\ \A g \in Finds \ {f} : fminer'[g] = fminer[g] /\ fpc'[g] = fpc[g]
      <4>1. fminer[f] = {}
        BY <2>1 DEF TypeInv, FindsMatch
      <4> QED
        BY <2>4, <4>1 DEF TypeInv, TypeOK
    <3> HIDE DEF h
    <3>3. ASSUME NEW k \in Miners, NEW g \in Heights \ Unwritten(k), g \in Unwritten(k)'
          PROVE  k = m /\ g = h
      BY <2>2, <3>2, <3>3 DEF Unwritten, h
    <3>4. \A k \in Miners : \A g \in Heights \ Unwritten(k) :
              dist[g][k] = 0 \/ (g \notin Unwritten(k)' /\ dist'[g][k] = dist[g][k])
      BY <2>1, <3>1, <3>3
    <3>5. \A g \in Finds : fpc'[g] = "write" => fpc[g] = "write" /\ fminer'[g] = fminer[g]
      BY <3>2
    <3> QED
      BY <2>2, <3>4, <3>5, CoverKept
  <2> QED
    BY <1>2, <2>3, <2>4 DEF DistributeMiner, CreateDistribution
<1>3. ASSUME NEW f \in Finds, ReadBalance(f) PROVE BalanceIsCovered'
  <2>1. PICK m \in Miners : fminer[f] = {m}
    BY <1>3 DEF ReadBalance, TypeInv, FindsMatch
  <2>2. /\ UNCHANGED <<dist, balance, fheight, fminer>>
        /\ fbal' = [fbal EXCEPT ![f] = balance[m]] /\ fpc' = [fpc EXCEPT ![f] = "write"]
    BY <1>3, <2>1 DEF ReadBalance
  <2>3. /\ fbal'[f] = balance[m]
        /\ \A g \in Finds \ {f} : fbal'[g] = fbal[g] /\ fpc'[g] = fpc[g]
    BY <2>2 DEF TypeInv, TypeOK
  <2> QED
    BY <2>1, <2>2, <2>3, CoverKept DEF Unwritten
<1>4. ASSUME NEW f \in Finds, DistributeStart(f) \/ DistributeNothing(f) \/ DistributeFee(f)
             \/ DistributeEnd(f)
      PROVE  BalanceIsCovered'
  <2>1. /\ UNCHANGED <<dist, balance, fheight, fminer, fbal>>
        /\ \A g \in Finds : fpc'[g] = "write" => fpc[g] = "write"
    BY <1>4 DEF DistributeStart, DistributeNothing, DistributeFee, DistributeEnd, TypeInv, TypeOK
  <2> QED
    BY <2>1, CoverKept DEF Unwritten
<1>5. CASE Crash
  <2>1. UNCHANGED <<dist, balance>> /\ \A g \in Finds : fminer'[g] = {}
    BY <1>5 DEF Crash
  <2>2. \A m \in Miners : Unwritten(m)' = {}
    BY <2>1 DEF Unwritten
  <2> QED
    BY <2>1, <2>2, CoverKept
<1>6. ASSUME UNCHANGED <<dist, balance, findVars>> PROVE BalanceIsCovered'
  BY <1>6, CoverKept DEF Unwritten
<1>9. ASSUME NEW f \in Finds, DistributionFails(f) PROVE BalanceIsCovered'
  <2>1. /\ UNCHANGED <<dist, balance, fheight>>
        /\ \A g \in Finds : fminer'[g] \subseteq fminer[g]
        /\ \A g \in Finds : fpc'[g] = "write" => fpc[g] = "write" /\ fbal'[g] = fbal[g]
    BY <1>9 DEF DistributionFails, GiveUpBlock, SkipMiner, SkipCredit, SkipFee, TypeInv, TypeOK
  <2>2. \A m \in Miners : Unwritten(m)' \subseteq Unwritten(m)
    BY <2>1 DEF Unwritten
  <2> QED
    BY <2>1, <2>2, CoverKept
<1>7. ASSUME NEW u \in Updates, UpdatePendingBals(u) \/ StatementFails(u) \/ SaveFails(u)
      PROVE  UNCHANGED <<dist, balance, findVars>>
  BY <1>7 DEF UpdatePendingBals, UpdateStart, GetTransfers, CheckTransfer, CheckBlock,
     CreateBlock,
     Calculate, BeginTransaction, InsideTransaction, CompleteBlock, MarkTransfer, SaveHeight,
     BumpHeight, StatementFails, SaveFails
<1>8. (\E h \in Heights : TransferArrives(h)) \/ UNCHANGED vars => UNCHANGED <<dist, balance, findVars>>
  BY DEF TransferArrives, vars
<1> QED
  BY <1>1, <1>2, <1>3, <1>4, <1>5, <1>6, <1>7, <1>8, <1>9, WriteCovers DEF Next, Distribute

-----------------------------------------------------------------------------
(* What the invariants say of the amounts.                                 *)

\* Rounding down part by part gives away at most the whole.
LEMMA FloorSum ==
    ASSUME NEW S, IsFiniteSet(S), NEW w, \A x \in S : w[x] \in Nat,
           NEW n \in Nat, NEW t \in Nat, t # 0,
           NEW part, \A x \in S : part[x] = (n * w[x]) \div t
    PROVE  SumOver(part, S) * t <= n * SumOver(w, S)
<1> DEFINE G == {T \in SUBSET S : SumOver(part, T) * t <= n * SumOver(w, T)}
<1>1. {} \in G
  BY SumEmpty
<1>2. ASSUME NEW T \in SUBSET S, T # {}, \A x \in T : T \ {x} \in G
      PROVE  T \in G
  <2>1. PICK a : a \in T
    BY <1>2
  <2>2. n * w[a] \in Nat
    BY <2>1
  <2>3. part[a] \in Nat /\ part[a] * t <= n * w[a]
    BY <2>1, <2>2, DivBound
  <2>4. \A x \in S : part[x] \in Nat
    <3> TAKE x \in S
    <3>1. n * w[x] \in Nat
      OBVIOUS
    <3> QED
      BY <3>1, DivBound
  <2>5. IsFiniteSet(T) /\ IsFiniteSet(T \ {a})
    BY FS_Subset
  <2>6. SumOver(part, T) = part[a] + SumOver(part, T \ {a}) /\ SumOver(part, T \ {a}) \in Nat
    <3>1. \A x \in T : part[x] \in Nat
      BY <2>4
    <3> HIDE DEF G
    <3>2. SumOver(part, T) = part[a] + SumOver(part, T \ {a})
      BY ONLY <2>1, <2>5, <3>1, SumRemove
    <3>3. SumOver(part, T \ {a}) \in Nat
      BY <2>5, <3>1, SumType
    <3> QED
      BY <3>2, <3>3
  <2>7. SumOver(w, T) = w[a] + SumOver(w, T \ {a}) /\ SumOver(w, T \ {a}) \in Nat /\ w[a] \in Nat
    <3>1. \A x \in T : w[x] \in Nat
      OBVIOUS
    <3> HIDE DEF G
    <3>2. SumOver(w, T) = w[a] + SumOver(w, T \ {a})
      BY ONLY <2>1, <2>5, <3>1, SumRemove
    <3>3. SumOver(w, T \ {a}) \in Nat
      BY <2>5, <3>1, SumType
    <3> QED
      BY <2>1, <3>1, <3>2, <3>3
  <2>8. SumOver(part, T \ {a}) * t <= n * SumOver(w, T \ {a})
    BY <1>2, <2>1
  <2> DEFINE p == SumOver(part, T \ {a})
             q == SumOver(w, T \ {a})
  <2> HIDE DEF p, q
  <2>9. (part[a] + p) * t = part[a] * t + p * t /\ n * (w[a] + q) = n * w[a] + n * q
    <3>1. p \in Nat /\ q \in Nat /\ part[a] \in Nat /\ w[a] \in Nat
      BY <2>3, <2>6, <2>7 DEF p, q
    <3> QED
      BY ONLY <3>1, n \in Nat, t \in Nat, Distributes
  <2>10. part[a] * t \in Nat /\ p * t \in Nat /\ n * q \in Nat
    BY <2>3, <2>6, <2>7 DEF p, q
  <2> QED
    BY <2>2, <2>3, <2>6, <2>7, <2>8, <2>9, <2>10 DEF p, q
<1> HIDE DEF G
<1>3. S \in G
  BY <1>1, <1>2, FiniteInduction
<1> QED
  BY <1>3 DEF G

\* The parts of all miners are together at most what remains after the fee.
LEMMA PartsFit ==
    ASSUME TotalWeight(Weight) # 0, NEW h \in Heights
    PROVE  SumOver(Part[h], Miners) <= NetReward(Reward[h], FeePercent)
<1> DEFINE n == NetReward(Reward[h], FeePercent)
           t == TotalWeight(Weight)
           s == SumOver(Part[h], Miners)
<1>1. n \in Nat /\ t \in Nat /\ t # 0 /\ t = SumOver(Weight, Miners)
  BY FeeType, WeightIsSum
<1>2. IsFiniteSet(Miners) /\ \A m \in Miners : Weight[m] \in Nat /\ Part[h][m] \in Nat
  BY RewardsAssumption, PartType
<1>3. \A m \in Miners : Part[h][m] = (n * Weight[m]) \div t
  BY DEF Part, MinerReward
<1> HIDE DEF n, t
<1>4. s * t <= n * t
  BY <1>1, <1>2, <1>3, FloorSum
<1>5. s \in Nat
  BY <1>2, SumType
<1> HIDE DEF s
<1>6. ASSUME n < s PROVE FALSE
  <2>1. (n + 1) * t <= s * t /\ (n + 1) * t = n * t + t
    BY <1>1, <1>5, <1>6
  <2>2. n * t \in Nat /\ s * t \in Nat
    BY <1>1, <1>5
  <2> QED
    BY <1>1, <1>4, <2>1, <2>2
<1> QED
  BY <1>1, <1>5, <1>6 DEF n, s

\* A sum over a function is a sum over its domain.
LEMMA SumFunctionIs ==
    ASSUME NEW f, NEW S
    PROVE  /\ SumFunctionOnSet(f, S) = SumOver(f, S)
           /\ DOMAIN f = S => SumFunction(f) = SumOver(f, S)
BY DEF SumFunction, SumFunctionOnSet, FoldFunctionOnSet, SumOver, MapThenSumSet

\* The balances are paid for by the rewards of the blocks found.
LEMMA CoveredIsPaid ==
    ASSUME TypeInv, RecordedOnce, BalanceIsCovered
    PROVE  NoOverpayment
<1> DEFINE column(m) == SumOver([h \in Heights |-> dist[h][m]], Heights)
           paid == [h \in Heights |-> SumOver(dist[h], Miners)]
           out == [h \in Heights |-> paid[h] + fees[h]]
           found == {fheight[f] : f \in Finds} \ {0}
<1>1. /\ IsFiniteSet(Heights) /\ IsFiniteSet(Miners) /\ found \subseteq Heights
      /\ \A h \in Heights : fees[h] \in Nat /\ Reward[h] \in Nat /\ h # 0
      /\ \A h \in Heights : \A m \in Miners : dist[h][m] \in Nat
      /\ \A m \in Miners : balance[m] \in Nat
  BY RewardsAssumption DEF TypeInv, TypeOK
<1>2. \A h \in Heights : paid[h] \in Nat
  BY <1>1, SumType
<1>3. \A m \in Miners : column(m) \in Nat /\ balance[m] <= column(m)
  <2> TAKE m \in Miners
  <2> DEFINE d == [h \in Heights |-> dist[h][m]]
  <2>1. \A h \in Heights : d[h] \in Nat
    BY <1>1
  <2>2. balance[m] <= SumOver(d, Heights \ Unwritten(m))
    BY DEF BalanceIsCovered, Added
  <2>3. Heights \ Unwritten(m) \in SUBSET Heights
    OBVIOUS
  <2> HIDE DEF d
  <2>4. SumOver(d, Heights \ Unwritten(m)) <= SumOver(d, Heights)
    BY <1>1, <2>1, <2>3, SumMonotone
  <2>5. SumOver(d, Heights \ Unwritten(m)) \in Nat /\ SumOver(d, Heights) \in Nat
    BY <1>1, <2>1, <2>3, SumType, FS_Subset
  <2> QED
    BY <1>1, <2>2, <2>4, <2>5 DEF d
<1>4. SumOver(balance, Miners) <= SumOver([m \in Miners |-> column(m)], Miners)
  <2> DEFINE c == [m \in Miners |-> column(m)]
  <2>1. \A m \in Miners : balance[m] \in Nat /\ c[m] \in Nat /\ balance[m] <= c[m]
    BY <1>1, <1>3
  <2> HIDE DEF c
  <2>2. SumOver(balance, Miners) <= SumOver(c, Miners)
    BY <1>1, <2>1, SumPointwise
  <2> QED
    BY <2>2 DEF c
<1>5. SumOver(paid, Heights) = SumOver([m \in Miners |-> column(m)], Miners)
  <2>1. SumOver(RowSums(dist, Heights, Miners), Heights)
           = SumOver(ColumnSums(dist, Heights, Miners), Miners)
    BY <1>1, SumSwap
  <2> QED
    BY <2>1 DEF RowSums, ColumnSums
<1>6. SumOver(out, Heights) = SumOver(paid, Heights) + SumOver(fees, Heights)
  <2>1. \A h \in Heights : out[h] = paid[h] + fees[h]
    OBVIOUS
  <2> HIDE DEF paid, out
  <2> QED
    BY <1>1, <1>2, <2>1, SumPlus
<1>7. \A h \in Heights : out[h] \in Nat /\ out[h] <= Reward[h]
  <2> TAKE h \in Heights
  <2>1. paid[h] <= NetReward(Reward[h], FeePercent)
    <3>1. CASE \A m \in Miners : dist[h][m] = 0
      <4>1. SumOver(dist[h], Miners) = 0
        <5>1. SumOver(dist[h], Miners) = SumOver(dist[h], {})
          BY <1>1, <3>1, SumZeroOutside
        <5> QED
          BY <5>1, SumEmpty
      <4> QED
        BY <4>1, FeeType
    <3>2. CASE \E m \in Miners : dist[h][m] # 0
      <4>1. TotalWeight(Weight) # 0
        BY <3>2 DEF RecordedOnce
      <4>2. \A m \in Miners : dist[h][m] \in Nat /\ Part[h][m] \in Nat /\ dist[h][m] <= Part[h][m]
        BY <1>1, <4>1, PartType DEF RecordedOnce
      <4>3. SumOver(dist[h], Miners) <= SumOver(Part[h], Miners)
        BY <1>1, <4>2, SumPointwise
      <4>4. SumOver(Part[h], Miners) \in Nat
        BY <1>1, <4>2, SumType
      <4> QED
        BY <1>2, <4>1, <4>3, <4>4, PartsFit, FeeType
    <3> QED
      BY <3>1, <3>2
  <2>2. fees[h] \in {0, FeeAmount(Reward[h], FeePercent)}
    BY DEF RecordedOnce
  <2> HIDE DEF paid
  <2> QED
    BY <1>1, <1>2, <2>1, <2>2, FeeType
<1>8. \A h \in Heights \ found : out[h] = 0
  <2> TAKE h \in Heights \ found
  <2>1. fees[h] = 0 /\ \A m \in Miners : dist[h][m] = 0
    BY <1>1 DEF RecordedOnce
  <2>2. SumOver(dist[h], Miners) = SumOver(dist[h], {})
    BY <1>1, <2>1, SumZeroOutside
  <2> QED
    BY <2>1, <2>2, SumEmpty
<1>9. SumOver(out, Heights) <= SumOver(Reward, found)
  <2> HIDE DEF out, found
  <2>1. SumOver(out, Heights) = SumOver(out, found)
    BY <1>1, <1>7, <1>8, SumZeroOutside
  <2>2. SumOver(out, found) <= SumOver(Reward, found)
    BY <1>1, <1>7, SumPointwise, FS_Subset
  <2> QED
    BY <2>1, <2>2
<1>10. SumOver(balance, Miners) + SumOver(fees, Heights) <= SumOver(Reward, found)
  <2> HIDE DEF paid, out, found
  <2>1. /\ SumOver(balance, Miners) \in Nat /\ SumOver(fees, Heights) \in Nat
        /\ SumOver(paid, Heights) \in Nat /\ SumOver(Reward, found) \in Nat
    BY <1>1, <1>2, SumType, FS_Subset
  <2> QED
    BY <1>4, <1>5, <1>6, <1>9, <2>1
<1>11. SumFunction(balance) = SumOver(balance, Miners) /\ SumFunction(fees) = SumOver(fees, Heights)
  BY SumFunctionIs DEF TypeInv, TypeOK
<1>12. SumFunctionOnSet(Reward, found) = SumOver(Reward, found)
  BY SumFunctionIs
<1>13. \A m \in Miners : balance[m] <= SumFunction([h \in Heights |-> dist[h][m]])
  BY <1>3, SumFunctionIs
<1> QED
  BY <1>10, <1>11, <1>12, <1>13 DEF NoOverpayment

-----------------------------------------------------------------------------
(* Theorems.                                                               *)

\* Rows, goroutines and the connection keep the shapes the code gives them; a run of
\* UpdatePendingBals has a list exactly while it works on one (see TypeOK).
THEOREM TypeCorrect == Spec => []TypeOK
<1>1. Init => TypeInv
  BY InitTypeInv
<1>2. TypeInv /\ [Next]_vars => TypeInv'
  BY StepTypeInv
<1>3. TypeInv => TypeOK
  BY DEF TypeInv
<1> QED
  BY <1>1, <1>2, <1>3, PTL DEF Spec

\* No transfer is stepped over unless a statement fails: by overlapping runs that
\* raise minHeight in any order, or by a crash between two marks
\* (see SavedHeightIsProcessed).
THEOREM NoTransferLost == Spec => []SavedHeightIsProcessed
<1>1. Init => TypeInv /\ TransferInv
  BY InitTypeInv, InitTransferInv
<1>2. TypeInv /\ TransferInv /\ [Next]_vars => (TypeInv /\ TransferInv)'
  BY StepTypeInv, StepTransferInv
<1>3. ASSUME TypeInv, TransferInv PROVE SavedHeightIsProcessed
  <2>1. \A h \in arrived : h \in Nat /\ saved \in Nat /\ minHeight \in Nat
    BY <1>3, HeightsType DEF TypeInv
  <2>2. \A h \in processed : blocks[h] = "completed"
    BY <1>3 DEF TransferInv, MarkedIsCompleted
  <2>3. ASSUME faults.errors = 0, NEW h \in arrived, h \notin processed
        PROVE  ~(h <= saved \/ h < minHeight)
    <3>1. h > saved /\ h >= minHeight
      BY <1>3, <2>3 DEF TransferInv, NothingSteppedOver
    <3> QED
      BY <2>1, <3>1
  <2> QED
    BY <2>2, <2>3 DEF SavedHeightIsProcessed
<1> QED
  BY <1>1, <1>2, <1>3, PTL DEF Spec

\* As long as no block is announced twice no coin is credited that was not earned,
\* also when two goroutines of different blocks read the same balance before
\* either writes it, and wherever a crash falls (see NoOverpayment).
THEOREM NothingOverpaid == ASSUME MaxPerHeight = 1 PROVE Spec => []NoOverpayment
<1>1. Init => TypeInv /\ PayInv
  BY InitTypeInv, InitPayInv
<1>2. TypeInv /\ PayInv /\ [Next]_vars => (TypeInv /\ PayInv)'
  BY StepTypeInv, StepOneFind, StepRecorded, StepCovered DEF PayInv
<1>3. TypeInv /\ PayInv => NoOverpayment
  BY CoveredIsPaid DEF PayInv
<1> QED
  BY <1>1, <1>2, <1>3, PTL DEF Spec
=============================================================================
