---------------------------- MODULE PplnsProofs ----------------------------
(***************************************************************************)
(* Proofs about Pplns for any shares, difficulties, bounds of the window,  *)
(* callers and failures: type correctness, the bounds of the window, what  *)
(* GetSharesForPPLNS selects, and that no stored height is left without    *)
(* processing.                                                             *)
(*                                                                         *)
(* What the window is tied to is where its callers are: InBounds holds of  *)
(* currentN from the clamp of a caller to its return, unless an adjustment *)
(* slips in between.  That needs every difficulty anybody has read to be   *)
(* one the network had.  A stored height is tied to what the Updater has   *)
(* started or is about to start; the copies the UpdateReward goroutines    *)
(* carry are, too.                                                         *)
(***************************************************************************)
EXTENDS Pplns, FiniteSetTheorems, WellFoundedInduction, TLAPS

-----------------------------------------------------------------------------
(* The invariants.                                                         *)

InBounds(n) == n >= Min(Difficulties) * MinWindow /\ n <= Max(Difficulties) * MaxWindow

\* Callers between their read of the difficulty and their return.
Clamping == {"test", "raise", "lower", "return"}

\* Every difficulty in use is one the network had, or 1.
DifficultiesKnown ==
    /\ info.difficulty \in Difficulties
    /\ \A c \in Callers : pc[c] \in Clamping => diff[c] \in Difficulties
    /\ \A r \in Rewards : rpc[r].pc = "read" => rpc[r].difficulty \in Difficulties

\* currentN lies within the bounds when a caller is about to return it.
ReturnsWithinBounds ==
    \A c \in Callers : pc[c] = "return" /\ c \notin slipped => InBounds(currentN)

WindowInv == DifficultiesKnown /\ ReturnsWithinBounds /\ WindowWithinBounds

\* Heights whose processing was started, will be by the Updater's next statement, or was
\* prevented by a crash; 0 is the empty row.
Started ==
    {0} \cup triggered \cup missed \cup (IF poll.pc = "start" THEN {poll.height} ELSE {})

\* Stored heights are started, and so are those an UpdateReward is about to write back.
HeightsStarted ==
    /\ info.height \in Started
    /\ \A r \in Rewards : rpc[r].pc = "read" => rpc[r].height \in Started

IInv == TypeOK /\ WindowInv /\ HeightsStarted

-----------------------------------------------------------------------------
(* Folds.                                                                  *)

\* Induction over the subsets of a finite set, for a set G of the good ones.
LEMMA FiniteInduction ==
    ASSUME NEW S, IsFiniteSet(S), NEW G,
           {} \in G,
           ASSUME NEW T \in SUBSET S, T # {}, \A x \in T : T \ {x} \in G
           PROVE  T \in G
    PROVE  S \in G
<1> DEFINE Bad == {T \in SUBSET S : T \notin G}
<1> SUFFICES ASSUME Bad # {} PROVE FALSE
  OBVIOUS
<1>1. Bad \subseteq FiniteSubsetsOf(S)
  BY FS_Subset DEF FiniteSubsetsOf
<1>2. PICK B \in Bad : \A y \in Bad : ~(<<y, B>> \in StrictSubsetOrdering(S))
  <2> HIDE DEF Bad
  <2> QED
    BY <1>1, FS_StrictSubsetOrderingWellFounded, WFMin
<1>3. \A x \in B : <<B \ {x}, B>> \in StrictSubsetOrdering(S)
  BY DEF StrictSubsetOrdering
<1>4. \A x \in B : B \ {x} \in G
  BY <1>2, <1>3
<1>5. B \in SUBSET S /\ B \notin G
  OBVIOUS
<1> QED
  BY <1>4, <1>5

\* Induction over the natural numbers, for a set G of the good ones.
LEMMA NumberInduction ==
    ASSUME NEW G, 0 \in G, \A n \in Nat : n \in G => n + 1 \in G
    PROVE  Nat \subseteq G
<1> DEFINE Bad == {n \in Nat : n \notin G}
<1> SUFFICES ASSUME Bad # {} PROVE FALSE
  OBVIOUS
<1>1. PICK b \in Bad : \A y \in Bad : ~(<<y, b>> \in OpToRel(<, Nat))
  <2> HIDE DEF Bad
  <2>1. Bad \subseteq Nat
    BY DEF Bad
  <2> QED BY <2>1, NatLessThanWellFounded, WFMin
<1>2. b - 1 \in Bad
  OBVIOUS
<1>3. <<b - 1, b>> \in OpToRel(<, Nat)
  BY <1>2 DEF OpToRel
<1> QED
  BY <1>1, <1>2, <1>3

\* A finite set of numbers has a least and a greatest member.
LEMMA MinMax ==
    ASSUME NEW S \in SUBSET Nat, IsFiniteSet(S), S # {}
    PROVE  /\ Min(S) \in S /\ \A x \in S : Min(S) <= x
           /\ Max(S) \in S /\ \A x \in S : x <= Max(S)
<1> DEFINE Least(T) == \E x \in T : \A y \in T : x <= y
           Greatest(T) == \E x \in T : \A y \in T : y <= x
           G == {T \in SUBSET S : T = {} \/ (Least(T) /\ Greatest(T))}
<1>1. {} \in G
  OBVIOUS
<1>2. ASSUME NEW T \in SUBSET S, T # {}, \A x \in T : T \ {x} \in G
      PROVE  T \in G
  <2>1. PICK x : x \in T
    BY <1>2
  <2>2. CASE T \ {x} = {}
    BY <2>1, <2>2
  <2>3. CASE T \ {x} # {}
    <3>1. PICK l \in T \ {x} : \A y \in T \ {x} : l <= y
      BY <1>2, <2>1, <2>3
    <3>2. PICK g \in T \ {x} : \A y \in T \ {x} : y <= g
      BY <1>2, <2>1, <2>3
    <3>3. Least(T)
      BY <2>1, <3>1
    <3>4. Greatest(T)
      BY <2>1, <3>2
    <3> QED
      BY <3>3, <3>4
  <2> QED
    BY <2>2, <2>3
<1>3. S \in G
  <2> HIDE DEF G
  <2> QED
    BY <1>1, <1>2, FiniteInduction
<1> QED
  BY <1>3 DEF Min, Max

\* A finite set can be folded if every step stays within the values V.
CanFold(S, V, base, pick, step) ==
    /\ IsFiniteSet(S) /\ base \in V
    /\ \A s \in SUBSET S : s # {} => pick[s] \in s
    /\ \A x \in S : \A v \in V : step[x][v] \in V

\* g folds the sets of D: pick says which member is taken out, step what is done with it.
FoldsWith(D, V, base, pick, step, g) ==
    /\ g \in [D -> V]
    /\ \A s \in D : g[s] = IF s = {} THEN base ELSE step[pick[s]][g[s \ {pick[s]}]]

\* Then a folding function exists.
LEMMA FoldTyped ==
    ASSUME NEW S, NEW V, NEW base, NEW pick, NEW step, CanFold(S, V, base, pick, step)
    PROVE  \E g : FoldsWith(SUBSET S, V, base, pick, step, g)
<1> USE DEF CanFold
<1> DEFINE Small(n) == {s \in SUBSET S : Cardinality(s) <= n}
           G == {n \in Nat : \E g : FoldsWith(Small(n), V, base, pick, step, g)}
<1>1. \A s \in SUBSET S : IsFiniteSet(s) /\ Cardinality(s) \in Nat
  BY FS_Subset, FS_CardinalityType
<1>2. 0 \in G
  <2> DEFINE g == [s \in Small(0) |-> base]
  <2>1. \A s \in Small(0) : s = {}
    BY <1>1, FS_EmptySet
  <2>2. FoldsWith(Small(0), V, base, pick, step, g)
    BY <2>1 DEF FoldsWith
  <2> HIDE DEF g
  <2> QED
    BY <2>2
<1>3. ASSUME NEW n \in Nat, n \in G
      PROVE  n + 1 \in G
  <2>1. PICK g : FoldsWith(Small(n), V, base, pick, step, g)
    BY <1>3
  <2> DEFINE h == [s \in Small(n+1) |->
                      IF s = {} THEN base ELSE step[pick[s]][g[s \ {pick[s]}]]]
  <2>2. \A s \in Small(n+1) : s # {} => pick[s] \in S /\ s \ {pick[s]} \in Small(n)
    <3> SUFFICES ASSUME NEW s \in Small(n+1), s # {}
                 PROVE  pick[s] \in S /\ s \ {pick[s]} \in Small(n)
      OBVIOUS
    <3>1. pick[s] \in s
      OBVIOUS
    <3> QED
      BY <3>1, <1>1, FS_RemoveElement
  <2>3. \A s \in Small(n) : s \in Small(n+1)
    BY <1>1
  <2>4. \A s \in Small(n) : g[s] = h[s]
    BY <2>1, <2>3 DEF FoldsWith
  <2>5. h \in [Small(n+1) -> V]
    BY <2>1, <2>2 DEF FoldsWith
  <2>6. \A s \in Small(n+1) : h[s] = IF s = {} THEN base ELSE step[pick[s]][h[s \ {pick[s]}]]
    BY <2>2, <2>3, <2>4
  <2> HIDE DEF h
  <2>7. FoldsWith(Small(n+1), V, base, pick, step, h)
    BY <2>5, <2>6 DEF FoldsWith
  <2> QED
    BY <2>7
<1>4. Cardinality(S) \in G
  <2> HIDE DEF G
  <2> QED
    BY <1>1, <1>2, <1>3, NumberInduction
<1>5. PICK g : FoldsWith(Small(Cardinality(S)), V, base, pick, step, g)
  BY <1>4
<1>6. Small(Cardinality(S)) = SUBSET S
  BY FS_Subset
<1>7. FoldsWith(SUBSET S, V, base, pick, step, g)
  <2> HIDE DEF Small
  <2> QED
    BY <1>5, <1>6
<1> QED
  BY <1>7

\* A part of an interval is finite, and has a least and a largest number.
LEMMA PartOfInterval ==
    ASSUME NEW n \in Nat, NEW s \in SUBSET (1..n)
    PROVE  /\ IsFiniteSet(s) /\ s \subseteq Nat
           /\ s # {} => /\ Min(s) \in s /\ \A x \in s : Min(s) <= x
                        /\ Max(s) \in s /\ \A x \in s : x <= Max(s)
<1>1. IsFiniteSet(1..n) /\ 1..n \subseteq Nat
  BY FS_Interval
<1>2. IsFiniteSet(s) /\ s \in SUBSET Nat
  BY <1>1, FS_Subset
<1> QED
  BY <1>2, MinMax

\* The difficulty of shares of the table is a number.
LEMMA SumSharesTyped ==
    ASSUME NEW S \in SUBSET (1..Len(ShareDiffs))
    PROVE  SumShares(S) \in Nat
<1> DEFINE pick == [s \in SUBSET S |-> CHOOSE x \in s : TRUE]
           step == [x \in S |-> [v \in Nat |-> ShareDiffs[x] + v]]
           Folds(g) == g = [s \in SUBSET S |->
                              IF s = {} THEN 0
                              ELSE ShareDiffs[CHOOSE x \in s : TRUE] + g[s \ {CHOOSE x \in s : TRUE}]]
           h == CHOOSE g : Folds(g)
<1>1. IsFiniteSet(S) /\ \A x \in S : ShareDiffs[x] \in Nat
  <2>1. ShareDiffs \in Seq(Nat)
    BY PplnsAssumption
  <2>2. Len(ShareDiffs) \in Nat /\ \A x \in 1..Len(ShareDiffs) : ShareDiffs[x] \in Nat
    BY <2>1
  <2>3. IsFiniteSet(S)
    BY <2>2, PartOfInterval
  <2> QED
    BY <2>2, <2>3
<1>2. CanFold(S, Nat, 0, pick, step)
  BY <1>1 DEF CanFold
<1>3. PICK g : FoldsWith(SUBSET S, Nat, 0, pick, step, g)
  <2> HIDE DEF pick, step
  <2> QED
    BY <1>2, FoldTyped
<1>4. \A s \in SUBSET S : g[s] = IF s = {} THEN 0
          ELSE ShareDiffs[CHOOSE x \in s : TRUE] + g[s \ {CHOOSE x \in s : TRUE}]
  BY <1>2, <1>3 DEF CanFold, FoldsWith
<1>5. Folds(g)
  BY <1>3, <1>4 DEF FoldsWith
<1>6. SumShares(S) = h[S]
  BY DEF SumShares, MapThenSumSet, MapThenFoldSet
<1>7. Folds(h)
  BY <1>5
<1> HIDE DEF h
<1> DEFINE G == {T \in SUBSET S : h[T] \in Nat}
<1>8. {} \in G
  BY <1>7
<1>9. ASSUME NEW T \in SUBSET S, T # {}, \A x \in T : T \ {x} \in G
      PROVE  T \in G
  <2>1. PICK x \in T : x = CHOOSE y \in T : TRUE
    BY <1>9
  <2>2. h[T] = ShareDiffs[x] + h[T \ {x}]
    BY <1>7, <1>9, <2>1
  <2>3. h[T \ {x}] \in Nat /\ ShareDiffs[x] \in Nat
    BY <1>1, <1>9
  <2> QED
    BY <2>2, <2>3
<1>10. S \in G
  <2> HIDE DEF G
  <2> QED
    BY <1>1, <1>8, <1>9, FiniteInduction
<1> QED
  BY <1>6, <1>10

\* The sum of a sequence of numbers is one.
LEMMA FoldLeftTyped ==
    ASSUME NEW q \in Seq(Nat)
    PROVE  FoldLeft(+, 0, q) \in Nat
<1> DEFINE S == DOMAIN q
           pick == [s \in SUBSET S |-> Max(s)]
           step == [x \in S |-> [v \in Nat |-> v + q[x]]]
           Folds(g) == g = [s \in SUBSET S |->
                              IF s = {} THEN 0 ELSE g[s \ {Max(s)}] + q[Max(s)]]
           h == CHOOSE g : Folds(g)
<1>1. S = 1..Len(q) /\ Len(q) \in Nat /\ \A x \in S : q[x] \in Nat
  OBVIOUS
<1>2. IsFiniteSet(S) /\ \A s \in SUBSET S : s # {} => Max(s) \in s
  BY <1>1, PartOfInterval
<1>3. FoldLeft(+, 0, q) = h[S]
  BY DEF FoldLeft, MapThenFoldSet
<1> HIDE DEF S
<1>4. CanFold(S, Nat, 0, pick, step)
  BY <1>1, <1>2 DEF CanFold
<1>5. PICK g : FoldsWith(SUBSET S, Nat, 0, pick, step, g)
  <2> HIDE DEF pick, step
  <2> QED
    BY <1>4, FoldTyped
<1>6. \A s \in SUBSET S : g[s] = IF s = {} THEN 0 ELSE g[s \ {Max(s)}] + q[Max(s)]
  BY <1>4, <1>5 DEF CanFold, FoldsWith
<1>7. Folds(g)
  BY <1>5, <1>6 DEF FoldsWith
<1>8. Folds(h)
  BY <1>7
<1> HIDE DEF h
<1> DEFINE G == {T \in SUBSET S : h[T] \in Nat}
<1>9. {} \in G
  BY <1>8
<1>10. ASSUME NEW T \in SUBSET S, T # {}, \A x \in T : T \ {x} \in G
       PROVE  T \in G
  <2>1. Max(T) \in T
    BY <1>2, <1>10
  <2>2. h[T] = h[T \ {Max(T)}] + q[Max(T)]
    BY <1>8, <1>10
  <2>3. h[T \ {Max(T)}] \in Nat /\ q[Max(T)] \in Nat
    BY <1>1, <1>10, <2>1
  <2> QED
    BY <2>2, <2>3
<1>11. S \in G
  <2> HIDE DEF G
  <2> QED
    BY <1>2, <1>9, <1>10, FiniteInduction
<1> QED
  BY <1>3, <1>11

-----------------------------------------------------------------------------
(* GetSharesForPPLNS.                                                      *)

\* What the loop does with one share.
Take(w, i, acc) == IF acc # {} /\ SumShares(acc) >= w THEN acc ELSE acc \cup {i}

\* h folds Take over sets of positions, the largest position first.
Selects(n, w, h) ==
    h = [s \in SUBSET (1..n) |->
           IF s = {} THEN {} ELSE Take(w, (n - Min(s)) + 1, h[s \ {Min(s)}])]

\* The selection is a fold of Take over the positions of the shares, the last of which
\* is that of the oldest.
LEMMA SelectionFolds ==
    ASSUME NEW n \in Nat, NEW w
    PROVE  \E h : PplnsShares(n, w) = h[1..n] /\ Selects(n, w, h)
<1> DEFINE S == 1..n
           a == [i \in 1..n |-> (n - i) + 1]
           V == SUBSET S
           pick == [s \in SUBSET S |-> Min(s)]
           step == [x \in S |-> [v \in V |-> Take(w, a[x], v)]]
           Folds(g) == g = [s \in SUBSET S |->
                              IF s = {} THEN {} ELSE Take(w, a[Min(s)], g[s \ {Min(s)}])]
           h == CHOOSE g : Folds(g)
<1>1. Reverse([i \in 1..n |-> i]) = a
  BY DEF Reverse
<1>2. PplnsShares(n, w) = h[S]
  <2>1. PplnsShares(n, w) = FoldRight(LAMBDA i, acc : Take(w, i, acc), a, {})
    BY <1>1 DEF PplnsShares, Take
  <2>2. DOMAIN a = S
    OBVIOUS
  <2> HIDE DEF a
  <2> QED
    BY <2>1, <2>2 DEF FoldRight, MapThenFoldSet
<1>3. \A x \in S : a[x] \in S /\ a[x] = (n - x) + 1
  OBVIOUS
<1>4. IsFiniteSet(S) /\ \A s \in SUBSET S : s # {} => Min(s) \in s
  BY PartOfInterval
<1> HIDE DEF a, S
<1>5. CanFold(S, V, {}, pick, step)
  <2>1. \A x \in S : \A v \in V : Take(w, a[x], v) \in V
    BY <1>3 DEF Take
  <2> QED
    BY <1>4, <2>1 DEF CanFold
<1>6. PICK g : FoldsWith(SUBSET S, V, {}, pick, step, g)
  <2> HIDE DEF pick, step, V
  <2> QED
    BY <1>5, FoldTyped
<1>7. \A s \in SUBSET S : g[s] = IF s = {} THEN {} ELSE Take(w, a[Min(s)], g[s \ {Min(s)}])
  BY <1>4, <1>5, <1>6 DEF CanFold, FoldsWith
<1>8. Folds(g)
  BY <1>6, <1>7 DEF FoldsWith
<1>9. Folds(h)
  BY <1>8
<1> HIDE DEF h
<1>10. h = [s \in SUBSET S |->
             IF s = {} THEN {} ELSE Take(w, (n - Min(s)) + 1, h[s \ {Min(s)}])]
  BY <1>3, <1>4, <1>9
<1>11. PplnsShares(n, w) = h[1..n] /\ Selects(n, w, h)
  BY <1>2, <1>10 DEF S, Selects
<1> QED
  BY <1>11

\* Shares at the positions T.
At(n, T) == {(n - i) + 1 : i \in T}

\* A selection A from the shares at the positions T fills the window or takes them all,
\* and takes no more than needed.
Fills(n, w, T, A) ==
    /\ A \subseteq At(n, T)
    /\ A = {} => T = {}
    /\ SumShares(A) >= w \/ A = At(n, T)
    /\ T # {} => Cardinality(A) = 1 \/ \E i \in A : SumShares(A \ {i}) < w

\* One more share.
LEMMA TakeFills ==
    ASSUME NEW n \in 0..Len(ShareDiffs), NEW w \in Nat, NEW T \in SUBSET (1..n), NEW m \in T,
           NEW A, Fills(n, w, T \ {m}, A)
    PROVE  Fills(n, w, T, Take(w, (n - m) + 1, A))
<1> DEFINE i == (n - m) + 1
<1>1. Len(ShareDiffs) \in Nat /\ n \in Nat /\ n <= Len(ShareDiffs)
  BY PplnsAssumption
<1>2. /\ At(n, T) = At(n, T \ {m}) \cup {i}
      /\ At(n, T \ {m}) \subseteq 1..n
      /\ i \notin At(n, T \ {m}) /\ i \in 1..n
  BY <1>1 DEF At
<1>3. A \subseteq At(n, T \ {m}) /\ A \in SUBSET (1..Len(ShareDiffs))
  <2>1. A \subseteq At(n, T \ {m})
    BY DEF Fills
  <2>2. 1..n \subseteq 1..Len(ShareDiffs)
    BY <1>1
  <2> QED
    BY <1>2, <2>1, <2>2
<1>4. SumShares(A) \in Nat
  BY <1>3, SumSharesTyped
<1>5. i \notin A /\ (A \cup {i}) \ {i} = A
  BY <1>2, <1>3
<1> HIDE DEF i
<1>6. CASE A # {} /\ SumShares(A) >= w
  <2>1. Take(w, i, A) = A
    BY <1>6 DEF Take
  <2>2. T \ {m} # {}
    BY <1>3, <1>6 DEF At
  <2>3. Cardinality(A) = 1 \/ \E j \in A : SumShares(A \ {j}) < w
    BY <2>2 DEF Fills
  <2>4. Fills(n, w, T, A)
    BY <1>2, <1>3, <1>6, <2>3 DEF Fills
  <2> QED
    BY <2>1, <2>4 DEF i
<1>7. CASE ~(A # {} /\ SumShares(A) >= w)
  <2>1. Take(w, i, A) = A \cup {i}
    BY <1>7 DEF Take
  <2>2. A = At(n, T \ {m})
    <3>1. CASE A = {}
      <4>1. T \ {m} = {}
        BY <3>1 DEF Fills
      <4> QED
        BY <3>1, <4>1 DEF At
    <3>2. CASE A # {}
      BY <1>4, <1>7, <3>2 DEF Fills
    <3> QED
      BY <3>1, <3>2
  <2>3. A \cup {i} = At(n, T)
    BY <1>2, <2>2
  <2>4. Cardinality(A \cup {i}) = 1 \/ \E j \in A \cup {i} : SumShares((A \cup {i}) \ {j}) < w
    <3>1. CASE A = {}
      BY <3>1, FS_Singleton
    <3>2. CASE A # {}
      <4>1. SumShares(A) < w
        BY <1>4, <1>7, <3>2
      <4> QED
        BY <1>5, <4>1
    <3> QED
      BY <3>1, <3>2
  <2>5. Fills(n, w, T, A \cup {i})
    BY <2>3, <2>4 DEF Fills
  <2> QED
    BY <2>1, <2>5 DEF i
<1> QED
  BY <1>6, <1>7

\* What GetSharesForPPLNS selects from any table, for any window.
LEMMA SelectionFills ==
    ASSUME NEW n \in 0..Len(ShareDiffs), NEW w \in Nat
    PROVE  Fills(n, w, 1..n, PplnsShares(n, w)) /\ At(n, 1..n) = 1..n
<1>1. n \in Nat
  BY PplnsAssumption
<1>2. PICK h : PplnsShares(n, w) = h[1..n] /\ Selects(n, w, h)
  BY <1>1, SelectionFolds
<1> DEFINE G == {T \in SUBSET (1..n) : Fills(n, w, T, h[T])}
<1>3. {} \in G
  <2>1. h[{}] = {} /\ At(n, {}) = {}
    BY <1>2 DEF At, Selects
  <2> QED
    BY <2>1 DEF Fills
<1>4. ASSUME NEW T \in SUBSET (1..n), T # {}, \A x \in T : T \ {x} \in G
      PROVE  T \in G
  <2>1. Min(T) \in T
    BY <1>1, <1>4, PartOfInterval
  <2>2. Fills(n, w, T \ {Min(T)}, h[T \ {Min(T)}])
    BY <1>4, <2>1
  <2>3. h[T] = Take(w, (n - Min(T)) + 1, h[T \ {Min(T)}])
    BY <1>2, <1>4 DEF Selects
  <2>4. Fills(n, w, T, h[T])
    BY <2>1, <2>2, <2>3, TakeFills
  <2> QED
    BY <2>4
<1>5. 1..n \in G
  <2>1. IsFiniteSet(1..n)
    BY <1>1, PartOfInterval
  <2> HIDE DEF G
  <2> QED
    BY <1>3, <1>4, <2>1, FiniteInduction
<1>6. At(n, 1..n) = 1..n
  <2>1. \A i \in 1..n : (n - i) + 1 \in 1..n /\ (n - ((n - i) + 1)) + 1 = i
    BY <1>1
  <2> QED
    BY <2>1 DEF At
<1> QED
  BY <1>2, <1>5, <1>6

-----------------------------------------------------------------------------
(* Numbers.                                                                *)

\* The constants, as the provers need them.
LEMMA ConstantsTyped ==
    /\ Len(ShareDiffs) \in Nat
    /\ MinWindow \in Nat /\ MaxWindow \in Nat /\ MinWindow <= MaxWindow
    /\ TargetShares \in Nat /\ LuckFactor \in Nat /\ MaxFaults \in Nat
    /\ History \in Nat \ {0} /\ Scale \in Nat \ {0} /\ Infinite \in Nat \ {0} /\ Huge \in Nat \ {0}
    /\ Heights \subseteq Nat /\ 0 \in Heights
    /\ \A h \in Heights : Difficulty[h + 1] \in Nat \ {0} /\ Difficulty[h + 1] \in Difficulties
<1>1. Len(ShareDiffs) \in Nat
  BY PplnsAssumption
<1>2. /\ Difficulty \in Seq(Nat \ {0}) /\ Len(Difficulty) \in Nat /\ Len(Difficulty) # 0
      /\ DOMAIN Difficulty = 1..Len(Difficulty)
  BY PplnsAssumption
<1>3. Heights \subseteq Nat /\ 0 \in Heights /\ \A h \in Heights : h + 1 \in 1..Len(Difficulty)
  BY <1>2 DEF Heights
<1>4. \A h \in Heights : Difficulty[h + 1] \in Nat \ {0} /\ Difficulty[h + 1] \in Difficulties
  BY <1>2, <1>3 DEF Difficulties, Range
<1> QED
  BY <1>1, <1>3, <1>4, PplnsAssumption

\* The network's difficulties are numbers, finitely many, and 1 is taken for one of them.
LEMMA DifficultiesTyped ==
    /\ Difficulties \subseteq Nat /\ 1 \in Difficulties
    /\ Min(Difficulties) \in Nat /\ Max(Difficulties) \in Nat
    /\ \A d \in Difficulties : Min(Difficulties) <= d /\ d <= Max(Difficulties)
<1>1. /\ Difficulty \in Seq(Nat \ {0}) /\ Len(Difficulty) \in Nat
      /\ DOMAIN Difficulty = 1..Len(Difficulty)
  BY PplnsAssumption
<1>2. Range(Difficulty) \subseteq Nat
  BY <1>1 DEF Range
<1>3. IsFiniteSet(Range(Difficulty))
  <2>1. IsFiniteSet(DOMAIN Difficulty)
    BY <1>1, FS_Interval
  <2>2. Difficulty \in Surjection(DOMAIN Difficulty, Range(Difficulty))
    BY <1>1 DEF Surjection, Range
  <2> QED
    BY <2>1, <2>2, FS_Surjection
<1>4. IsFiniteSet(Difficulties) /\ Difficulties \in SUBSET Nat /\ 1 \in Difficulties
  <2>1. Difficulties = Range(Difficulty) \cup {1}
    BY DEF Difficulties
  <2> QED
    BY <1>2, <1>3, <2>1, FS_AddElement
<1> QED
  BY <1>4, MinMax

\* Multiplication respects the order.
LEMMA TimesMonotone ==
    ASSUME NEW a \in Nat, NEW b \in Nat, NEW m \in Nat, a <= b
    PROVE  a * m <= b * m /\ m * a <= m * b
<1>1. PICK k \in Nat : b = a + k
  <2>1. b - a \in Nat /\ b = a + (b - a)
    OBVIOUS
  <2> QED
    BY <2>1
<1>2. (a + k) * m = a * m + k * m /\ m * (a + k) = m * a + m * k
  OBVIOUS
<1>3. a * m \in Nat /\ k * m \in Nat /\ m * a \in Nat /\ m * k \in Nat
  OBVIOUS
<1> QED
  BY <1>1, <1>2, <1>3

\* Division of natural numbers.
LEMMA DivTyped ==
    ASSUME NEW a \in Nat, NEW b \in Nat \ {0}
    PROVE  a \div b \in Nat
OBVIOUS

\* The clamp of one caller leaves a number within the bounds of all difficulties.
LEMMA ClampInBounds ==
    ASSUME NEW d \in Difficulties
    PROVE  /\ d \in Nat /\ d * MinWindow \in Nat /\ d * MaxWindow \in Nat
           /\ \A n \in Nat : d * MinWindow <= n /\ n <= d * MaxWindow => InBounds(n)
           /\ InBounds(d * MinWindow) /\ InBounds(d * MaxWindow)
<1> DEFINE lo == Min(Difficulties)
           hi == Max(Difficulties)
<1>1. /\ d \in Nat /\ lo \in Nat /\ hi \in Nat /\ lo <= d /\ d <= hi
      /\ MinWindow \in Nat /\ MaxWindow \in Nat /\ MinWindow <= MaxWindow
  BY DifficultiesTyped, ConstantsTyped
<1> HIDE DEF lo, hi
<1>2. lo * MinWindow <= d * MinWindow /\ d * MaxWindow <= hi * MaxWindow
      /\ d * MinWindow <= d * MaxWindow
  BY <1>1, TimesMonotone
<1>3. /\ lo * MinWindow \in Nat /\ d * MinWindow \in Nat
      /\ d * MaxWindow \in Nat /\ hi * MaxWindow \in Nat
  BY <1>1
<1> DEFINE a == lo * MinWindow
           b == d * MinWindow
           c == d * MaxWindow
           e == hi * MaxWindow
<1>4. /\ a <= b /\ b <= c /\ c <= e /\ a \in Nat /\ b \in Nat /\ c \in Nat /\ e \in Nat
  BY <1>2, <1>3
<1>5. \A n : InBounds(n) <=> n >= a /\ n <= e
  BY DEF InBounds, lo, hi
<1> HIDE DEF a, b, c, e
<1>6. (\A n \in Nat : b <= n /\ n <= c => InBounds(n)) /\ InBounds(b) /\ InBounds(c)
  BY <1>4, <1>5
<1> QED
  BY <1>1, <1>3, <1>6 DEF b, c

\* A luck and an average of lucks are numbers.
LEMMA LuckTyped ==
    /\ \A expected, round \in Nat : Luck(expected, round) \in Nat
    /\ \A q \in Seq(Nat) : q # <<>> => Average(q) \in Nat
<1>1. ASSUME NEW expected \in Nat, NEW round \in Nat PROVE Luck(expected, round) \in Nat
  <2>1. expected * Scale \in Nat /\ Infinite \in Nat
    BY ConstantsTyped
  <2>2. round # 0 => (expected * Scale) \div round \in Nat
    BY <2>1, DivTyped
  <2> QED
    BY <2>1, <2>2 DEF Luck
<1>2. ASSUME NEW q \in Seq(Nat), q # <<>> PROVE Average(q) \in Nat
  <2>1. Len(q) \in Nat \ {0}
    BY <1>2
  <2>2. FoldLeft(+, 0, q) \in Nat
    BY FoldLeftTyped
  <2>3. FoldLeft(+, 0, q) \div Len(q) \in Nat
    BY <2>1, <2>2, DivTyped
  <2> QED
    BY <2>3, ConstantsTyped DEF Average
<1> QED
  BY <1>1, <1>2

\* The adjustment by luck leaves a number, at worst 0 or Huge.
LEMMA AdjustedTyped ==
    ASSUME NEW n \in Nat, NEW avg \in Nat
    PROVE  Adjusted(n, avg) \subseteq Nat
<1> DEFINE product == n * (Scale * Scale + (Scale - avg) * LuckFactor)
<1>1. /\ Scale \in Nat \ {0} /\ LuckFactor \in Nat /\ Huge \in Nat
  BY ConstantsTyped
<1>2. Scale * Scale \in Nat /\ Scale * Scale # 0
  BY <1>1
<1>3. product \in Int
  <2>1. (Scale - avg) * LuckFactor \in Int
    BY <1>1
  <2> QED
    BY <1>2, <2>1
<1> DEFINE unit == Scale * Scale
<1>4. /\ unit \in Nat \ {0}
      /\ Adjusted(n, avg) = IF avg = Infinite THEN {0, Huge}
                            ELSE IF product >= 0 THEN {product \div unit}
                            ELSE IF -product < unit THEN {0}
                            ELSE {0, Huge}
  BY <1>2 DEF Adjusted
<1> HIDE DEF product, unit
<1>5. product >= 0 => product \div unit \in Nat
  BY <1>3, <1>4, DivTyped
<1> QED
  BY <1>1, <1>4, <1>5

\* GetRoundShares: the start of a round, and the difficulty of the shares after it, are
\* numbers.
LEMMA RoundTyped ==
    ASSUME TypeOK
    PROVE  /\ RoundStart \in Nat
           /\ \A t \in Nat : SumShares((t + 1)..shares) \in Nat
<1> DEFINE completed == {block[f].t : f \in {g \in Callers : block[g].status = "completed"}}
           C == {0} \cup completed
<1>1. Len(ShareDiffs) \in Nat /\ shares \in 0..Len(ShareDiffs)
  BY ConstantsTyped DEF TypeOK
<1>2. C \subseteq 0..Len(ShareDiffs) /\ 0 \in C
  <2>1. \A f \in Callers : block[f].t \in 0..Len(ShareDiffs)
    BY DEF TypeOK
  <2> QED
    BY <1>1, <2>1
<1>3. IsFiniteSet(C) /\ C \in SUBSET Nat
  <2>1. IsFiniteSet(0..Len(ShareDiffs)) /\ 0..Len(ShareDiffs) \subseteq Nat
    BY <1>1, FS_Interval
  <2> HIDE DEF C
  <2> QED
    BY <1>2, <2>1, FS_Subset
<1>4. RoundStart = Max(C)
  BY DEF RoundStart
<1> HIDE DEF C
<1>5. Max(C) \in Nat
  BY <1>2, <1>3, MinMax
<1>6. ASSUME NEW t \in Nat PROVE SumShares((t + 1)..shares) \in Nat
  <2>1. (t + 1)..shares \in SUBSET (1..Len(ShareDiffs))
    BY <1>1
  <2> QED
    BY <2>1, SumSharesTyped
<1> QED
  BY <1>4, <1>5, <1>6

-----------------------------------------------------------------------------
(* Types.                                                                  *)

\* Where a caller may be, and a row of blocks_found.
Places == {"none", "ask", "test", "raise", "lower", "return", "shares",
           "credit", "round", "sum", "luck", "adjust", "done"}

BlockRow == [t: 0..Len(ShareDiffs), status: {"absent", "pending", "completed"}]

\* The types of the window's part, one by one.
LEMMA WindowTypes ==
    ASSUME TypeOK
    PROVE  /\ pc \in [Callers -> Places] /\ block \in [Callers -> BlockRow]
           /\ diff \in [Callers -> Nat] /\ window \in [Callers -> Nat]
           /\ luck \in [Callers -> Nat]
           /\ picked \in [Callers -> SUBSET (1..Len(ShareDiffs))]
           /\ info.difficulty \in Nat
           /\ faults \in [errors: Nat, crashes: Nat]
BY DEF TypeOK, Places, BlockRow

\* A caller goes on.
LEMMA PlaceTyped ==
    ASSUME TypeOK, NEW c \in Callers, NEW p \in Places, pc' = [pc EXCEPT ![c] = p]
    PROVE  pc' \in [Callers -> Places]
BY WindowTypes

\* Counted failures.
LEMMA FaultsTyped ==
    ASSUME TypeOK
    PROVE  /\ Error => faults' \in [errors: Nat, crashes: Nat]
           /\ [faults EXCEPT !.crashes = faults.crashes + 1] \in [errors: Nat, crashes: Nat]
<1>1. faults \in [errors: Nat, crashes: Nat]
  BY WindowTypes
<1> QED
  BY <1>1 DEF Error

\* The initial state.
LEMMA InitIInv == Init => IInv
<1> SUFFICES ASSUME Init PROVE IInv
  OBVIOUS
<1>1. TypeOK
  BY ConstantsTyped DEF Init, TypeOK, NoRpc
<1>2. WindowInv
  BY DifficultiesTyped
     DEF Init, WindowInv, DifficultiesKnown, ReturnsWithinBounds, WindowWithinBounds, Clamping, NoRpc
<1>3. HeightsStarted
  BY DEF Init, HeightsStarted, Started, NoRpc
<1> QED
  BY <1>1, <1>2, <1>3 DEF IInv

\* GetPPLNSWindow keeps the types.
LEMMA GetWindowTypes ==
    ASSUME TypeOK, NEW c \in Callers,
           BlockFound(c) \/ ApiCall(c) \/ AskDifficulty(c) \/ TestWindow(c) \/ ReturnWindow(c)
    PROVE  TypeOK'
<1> USE DEF infoVars, Goto
<1>1. CASE BlockFound(c)
  BY <1>1 DEF TypeOK, BlockFound
<1>2. CASE ApiCall(c)
  BY <1>2 DEF TypeOK, ApiCall
<1>3. CASE AskDifficulty(c)
  <2>1. faults' \in [errors: Nat, crashes: Nat]
    BY <1>3, FaultsTyped DEF AskDifficulty, TypeOK
  <2>2. diff' \in [Callers -> Nat]
    <3>1. diff' = [diff EXCEPT ![c] = info.difficulty] \/ diff' = [diff EXCEPT ![c] = 1]
      BY <1>3 DEF AskDifficulty
    <3>2. diff \in [Callers -> Nat] /\ info.difficulty \in Nat
      BY WindowTypes
    <3> QED
      BY <3>1, <3>2
  <2> QED
    BY <1>3, <2>1, <2>2 DEF TypeOK, AskDifficulty
<1>4. CASE TestWindow(c)
  <2>1. PICK p \in {"raise", "lower", "return"} : pc' = [pc EXCEPT ![c] = p]
    BY <1>4 DEF TestWindow
  <2>2. p \in Places
    BY DEF Places
  <2>3. pc' \in [Callers -> Places]
    BY <2>1, <2>2, PlaceTyped
  <2> QED
    BY <1>4, <2>3 DEF TypeOK, TestWindow, Places
<1>5. CASE ReturnWindow(c)
  <2>1. PICK p \in {"done", "shares"} : pc' = [pc EXCEPT ![c] = p]
    BY <1>5 DEF ReturnWindow
  <2>2. p \in Places
    BY DEF Places
  <2>3. pc' \in [Callers -> Places]
    BY <2>1, <2>2, PlaceTyped
  <2>4. window' \in [Callers -> Nat]
    <3>1. window' = window \/ window' = [window EXCEPT ![c] = currentN]
      BY <1>5 DEF ReturnWindow
    <3>2. window \in [Callers -> Nat] /\ currentN \in Nat
      BY DEF TypeOK
    <3> QED
      BY <3>1, <3>2
  <2>5. diff' \in [Callers -> Nat] /\ slipped' \subseteq Callers
    BY <1>5 DEF ReturnWindow, TypeOK
  <2> QED
    BY <1>5, <2>3, <2>4, <2>5 DEF TypeOK, ReturnWindow, Places
<1> QED
  BY <1>1, <1>2, <1>3, <1>4, <1>5

\* The clamp does, if the difficulty is a known one.
LEMMA ClampTypes ==
    ASSUME TypeOK, NEW c \in Callers, ClampWindow(c)
    PROVE  TypeOK'
<1>1. diff[c] \in Nat /\ MinWindow \in Nat /\ MaxWindow \in Nat
  BY ConstantsTyped DEF TypeOK
<1>2. currentN' \in Nat
  BY <1>1 DEF ClampWindow
<1> QED
  BY <1>2 DEF TypeOK, ClampWindow, infoVars

\* The goroutine of a found block does.
LEMMA DistributeTypes ==
    ASSUME TypeOK, NEW f \in Callers, Distribute(f)
    PROVE  TypeOK'
<1> USE DEF infoVars, Goto
<1>1. CASE PickShares(f)
  <2>1. shares \in 0..Len(ShareDiffs) /\ window[f] \in Nat /\ Len(ShareDiffs) \in Nat
    BY ConstantsTyped DEF TypeOK
  <2>2. PplnsShares(shares, window[f]) \in SUBSET (1..Len(ShareDiffs))
    <3>1. PplnsShares(shares, window[f]) \subseteq 1..shares
      BY <2>1, SelectionFills DEF Fills
    <3>2. 1..shares \subseteq 1..Len(ShareDiffs)
      BY <2>1
    <3> QED
      BY <3>1, <3>2
  <2>3. faults' \in [errors: Nat, crashes: Nat]
    BY <1>1, FaultsTyped DEF PickShares, TypeOK
  <2>4. picked' \in [Callers -> SUBSET (1..Len(ShareDiffs))]
    <3>1. picked' = picked \/ picked' = [picked EXCEPT ![f] = PplnsShares(shares, window[f])]
      BY <1>1 DEF PickShares
    <3> QED
      BY <2>2, <3>1, WindowTypes
  <2>5. window' \in [Callers -> Nat]
    <3>1. window' = window \/ window' = [window EXCEPT ![f] = 0]
      BY <1>1 DEF PickShares
    <3> QED
      BY <3>1, WindowTypes
  <2>6. pc' \in [Callers -> Places]
    <3>1. PICK p \in {"credit", "done"} : pc' = [pc EXCEPT ![f] = p]
      BY <1>1 DEF PickShares
    <3>2. p \in Places
      BY DEF Places
    <3> QED
      BY <3>1, <3>2, PlaceTyped
  <2> QED
    BY <1>1, <2>3, <2>4, <2>5, <2>6 DEF TypeOK, PickShares, Places
<1>2. CASE MarkBlockProcessed(f)
  <2>1. faults' \in [errors: Nat, crashes: Nat]
    BY <1>2, FaultsTyped DEF MarkBlockProcessed, TypeOK
  <2>2. block' \in [Callers -> BlockRow]
    <3>1. block' = block \/ block' = [block EXCEPT ![f].status = "completed"]
      BY <1>2 DEF MarkBlockProcessed
    <3>2. block \in [Callers -> BlockRow] /\ [block[f] EXCEPT !.status = "completed"] \in BlockRow
      BY WindowTypes DEF BlockRow
    <3> QED
      BY <3>1, <3>2
  <2> QED
    BY <1>2, <2>1, <2>2 DEF TypeOK, MarkBlockProcessed, BlockRow
<1>3. CASE ReadRound(f)
  <2>1. faults' \in [errors: Nat, crashes: Nat]
    BY <1>3, FaultsTyped DEF ReadRound, TypeOK
  <2>2. luck' \in [Callers -> Nat]
    <3>1. luck' = luck \/ luck' = [luck EXCEPT ![f] = SumShares((luck[f] + 1)..shares)]
      BY <1>3 DEF ReadRound
    <3>2. luck[f] \in Nat
      BY WindowTypes
    <3> QED
      BY <3>1, <3>2, RoundTyped, WindowTypes
  <2>3. pc' \in [Callers -> Places]
    <3>1. PICK p \in {"luck", "done"} : pc' = [pc EXCEPT ![f] = p]
      BY <1>3 DEF ReadRound
    <3>2. p \in Places
      BY DEF Places
    <3> QED
      BY <3>1, <3>2, PlaceTyped
  <2> QED
    BY <1>3, <2>1, <2>2, <2>3 DEF TypeOK, ReadRound, Places
<1>4. CASE RecordLuck(f)
  <2>1. PICK expected \in {info.difficulty, 1} :
          LET all == Append(history, Luck(expected, luck[f])) IN
          /\ history' = IF Len(all) > History THEN Tail(all) ELSE all
          /\ IF expected = info.difficulty THEN UNCHANGED faults ELSE Error
    BY <1>4 DEF RecordLuck
  <2> DEFINE x == Luck(expected, luck[f])
             all == Append(history, x)
  <2>2. expected \in Nat /\ luck[f] \in Nat
    BY DEF TypeOK
  <2>3. x \in Nat
    BY <2>2, LuckTyped
  <2>4. history \in Seq(Nat) /\ Len(history) \in Nat /\ Len(history) <= History /\ History \in Nat \ {0}
    BY ConstantsTyped DEF TypeOK
  <2>5. history' = IF Len(all) > History THEN Tail(all) ELSE all
    BY <2>1
  <2> HIDE DEF x
  <2>6. all \in Seq(Nat) /\ Len(all) = Len(history) + 1 /\ all # <<>>
    BY <2>3, <2>4
  <2>7. history' \in Seq(Nat) /\ Len(history') <= History /\ history' # <<>>
    <3>1. CASE Len(all) > History
      <4>1. history' = Tail(all)
        BY <2>5, <3>1
      <4>2. Tail(all) \in Seq(Nat) /\ Len(Tail(all)) = Len(history)
        BY <2>4, <2>6
      <4>3. Len(history) >= 1
        BY <2>4, <2>6, <3>1
      <4>4. Tail(all) # <<>>
        BY <4>2, <4>3
      <4> QED
        BY <2>4, <4>1, <4>2, <4>4
    <3>2. CASE ~(Len(all) > History)
      <4>1. history' = all
        BY <2>5, <3>2
      <4> QED
        BY <2>4, <2>6, <3>2, <4>1
    <3> QED
      BY <3>1, <3>2
  <2>8. Average(history') \in Nat
    BY <2>7, LuckTyped
  <2>9. luck' \in [Callers -> Nat]
    BY <1>4, <2>8 DEF RecordLuck, TypeOK
  <2>10. faults' \in [errors: Nat, crashes: Nat]
    BY <2>1, FaultsTyped DEF TypeOK
  <2> QED
    BY <1>4, <2>7, <2>9, <2>10 DEF TypeOK, RecordLuck
<1>5. CASE AdjustWindow(f)
  <2>1. currentN \in Nat /\ luck[f] \in Nat
    BY DEF TypeOK
  <2>2. currentN' \in Nat
    BY <1>5, <2>1, AdjustedTyped DEF AdjustWindow
  <2> QED
    BY <1>5, <2>2 DEF TypeOK, AdjustWindow
<1>6. CASE ReadRoundStart(f)
  <2>1. faults' \in [errors: Nat, crashes: Nat]
    BY <1>6, FaultsTyped DEF ReadRoundStart, TypeOK
  <2>2. luck' \in [Callers -> Nat]
    <3>1. luck' = [luck EXCEPT ![f] = RoundStart] \/ luck' = [luck EXCEPT ![f] = 0]
      BY <1>6 DEF ReadRoundStart
    <3> QED
      BY <3>1, RoundTyped, WindowTypes
  <2>3. pc' \in [Callers -> Places]
    BY <1>6, PlaceTyped DEF ReadRoundStart, Places
  <2> QED
    BY <1>6, <2>1, <2>2, <2>3 DEF TypeOK, ReadRoundStart, Places
<1> QED
  BY <1>1, <1>2, <1>3, <1>4, <1>5, <1>6 DEF Distribute

\* The Updater does.
LEMMA UpdaterTypes ==
    ASSUME TypeOK, Updater
    PROVE  TypeOK'
<1> USE DEF windowVars
<1>1. CASE PollDaemon
  BY <1>1 DEF TypeOK, PollDaemon
<1>2. CASE StoreHeight
  <2>1. poll.height \in Heights /\ Difficulty[poll.height + 1] \in Nat
    BY ConstantsTyped DEF TypeOK
  <2>2. faults' \in [errors: Nat, crashes: Nat]
    BY <1>2, FaultsTyped DEF StoreHeight, TypeOK
  <2>3. info' \in [height: Heights, reward: Heights \cup {-1}, difficulty: Nat]
    BY <1>2, <2>1 DEF StoreHeight, TypeOK
  <2>4. poll' \in [pc: {"sleep", "compare", "start"}, height: Heights]
    <3>1. \/ poll' = [poll EXCEPT !.pc = "start"]
          \/ poll' = [pc |-> "sleep", height |-> 0]
      BY <1>2 DEF StoreHeight
    <3>2. poll \in [pc: {"sleep", "compare", "start"}, height: Heights] /\ 0 \in Heights
      BY ConstantsTyped DEF TypeOK
    <3> QED
      BY <3>1, <3>2
  <2> QED
    BY <1>2, <2>2, <2>3, <2>4 DEF TypeOK, StoreHeight
<1>3. CASE StartProcessing
  BY <1>3, ConstantsTyped DEF TypeOK, StartProcessing
<1> QED
  BY <1>1, <1>2, <1>3 DEF Updater

\* UpdateReward does.
LEMMA RewardTypes ==
    ASSUME TypeOK, NEW r \in Rewards, UpdateReward(r) \/ RewardFails(r)
    PROVE  TypeOK'
<1> USE DEF windowVars
<1> DEFINE Rpc == [pc: {"idle", "header", "read"}, reward: Heights \cup {-1},
                  height: Heights, difficulty: Nat]
<1>1. /\ NoRpc \in Rpc /\ rpc \in [Rewards -> Rpc] /\ rpc[r] \in Rpc
      /\ info \in [height: Heights, reward: Heights \cup {-1}, difficulty: Nat]
      /\ chain \in Heights
  BY ConstantsTyped DEF NoRpc, TypeOK
<1>2. ASSUME rpc' \in [Rewards -> Rpc], faults' \in [errors: Nat, crashes: Nat],
             info' \in [height: Heights, reward: Heights \cup {-1}, difficulty: Nat],
             UNCHANGED <<shares, block, chain, windowVars, poll, triggered, missed>>
      PROVE  TypeOK'
  BY <1>2 DEF TypeOK
<1>3. CASE AskReward(r)
  <2>1. [rpc[r] EXCEPT !.pc = "header", !.reward = chain] \in Rpc
    BY <1>1
  <2>2. rpc' = [rpc EXCEPT ![r] = [rpc[r] EXCEPT !.pc = "header", !.reward = chain]]
    BY <1>1, <1>3 DEF AskReward
  <2> HIDE DEF Rpc
  <2>3. rpc' \in [Rewards -> Rpc]
    BY <1>1, <2>1, <2>2
  <2> QED
    BY <1>1, <1>2, <1>3, <2>3, WindowTypes DEF AskReward
<1>4. CASE ReadInfo(r)
  <2> DEFINE new == [rpc[r] EXCEPT !.pc = "read", !.height = info.height,
                                   !.difficulty = info.difficulty]
  <2>1. new \in Rpc
    BY <1>1
  <2>2. rpc' = [rpc EXCEPT ![r] = new]
    BY <1>1, <1>4 DEF ReadInfo
  <2> HIDE DEF Rpc, new
  <2>3. rpc' \in [Rewards -> Rpc]
    BY <1>1, <2>1, <2>2
  <2> QED
    BY <1>1, <1>2, <1>4, <2>3, WindowTypes DEF ReadInfo
<1>5. CASE WriteInfo(r)
  <2>1. info' \in [height: Heights, reward: Heights \cup {-1}, difficulty: Nat]
    BY <1>1, <1>5 DEF WriteInfo
  <2> HIDE DEF Rpc
  <2>2. rpc' \in [Rewards -> Rpc]
    BY <1>1, <1>5 DEF WriteInfo
  <2> QED
    BY <1>2, <1>5, <2>1, <2>2, WindowTypes DEF WriteInfo
<1>6. CASE RewardFails(r)
  <2> HIDE DEF Rpc
  <2>1. rpc' \in [Rewards -> Rpc]
    BY <1>1, <1>6 DEF RewardFails
  <2> QED
    BY <1>1, <1>2, <1>6, <2>1, FaultsTyped DEF RewardFails
<1> QED
  BY <1>3, <1>4, <1>5, <1>6 DEF UpdateReward

\* Every step keeps the types.
LEMMA StepTypes == TypeOK /\ [Next]_vars => TypeOK'
<1> SUFFICES ASSUME TypeOK, [Next]_vars PROVE TypeOK'
  OBVIOUS
<1> USE DEF windowVars, infoVars
<1>1. CASE UNCHANGED vars
  BY <1>1 DEF vars, TypeOK
<1>2. CASE AddShare
  <2>1. shares' \in 0..Len(ShareDiffs)
    BY <1>2, ConstantsTyped DEF TypeOK, AddShare
  <2> QED
    BY <1>2, <2>1 DEF TypeOK, AddShare
<1>3. CASE ChainGrows
  BY <1>3 DEF TypeOK, ChainGrows
<1>4. CASE Crash
  <2>1. faults' \in [errors: Nat, crashes: Nat]
    BY <1>4, FaultsTyped DEF Crash
  <2>2. rpc' \in [Rewards -> [pc: {"idle", "header", "read"}, reward: Heights \cup {-1},
                              height: Heights, difficulty: Nat]]
    BY <1>4, ConstantsTyped DEF Crash, NoRpc
  <2>3. /\ history' \in Seq(Nat) /\ Len(history') <= History /\ currentN' \in Nat
        /\ poll' \in [pc: {"sleep", "compare", "start"}, height: Heights]
    BY <1>4, ConstantsTyped DEF Crash
  <2>4. missed' \subseteq Heights
    BY <1>4 DEF Crash, TypeOK
  <2>5. pc' \in [Callers -> {"none", "ask", "test", "raise", "lower", "return", "shares",
                             "credit", "round", "sum", "luck", "adjust", "done"}]
    BY <1>4 DEF Crash
  <2> QED
    BY <1>4, <2>1, <2>2, <2>3, <2>4, <2>5 DEF Crash, TypeOK
<1>5. CASE Next
  BY <1>2, <1>3, <1>4, <1>5, GetWindowTypes, ClampTypes, DistributeTypes, UpdaterTypes, RewardTypes
     DEF Next, GetPPLNSWindow
<1> QED
  BY <1>1, <1>5

-----------------------------------------------------------------------------
(* The window.                                                             *)

\* A step that leaves the window's part and the difficulties alone.
LEMMA QuietWindow ==
    ASSUME IInv, UNCHANGED windowVars, info'.difficulty \in Difficulties,
           \A r \in Rewards : rpc'[r].pc = "read" => rpc'[r].difficulty \in Difficulties
    PROVE  WindowInv'
<1>1. UNCHANGED <<currentN, pc, diff, window, slipped>>
  BY DEF windowVars
<1>2. DifficultiesKnown'
  BY <1>1 DEF IInv, WindowInv, DifficultiesKnown
<1>3. ReturnsWithinBounds' /\ WindowWithinBounds'
  BY <1>1 DEF IInv, WindowInv, ReturnsWithinBounds, WindowWithinBounds, InBounds
<1> QED
  BY <1>2, <1>3 DEF WindowInv

\* A step of one caller that leaves the others, currentN and blockchain_info alone.
LEMMA OneCaller ==
    ASSUME IInv, NEW c \in Callers, UNCHANGED <<info, rpc, currentN>>,
           \A x \in Callers \ {c} : pc'[x] = pc[x] /\ diff'[x] = diff[x] /\ window'[x] = window[x],
           \A x \in Callers \ {c} : x \in slipped' <=> x \in slipped,
           pc'[c] \in Clamping => diff'[c] \in Difficulties,
           pc'[c] = "return" /\ c \notin slipped' => InBounds(currentN),
           pc'[c] \in {"shares", "credit"} /\ c \notin slipped' => InBounds(window'[c])
    PROVE  WindowInv'
<1>1. DifficultiesKnown'
  BY DEF IInv, WindowInv, DifficultiesKnown
<1>2. ReturnsWithinBounds'
  BY DEF IInv, WindowInv, ReturnsWithinBounds, InBounds
<1>3. WindowWithinBounds'
  BY DEF IInv, WindowInv, WindowWithinBounds, InBounds
<1> QED
  BY <1>1, <1>2, <1>3 DEF WindowInv

\* The goroutine of a block and a request up to the test.
LEMMA AskWindow ==
    ASSUME IInv, NEW c \in Callers, BlockFound(c) \/ ApiCall(c) \/ AskDifficulty(c)
    PROVE  WindowInv'
<1>1. pc \in [Callers -> Places] /\ diff \in [Callers -> Nat]
  BY WindowTypes DEF IInv
<1>2. UNCHANGED <<info, rpc, currentN, window, slipped>>
  BY DEF BlockFound, ApiCall, AskDifficulty, infoVars
<1>3. pc'[c] \in {"ask", "test"} /\ \A x \in Callers \ {c} : pc'[x] = pc[x] /\ diff'[x] = diff[x]
  BY <1>1 DEF BlockFound, ApiCall, AskDifficulty, Goto
<1>4. pc'[c] \in Clamping => diff'[c] \in Difficulties
  <2>1. CASE BlockFound(c) \/ ApiCall(c)
    BY <1>1, <2>1 DEF BlockFound, ApiCall, Goto, Clamping
  <2>2. CASE AskDifficulty(c)
    <3>1. diff'[c] \in {info.difficulty, 1}
      BY <1>1, <2>2 DEF AskDifficulty
    <3> QED
      BY <3>1, DifficultiesTyped DEF IInv, WindowInv, DifficultiesKnown
  <2> QED
    BY <2>1, <2>2
<1> QED
  BY <1>2, <1>3, <1>4, OneCaller

\* The two comparisons: whoever goes on to the return has found currentN within its own
\* bounds.
LEMMA TestWindowBounds ==
    ASSUME IInv, NEW c \in Callers, TestWindow(c)
    PROVE  WindowInv'
<1>1. pc \in [Callers -> Places] /\ currentN \in Nat
  BY WindowTypes DEF IInv, TypeOK
<1>2. /\ UNCHANGED <<info, rpc, currentN, diff, window>>
      /\ slipped' = slipped \ {c} /\ pc[c] = "test"
      /\ pc' = [pc EXCEPT ![c] = IF currentN < diff[c] * MinWindow THEN "raise"
                               ELSE IF currentN > diff[c] * MaxWindow THEN "lower"
                               ELSE "return"]
  BY DEF TestWindow, infoVars
<1>3. diff[c] \in Difficulties
  BY <1>2 DEF IInv, WindowInv, DifficultiesKnown, Clamping
<1>4. pc'[c] = "return" => InBounds(currentN)
  <2>1. pc'[c] = "return" => ~(currentN < diff[c] * MinWindow) /\ ~(currentN > diff[c] * MaxWindow)
    BY <1>1, <1>2
  <2>2. diff[c] * MinWindow \in Nat /\ diff[c] * MaxWindow \in Nat
    BY <1>3, ClampInBounds
  <2>3. pc'[c] = "return" => diff[c] * MinWindow <= currentN /\ currentN <= diff[c] * MaxWindow
    BY <1>1, <2>1, <2>2
  <2> QED
    BY <1>1, <1>3, <2>3, ClampInBounds
<1>5. pc'[c] \in {"raise", "lower", "return"} /\ \A x \in Callers \ {c} : pc'[x] = pc[x]
  BY <1>1, <1>2
<1> QED
  BY <1>2, <1>3, <1>4, <1>5, OneCaller

\* The clamp: within the bounds for everybody who is about to return.
LEMMA ClampWindowBounds ==
    ASSUME IInv, NEW c \in Callers, ClampWindow(c)
    PROVE  WindowInv'
<1>1. pc \in [Callers -> Places]
  BY WindowTypes DEF IInv
<1>2. /\ UNCHANGED <<info, rpc, diff, window>>
      /\ slipped' = slipped \ {c} /\ pc[c] \in {"raise", "lower"}
      /\ pc' = [pc EXCEPT ![c] = "return"]
      /\ currentN' = diff[c] * (IF pc[c] = "raise" THEN MinWindow ELSE MaxWindow)
  BY DEF ClampWindow, infoVars
<1>3. diff[c] \in Difficulties
  BY <1>2 DEF IInv, WindowInv, DifficultiesKnown, Clamping
<1>4. InBounds(currentN')
  <2>1. currentN' = diff[c] * MinWindow \/ currentN' = diff[c] * MaxWindow
    BY <1>2
  <2> QED
    BY <1>3, <2>1, ClampInBounds
<1>5. pc'[c] = "return" /\ \A x \in Callers \ {c} : pc'[x] = pc[x]
  BY <1>1, <1>2
<1>6. DifficultiesKnown'
  BY <1>2, <1>3, <1>5 DEF IInv, WindowInv, DifficultiesKnown
<1>7. ReturnsWithinBounds'
  BY <1>4 DEF ReturnsWithinBounds, InBounds
<1>8. WindowWithinBounds'
  BY <1>2, <1>5 DEF IInv, WindowInv, WindowWithinBounds
<1> QED
  BY <1>6, <1>7, <1>8 DEF WindowInv

\* The return: a block's goroutine gets what ReturnsWithinBounds says of currentN.
LEMMA ReturnWindowBounds ==
    ASSUME IInv, NEW c \in Callers, ReturnWindow(c)
    PROVE  WindowInv'
<1>1. /\ pc \in [Callers -> Places] /\ diff \in [Callers -> Nat] /\ window \in [Callers -> Nat]
  BY WindowTypes DEF IInv
<1>2. UNCHANGED <<info, rpc, currentN>> /\ pc[c] = "return"
  BY DEF ReturnWindow, infoVars
<1>3. /\ \A x \in Callers \ {c} : pc'[x] = pc[x] /\ diff'[x] = diff[x] /\ window'[x] = window[x]
      /\ \A x \in Callers \ {c} : x \in slipped' <=> x \in slipped
      /\ pc'[c] \in {"done", "shares"}
      /\ pc'[c] = "shares" => window'[c] = currentN /\ slipped' = slipped
  BY <1>1 DEF ReturnWindow
<1>4. c \notin slipped => InBounds(currentN)
  BY <1>2 DEF IInv, WindowInv, ReturnsWithinBounds
<1>5. pc'[c] \in {"shares", "credit"} /\ c \notin slipped' => InBounds(window'[c])
  BY <1>3, <1>4
<1>6. pc'[c] \notin Clamping /\ pc'[c] # "return"
  BY <1>3 DEF Clamping
<1> QED
  BY <1>2, <1>3, <1>5, <1>6, OneCaller

\* The rest of the goroutine up to the adjustment.
LEMMA DistributeWindow ==
    ASSUME IInv, NEW f \in Callers,
           PickShares(f) \/ MarkBlockProcessed(f) \/ ReadRoundStart(f)
             \/ ReadRound(f) \/ RecordLuck(f)
    PROVE  WindowInv'
<1>1. pc \in [Callers -> Places] /\ window \in [Callers -> Nat]
  BY WindowTypes DEF IInv
<1>2. UNCHANGED <<info, rpc, currentN, diff>>
  BY DEF PickShares, MarkBlockProcessed, ReadRoundStart, ReadRound, RecordLuck, infoVars
<1>3. /\ \A x \in Callers \ {f} : pc'[x] = pc[x] /\ window'[x] = window[x]
      /\ \A x \in Callers \ {f} : x \in slipped' <=> x \in slipped
      /\ pc'[f] \in {"credit", "done", "round", "sum", "luck", "adjust"}
      /\ pc'[f] = "credit" => pc[f] = "shares" /\ window' = window /\ slipped' = slipped
  <2>1. CASE PickShares(f)
    BY <1>1, <2>1 DEF PickShares
  <2>2. CASE MarkBlockProcessed(f)
    BY <1>1, <2>2 DEF MarkBlockProcessed, Goto
  <2>3. CASE ReadRound(f)
    BY <1>1, <2>3 DEF ReadRound
  <2>4. CASE RecordLuck(f)
    BY <1>1, <2>4 DEF RecordLuck, Goto
  <2>5. CASE ReadRoundStart(f)
    BY <1>1, <2>5 DEF ReadRoundStart, Goto
  <2> QED
    BY <2>1, <2>2, <2>3, <2>4, <2>5
<1>4. pc'[f] \in {"shares", "credit"} /\ f \notin slipped' => InBounds(window'[f])
  BY <1>3 DEF IInv, WindowInv, WindowWithinBounds, InBounds
<1>5. pc'[f] \notin Clamping /\ pc'[f] # "return"
  BY <1>3 DEF Clamping
<1> QED
  BY <1>2, <1>3, <1>4, <1>5, OneCaller

\* The adjustment: whoever is about to return has slipped.
LEMMA AdjustWindowBounds ==
    ASSUME IInv, NEW f \in Callers, AdjustWindow(f)
    PROVE  WindowInv'
<1>1. pc \in [Callers -> Places]
  BY WindowTypes DEF IInv
<1>2. /\ UNCHANGED <<info, rpc, diff, window>>
      /\ slipped' = slipped \cup {c \in Callers : pc[c] = "return"}
      /\ pc' = [pc EXCEPT ![f] = "done"]
  BY DEF AdjustWindow, infoVars, Goto
<1>3. pc'[f] = "done" /\ \A x \in Callers \ {f} : pc'[x] = pc[x]
  BY <1>1, <1>2
<1>4. DifficultiesKnown'
  BY <1>2, <1>3 DEF IInv, WindowInv, DifficultiesKnown, Clamping
<1>5. ReturnsWithinBounds'
  BY <1>2, <1>3 DEF ReturnsWithinBounds
<1>6. WindowWithinBounds'
  BY <1>2, <1>3 DEF IInv, WindowInv, WindowWithinBounds
<1> QED
  BY <1>4, <1>5, <1>6 DEF WindowInv

\* A crash empties the window's part.
LEMMA CrashWindow ==
    ASSUME IInv, Crash
    PROVE  WindowInv'
<1>1. /\ info' = info /\ rpc' = [r \in Rewards |-> NoRpc]
      /\ \A c \in Callers : pc'[c] \in {"none", "done"}
  BY DEF Crash
<1> QED
  BY <1>1 DEF IInv, WindowInv, DifficultiesKnown, ReturnsWithinBounds, WindowWithinBounds,
     Clamping, NoRpc

\* The Updater stores a difficulty of the network.
LEMMA UpdaterWindow ==
    ASSUME IInv, Updater
    PROVE  WindowInv'
<1>1. UNCHANGED <<windowVars, rpc>>
  BY DEF Updater, PollDaemon, StoreHeight, StartProcessing
<1>2. info.difficulty \in Difficulties
      /\ \A r \in Rewards : rpc[r].pc = "read" => rpc[r].difficulty \in Difficulties
  BY DEF IInv, WindowInv, DifficultiesKnown
<1>3. info'.difficulty \in Difficulties
  <2>1. poll.height \in Heights
    BY DEF IInv, TypeOK
  <2>2. info' = info \/ info'.difficulty = Difficulty[poll.height + 1]
    BY DEF Updater, PollDaemon, StoreHeight, StartProcessing
  <2> QED
    BY <1>2, <2>1, <2>2, ConstantsTyped
<1> QED
  BY <1>1, <1>2, <1>3, QuietWindow

\* UpdateReward writes back a difficulty it has read.
LEMMA RewardWindow ==
    ASSUME IInv, NEW r \in Rewards, UpdateReward(r) \/ RewardFails(r)
    PROVE  WindowInv'
<1>1. UNCHANGED windowVars
  BY DEF UpdateReward, AskReward, ReadInfo, WriteInfo, RewardFails
<1>2. /\ info.difficulty \in Difficulties
      /\ \A s \in Rewards : rpc[s].pc = "read" => rpc[s].difficulty \in Difficulties
      /\ \A s \in Rewards : DOMAIN rpc[s] = {"pc", "reward", "height", "difficulty"}
      /\ DOMAIN rpc = Rewards
  BY DEF IInv, WindowInv, DifficultiesKnown, TypeOK
<1>3. /\ \A s \in Rewards \ {r} : rpc'[s] = rpc[s]
      /\ info'.difficulty \in Difficulties
      /\ rpc'[r].pc = "read" => rpc'[r].difficulty \in Difficulties
  <2>1. CASE AskReward(r)
    BY <1>2, <2>1 DEF AskReward
  <2>2. CASE ReadInfo(r)
    BY <1>2, <2>2 DEF ReadInfo
  <2>3. CASE WriteInfo(r)
    BY <1>2, <2>3 DEF WriteInfo, NoRpc
  <2>4. CASE RewardFails(r)
    BY <1>2, <2>4 DEF RewardFails, NoRpc
  <2> QED
    BY <2>1, <2>2, <2>3, <2>4 DEF UpdateReward
<1> QED
  BY <1>1, <1>2, <1>3, QuietWindow

\* Every step keeps the window's invariant.
LEMMA StepWindow ==
    ASSUME IInv, [Next]_vars
    PROVE  WindowInv'
<1>1. CASE UNCHANGED vars
  BY <1>1, QuietWindow DEF vars, infoVars, IInv, WindowInv, DifficultiesKnown
<1>2. CASE AddShare \/ ChainGrows
  BY <1>2, QuietWindow DEF AddShare, ChainGrows, infoVars, IInv, WindowInv, DifficultiesKnown
<1>3. CASE Next
  BY <1>2, <1>3, AskWindow, TestWindowBounds, ClampWindowBounds, ReturnWindowBounds,
     DistributeWindow, AdjustWindowBounds, CrashWindow, UpdaterWindow, RewardWindow
     DEF Next, GetPPLNSWindow, Distribute
<1> QED
  BY <1>1, <1>3

-----------------------------------------------------------------------------
(* blockchain_info.                                                        *)

\* A step that writes no height and forgets none that was started.
LEMMA QuietHeights ==
    ASSUME IInv, info'.height = info.height, Started \subseteq Started',
           \A r \in Rewards : rpc'[r].pc = "read" => rpc'[r] = rpc[r]
    PROVE  HeightsStarted'
BY DEF IInv, HeightsStarted

\* The Updater: a height it stores is the one it is about to start.
LEMMA UpdaterHeights ==
    ASSUME IInv, Updater
    PROVE  HeightsStarted'
<1>1. /\ poll \in [pc: {"sleep", "compare", "start"}, height: Heights]
      /\ rpc' = rpc
  BY DEF IInv, TypeOK, Updater, PollDaemon, StoreHeight, StartProcessing
<1>2. CASE PollDaemon
  <2>1. Started \subseteq Started' /\ info' = info
    BY <1>2 DEF PollDaemon, Started
  <2> QED
    BY <1>1, <2>1, QuietHeights
<1>3. CASE StoreHeight
  <2>1. poll.pc = "compare" /\ UNCHANGED <<triggered, missed>>
    BY <1>3 DEF StoreHeight
  <2>2. Started \subseteq Started'
    BY <2>1 DEF Started
  <2>3. info' = info \/ (info'.height = poll.height /\ (poll.height # info.height \/ faults' # faults))
    <3>1. faults \in [errors: Nat, crashes: Nat]
      BY WindowTypes DEF IInv
    <3>2. Error => faults' # faults
      BY <3>1 DEF Error
    <3> QED
      BY <1>3, <3>2 DEF StoreHeight
  <2>4. CASE info' = info
    BY <1>1, <2>2, <2>4, QuietHeights
  <2>5. CASE info'.height = poll.height /\ (poll.height # info.height \/ faults' # faults)
    <3>1. poll' = [poll EXCEPT !.pc = "start"]
      BY <1>3, <2>5 DEF StoreHeight
    <3>2. poll'.pc = "start" /\ poll'.height = poll.height
      BY <1>1, <3>1
    <3>3. info'.height \in Started'
      BY <2>5, <3>2 DEF Started
    <3> QED
      BY <1>1, <2>2, <3>3 DEF IInv, HeightsStarted
  <2> QED
    BY <2>3, <2>4, <2>5
<1>4. CASE StartProcessing
  <2>1. Started \subseteq Started' /\ info' = info
    BY <1>4 DEF StartProcessing, Started
  <2> QED
    BY <1>1, <2>1, QuietHeights
<1> QED
  BY <1>2, <1>3, <1>4 DEF Updater

\* UpdateReward: a height it reads is started, and stays so until it is written back.
LEMMA RewardHeights ==
    ASSUME IInv, NEW r \in Rewards, UpdateReward(r) \/ RewardFails(r)
    PROVE  HeightsStarted'
<1>1. Started' = Started
  BY DEF UpdateReward, AskReward, ReadInfo, WriteInfo, RewardFails, Started
<1>2. /\ info.height \in Started
      /\ \A s \in Rewards : rpc[s].pc = "read" => rpc[s].height \in Started
      /\ \A s \in Rewards : DOMAIN rpc[s] = {"pc", "reward", "height", "difficulty"}
      /\ DOMAIN rpc = Rewards
  BY DEF IInv, HeightsStarted, TypeOK
<1>3. /\ \A s \in Rewards \ {r} : rpc'[s] = rpc[s]
      /\ info'.height \in Started
      /\ rpc'[r].pc = "read" => rpc'[r].height \in Started
  <2>1. CASE AskReward(r)
    BY <1>2, <2>1 DEF AskReward
  <2>2. CASE ReadInfo(r)
    BY <1>2, <2>2 DEF ReadInfo
  <2>3. CASE WriteInfo(r)
    BY <1>2, <2>3 DEF WriteInfo, NoRpc
  <2>4. CASE RewardFails(r)
    BY <1>2, <2>4 DEF RewardFails, NoRpc
  <2> QED
    BY <2>1, <2>2, <2>3, <2>4 DEF UpdateReward
<1> QED
  BY <1>1, <1>2, <1>3 DEF HeightsStarted

\* A crash between the two statements of the Updater is what missed records.
LEMMA CrashHeights ==
    ASSUME IInv, Crash
    PROVE  HeightsStarted'
<1>1. Started \subseteq Started'
  BY DEF Crash, Started
<1>2. info' = info /\ \A r \in Rewards : rpc'[r].pc # "read"
  BY DEF Crash, NoRpc
<1> QED
  BY <1>1, <1>2, QuietHeights

\* Every step keeps the heights' invariant.
LEMMA StepHeights ==
    ASSUME IInv, [Next]_vars
    PROVE  HeightsStarted'
<1>1. CASE UNCHANGED infoVars
  <2>1. UNCHANGED <<info, poll, rpc, triggered, missed>>
    BY <1>1 DEF infoVars
  <2>2. Started' = Started
    BY <2>1 DEF Started
  <2> QED
    BY <2>1, <2>2, QuietHeights
<1>2. CASE Crash \/ Updater \/ \E r \in Rewards : UpdateReward(r) \/ RewardFails(r)
  BY <1>2, CrashHeights, UpdaterHeights, RewardHeights
<1>3. UNCHANGED infoVars \/ Crash \/ Updater \/ \E r \in Rewards : UpdateReward(r) \/ RewardFails(r)
  <2>1. CASE UNCHANGED vars
    BY <2>1 DEF vars, infoVars
  <2>2. CASE AddShare \/ ChainGrows
    BY <2>2 DEF AddShare, ChainGrows
  <2>3. ASSUME NEW c \in Callers, BlockFound(c) \/ ApiCall(c) \/ GetPPLNSWindow(c) \/ Distribute(c)
        PROVE  UNCHANGED infoVars
    BY <2>3 DEF BlockFound, ApiCall, GetPPLNSWindow, AskDifficulty, TestWindow, ClampWindow,
       ReturnWindow, Distribute, PickShares, MarkBlockProcessed, ReadRoundStart,
       ReadRound, RecordLuck, AdjustWindow
  <2> QED
    BY <2>1, <2>2, <2>3 DEF Next
<1> QED
  BY <1>1, <1>2, <1>3

-----------------------------------------------------------------------------
(* The theorems.                                                           *)

\* The inductive invariant.
LEMMA Invariance == Spec => []IInv
<1>1. IInv /\ [Next]_vars => IInv'
  BY StepTypes, StepWindow, StepHeights DEF IInv
<1> QED
  BY <1>1, InitIInv, PTL DEF Spec

\* Type correctness: among others the luck history never holds more than History values
\* (OnBlockFoundPPLNS), and currentN stays a number through every adjustment.
THEOREM TypeCorrect == Spec => []TypeOK
<1>1. IInv => TypeOK
  BY DEF IInv
<1> QED
  BY <1>1, Invariance, PTL

\* The window a block is divided by lies within the bounds of a difficulty the network had,
\* unless an adjustment slipped in between the clamp and the return (GetPPLNSWindow).
THEOREM WindowIsClamped == Spec => []WindowWithinBounds
<1>1. IInv => WindowWithinBounds
  BY DEF IInv, WindowInv
<1> QED
  BY <1>1, Invariance, PTL

\* A stored height has been started, is about to be, or was cut off by a crash, although
\* UpdateReward writes back what it has read before (Updater, UpdateReward).
THEOREM HeightsAreProcessed == Spec => []HeightIsProcessed
<1>1. IInv => HeightIsProcessed
  <2> SUFFICES ASSUME IInv, info.height > 0, poll # [pc |-> "start", height |-> info.height]
               PROVE  info.height \in triggered \cup missed
    BY DEF HeightIsProcessed
  <2>1. info.height \in Started /\ info.height # 0
    <3>1. info.height \in Heights /\ Heights \subseteq Nat
      BY ConstantsTyped DEF IInv, TypeOK
    <3> QED
      BY <3>1 DEF IInv, HeightsStarted
  <2>2. poll.pc = "start" => poll.height # info.height
    <3>1. poll \in [pc: {"sleep", "compare", "start"}, height: Heights]
      BY DEF IInv, TypeOK
    <3> QED
      BY <3>1
  <2> QED
    BY <2>1, <2>2 DEF Started
<1> QED
  BY <1>1, Invariance, PTL

\* Whatever the table and the window, GetSharesForPPLNS selects shares that fill the window,
\* or all of them, and not one more than that takes.
THEOREM SelectionIsMinimal == Spec => SelectionFillsWindow
<1>1. IInv /\ [Next]_vars =>
        [\A c \in Callers : Picking(c) =>
            LET S == picked'[c] IN
            /\ SumShares(S) >= window[c] \/ S = 1..shares
            /\ Cardinality(S) = 1 \/ \E i \in S : SumShares(S \ {i}) < window[c]]_vars
  <2> SUFFICES ASSUME IInv, [Next]_vars, NEW c \in Callers, Picking(c)
               PROVE  /\ SumShares(picked'[c]) >= window[c] \/ picked'[c] = 1..shares
                      /\ \/ Cardinality(picked'[c]) = 1
                         \/ \E i \in picked'[c] : SumShares(picked'[c] \ {i}) < window[c]
    OBVIOUS
  <2>1. PickShares(c)
    <3>1. pc \in [Callers -> Places] /\ pc[c] = "shares" /\ pc'[c] = "credit"
      BY WindowTypes DEF IInv, Picking
    <3>2. pc' # pc
      BY <3>1
    <3>3. ASSUME NEW d \in Callers, d # c,
                 \/ BlockFound(d) \/ ApiCall(d) \/ GetPPLNSWindow(d) \/ Distribute(d)
          PROVE  pc'[c] = pc[c]
      BY <3>1, <3>3 DEF BlockFound, ApiCall, GetPPLNSWindow, AskDifficulty, TestWindow,
         ClampWindow, ReturnWindow, Distribute, PickShares, MarkBlockProcessed, ReadRoundStart,
         ReadRound, RecordLuck, AdjustWindow, Goto
    <3>4. ASSUME \/ AddShare \/ ChainGrows \/ Updater
                 \/ \E r \in Rewards : UpdateReward(r) \/ RewardFails(r)
          PROVE  pc' = pc
      BY <3>4 DEF AddShare, ChainGrows, Updater, PollDaemon, StoreHeight, StartProcessing,
         UpdateReward, AskReward, ReadInfo, WriteInfo, RewardFails, windowVars
    <3>5. ~Crash
      BY <3>1 DEF Crash
    <3>6. ~UNCHANGED vars
      BY <3>2 DEF vars, windowVars
    <3>7. BlockFound(c) \/ ApiCall(c) \/ GetPPLNSWindow(c) \/ Distribute(c)
      BY <3>1, <3>2, <3>3, <3>4, <3>5, <3>6 DEF Next
    <3> QED
      BY <3>1, <3>7 DEF BlockFound, ApiCall, GetPPLNSWindow, AskDifficulty, TestWindow,
         ClampWindow, ReturnWindow, Distribute, MarkBlockProcessed, ReadRoundStart, ReadRound,
         RecordLuck, AdjustWindow, Goto
  <2>2. /\ shares \in 0..Len(ShareDiffs) /\ window[c] \in Nat
        /\ picked \in [Callers -> SUBSET (1..Len(ShareDiffs))] /\ pc \in [Callers -> Places]
    BY WindowTypes DEF IInv, TypeOK
  <2>3. shares > 0 /\ picked'[c] = PplnsShares(shares, window[c])
    BY <2>1, <2>2 DEF PickShares, Picking
  <2>4. Fills(shares, window[c], 1..shares, picked'[c]) /\ At(shares, 1..shares) = 1..shares
    BY <2>2, <2>3, SelectionFills
  <2>5. 1..shares # {}
    BY <2>2, <2>3
  <2> QED
    BY <2>4, <2>5 DEF Fills
<1> QED
  BY <1>1, Invariance, PTL DEF Spec, SelectionFillsWindow
=============================================================================
