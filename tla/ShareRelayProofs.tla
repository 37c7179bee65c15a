-------------------------- MODULE ShareRelayProofs --------------------------
(***************************************************************************)
(* Proofs about ShareRelay for any wallets, worker names, difficulties,    *)
(* numbers of links, packets and faults: type correctness, that no share   *)
(* and no block is invented, and that none is lost as long as the first    *)
(* link is in use.                                                         *)
(*                                                                         *)
(* The argument is bookkeeping.  For a set X of wallets, Held counts the   *)
(* shares that are or will be credited to X wherever they are: in the      *)
(* cache, in a sender's hands, on a wire, being stored, stored.  No step   *)
(* makes Held grow by more than what miners were told was accepted, and    *)
(* while the first link is in use no step makes it fall behind.            *)
(*                                                                         *)
(* The lemmas about sums come first: SumFunction folds + over the domain   *)
(* of a function in an order nobody knows.                                 *)
(***************************************************************************)
EXTENDS ShareRelay, FiniteSetTheorems, WellFoundedInduction, TLAPS

-----------------------------------------------------------------------------
(* What is counted.                                                        *)

\* The sum of f[p] over the members p of S.
SumOver(f, S) == MapThenSumSet(LAMBDA p : f[p], S)

\* What a message is worth to the wallets X and, if b is 1, to the count of blocks.
Worth(X, b, m) ==
    IF \/ m.type = "share" /\ Credited(m.wallet) \in X
       \/ m.type = "block" /\ b = 1
    THEN m.n ELSE 0

\* Shares in the cache, by key, that the flush has not taken out yet.
UnsentOf(X) ==
    [k \in Keys |-> IF /\ pc["flush"] = "idle" \/ k \in todo
                       /\ Credited(WalletOfKey(k)) \in X
                    THEN cache[k].n ELSE 0]

Unsent(X) == SumOver(UnsentOf(X), Keys)

\* What senders hold that have not written it yet.
Sending(X, b) ==
    Worth(X, b, cur["flush"]) + Worth(X, b, cur["stats"]) + Worth(X, b, cur["block"])

\* What the frames of q carry.
WorthOf(X, b, q) == [i \in DOMAIN q |-> Worth(X, b, q[i].msg)]

Carried(X, b, q) == SumOver(WorthOf(X, b, q), DOMAIN q)

\* What is on the wires, link by link.
OnWireOf(X, b) == [e \in Links |-> Carried(X, b, wire[e])]

OnWire(X, b) == SumOver(OnWireOf(X, b), Links)

\* What OnShareFound has still to insert, link by link.
StoringOf(X, b) == [e \in Links |-> IF handler[e] = "store" THEN Worth(X, b, job[e]) ELSE 0]

Storing(X, b) == SumOver(StoringOf(X, b), Links)

\* The counts of the wallets X in a table.
CountsOf(X, table) == [w \in Wallets |-> IF w \in X THEN table[w].n ELSE 0]

Counts(X, table) == SumOver(CountsOf(X, table), Wallets)

\* Everything that is or will be credited to X, and the blocks if b is 1.
Held(X, b) ==
    Unsent(X) + Sending(X, b) + OnWire(X, b) + Storing(X, b) + Counts(X, added)
        + (IF b = 1 THEN blocks.handled ELSE 0)

\* What was accepted for X, and the blocks found if b is 1.
Given(X, b) == Counts(X, accepted) + (IF b = 1 THEN blocks.found ELSE 0)

\* Sets of wallets that are credited only with shares of their own.
Closed == {X \in SUBSET Wallets :
              \A k \in Keys : Credited(WalletOfKey(k)) \in X => k[1] \in X}

-----------------------------------------------------------------------------
(* The invariants.                                                         *)

\* A sender holds a message of its kind exactly while it is in sendToConn.
SendersMatch ==
    \A s \in Senders :
        /\ pc[s] \in {"idle", "next"} => cur[s] = NoMessage
        /\ pc[s] \in {"check", "len", "body"} => cur[s].type = IF s = "flush" THEN "share" ELSE s

\* The flush has a share to send for every key on its list.
TodoIsCached == pc["flush"] # "idle" => \A k \in todo : cache[k].n > 0

\* OnShareFound works on shares.
StoresShares == \A e \in Links : handler[e] = "store" => job[e].type = "share"

\* Nothing is on a link that has not been dialled, and every other one has or had a
\* handler.
LinksInOrder ==
    \A e \in Links :
        /\ e > dials => ~up[e] /\ handler[e] = "off" /\ wire[e] = <<>>
        /\ e <= dials => handler[e] # "off"

\* Before the first dial the slave lives and only passes nil checks that fail.
BeforeFirstDial ==
    dials = 0 => /\ alive /\ conn = 0
                 /\ pc["flush"] = "idle"
                 /\ \A s \in Senders : pc[s] \notin {"len", "body"}

\* The first inductive invariant.
TypeInv ==
    /\ TypeOK
    /\ SendersMatch
    /\ TodoIsCached
    /\ StoresShares
    /\ LinksInOrder
    /\ BeforeFirstDial

\* No link has been dialled, or the first is in use.
FirstLinkInUse ==
    dials = 0 \/ (alive /\ dials = 1 /\ conn = 1 /\ up[1] /\ handler[1] # "closed")

\* The books: nothing is held that was not given, and as long as the first link is in
\* use all that was given is held.
NothingGained == \A X \in Closed, b \in 0..1 : Held(X, b) <= Given(X, b)

AllHeld == FirstLinkInUse => Held(Wallets, 0) = Given(Wallets, 0)

-----------------------------------------------------------------------------
(* Sums.                                                                   *)

\* The member a fold over s takes first.
First(s) == CHOOSE x \in s : TRUE

\* g folds + over the sets of D, from the value of f at their members.
Folds(f, D, g) ==
    g = [s \in D |-> IF s = {} THEN 0 ELSE f[First(s)] + g[s \ {First(s)}]]

\* g and h both do, over the subsets of R and over those of a part S of it.
BothFold(f, S, R, g, h) == S \subseteq R /\ Folds(f, SUBSET R, g) /\ Folds(f, SUBSET S, h)

\* Induction over the subsets of a finite set, for a set G of the good ones.
LEMMA FiniteInduction ==
    ASSUME NEW S, IsFiniteSet(S), NEW G,
           {} \in G,
           ASSUME NEW T \in SUBSET S, T # {}, \A x \in T : T \ {x} \in G
           PROVE  T \in G
    PROVE  S \in G
<1> DEFINE Bad == {T \in SUBSET S : T \notin G}
<1> SUFFICES ASSUME Bad # {} PROVE FALSE
  OBVIOUS
<1>1. Bad \subseteq FiniteSubsetsOf(S)
  BY FS_Subset DEF FiniteSubsetsOf
<1>2. PICK B \in Bad : \A y \in Bad : ~(<<y, B>> \in StrictSubsetOrdering(S))
  <2> HIDE DEF Bad
  <2> QED
    BY <1>1, FS_StrictSubsetOrderingWellFounded, WFMin
<1>3. \A x \in B : <<B \ {x}, B>> \in StrictSubsetOrdering(S)
  BY DEF StrictSubsetOrdering
<1>4. \A x \in B : B \ {x} \in G
  BY <1>2, <1>3
<1>5. B \in SUBSET S /\ B \notin G
  OBVIOUS
<1> QED
  BY <1>4, <1>5

\* Induction over the natural numbers, for a set G of the good ones.
LEMMA NumberInduction ==
    ASSUME NEW G, 0 \in G, \A n \in Nat : n \in G => n + 1 \in G
    PROVE  Nat \subseteq G
<1> DEFINE Bad == {n \in Nat : n \notin G}
<1> SUFFICES ASSUME Bad # {} PROVE FALSE
  OBVIOUS
<1>1. PICK b \in Bad : \A y \in Bad : ~(<<y, b>> \in OpToRel(<, Nat))
  <2> HIDE DEF Bad
  <2>1. Bad \subseteq Nat
    BY DEF Bad
  <2> QED BY <2>1, NatLessThanWellFounded, WFMin
<1>2. b - 1 \in Bad
  OBVIOUS
<1>3. <<b - 1, b>> \in OpToRel(<, Nat)
  BY <1>2 DEF OpToRel
<1> QED
  BY <1>1, <1>2, <1>3

\* The folding function of a sum exists.
LEMMA FoldExists ==
    ASSUME NEW f, NEW S, IsFiniteSet(S)
    PROVE  \E g : Folds(f, SUBSET S, g)
<1> DEFINE D(n) == {s \in SUBSET S : Cardinality(s) <= n}
           G == {n \in Nat : \E g : Folds(f, D(n), g)}
<1>1. \A s \in SUBSET S : IsFiniteSet(s) /\ Cardinality(s) \in Nat
  BY FS_Subset, FS_CardinalityType
<1>2. 0 \in G
  <2> DEFINE g == [s \in D(0) |-> 0]
  <2>1. \A s \in D(0) : s = {}
    BY <1>1, FS_EmptySet
  <2>2. Folds(f, D(0), g)
    BY <2>1 DEF Folds
  <2> HIDE DEF g
  <2> QED
    BY <2>2
<1>3. ASSUME NEW n \in Nat, n \in G
      PROVE  n + 1 \in G
  <2>1. PICK g : Folds(f, D(n), g)
    BY <1>3
  <2> DEFINE h == [s \in D(n+1) |-> IF s = {} THEN 0 ELSE f[First(s)] + g[s \ {First(s)}]]
  <2>2. \A s \in D(n+1) : s # {} => s \ {First(s)} \in D(n)
    <3> SUFFICES ASSUME NEW s \in D(n+1), s # {}
                 PROVE  s \ {First(s)} \in D(n)
      OBVIOUS
    <3>1. First(s) \in s
      BY DEF First
    <3> QED
      BY <3>1, <1>1, FS_RemoveElement
  <2>3. \A s \in D(n) : s \in D(n+1)
    BY <1>1
  <2>4. \A s \in D(n) : g[s] = h[s]
    BY <2>1, <2>3 DEF Folds
  <2>5. \A s \in D(n+1) : h[s] = IF s = {} THEN 0 ELSE f[First(s)] + h[s \ {First(s)}]
    BY <2>2, <2>3, <2>4
  <2>6. Folds(f, D(n+1), h)
    BY <2>5 DEF Folds
  <2> HIDE DEF h
  <2> QED
    BY <2>6
<1>4. Cardinality(S) \in G
  <2> HIDE DEF G
  <2> QED
    BY <1>1, <1>2, <1>3, NumberInduction
<1>5. D(Cardinality(S)) = SUBSET S
  BY FS_Subset
<1> QED
  BY <1>4, <1>5

\* Two folding functions agree where both are defined.
LEMMA FoldUnique ==
    ASSUME NEW f, NEW S, IsFiniteSet(S), NEW R, NEW g, NEW h, BothFold(f, S, R, g, h)
    PROVE  g[S] = h[S]
<1> USE DEF BothFold
<1> DEFINE G == {T \in SUBSET S : g[T] = h[T]}
<1>1. {} \in G
  BY DEF Folds
<1>2. ASSUME NEW T \in SUBSET S, T # {}, \A x \in T : T \ {x} \in G
      PROVE  T \in G
  <2>1. First(T) \in T
    BY <1>2 DEF First
  <2>2. g[T] = f[First(T)] + g[T \ {First(T)}] /\ h[T] = f[First(T)] + h[T \ {First(T)}]
    BY <1>2 DEF Folds
  <2>3. g[T \ {First(T)}] = h[T \ {First(T)}]
    BY <1>2, <2>1
  <2> QED
    BY <2>2, <2>3
<1>3. S \in G
  <2> HIDE DEF G
  <2> QED
    BY <1>1, <1>2, FiniteInduction
<1> QED
  BY <1>3

\* The sum as any folding function computes it.
LEMMA SumByFold ==
    ASSUME NEW f, NEW S, IsFiniteSet(S), NEW R, NEW g,
           S \subseteq R, Folds(f, SUBSET R, g)
    PROVE  SumOver(f, S) = g[S]
<1> DEFINE h == CHOOSE hh : Folds(f, SUBSET S, hh)
<1>1. SumOver(f, S) = h[S]
  BY DEF SumOver, MapThenSumSet, MapThenFoldSet, Folds, First
<1>2. Folds(f, SUBSET S, h)
  BY FoldExists
<1> HIDE DEF h
<1>3. BothFold(f, S, R, g, h)
  BY <1>2 DEF BothFold
<1> QED
  BY <1>1, <1>3, FoldUnique

\* The sum over no member.
LEMMA SumEmpty ==
    ASSUME NEW f
    PROVE  SumOver(f, {}) = 0
<1>1. IsFiniteSet({})
  BY FS_EmptySet
<1>2. PICK g : Folds(f, SUBSET {}, g)
  BY <1>1, FoldExists
<1>3. g[{}] = 0
  BY <1>2 DEF Folds
<1> QED
  BY <1>1, <1>2, <1>3, SumByFold

\* The sum takes one member first.
LEMMA SumFirst ==
    ASSUME NEW f, NEW S, IsFiniteSet(S), S # {}
    PROVE  SumOver(f, S) = f[First(S)] + SumOver(f, S \ {First(S)})
<1>1. PICK g : Folds(f, SUBSET S, g)
  BY FoldExists
<1>2. g[S] = f[First(S)] + g[S \ {First(S)}]
  BY <1>1 DEF Folds
<1>3. SumOver(f, S) = g[S]
  BY <1>1, SumByFold
<1>4. IsFiniteSet(S \ {First(S)})
  BY FS_RemoveElement
<1>5. SumOver(f, S \ {First(S)}) = g[S \ {First(S)}]
  BY <1>1, <1>4, SumByFold
<1> QED
  BY <1>2, <1>3, <1>5

\* A sum of natural numbers is one.
LEMMA SumType ==
    ASSUME NEW f, NEW S, IsFiniteSet(S), \A x \in S : f[x] \in Nat
    PROVE  SumOver(f, S) \in Nat
<1> DEFINE G == {T \in SUBSET S : SumOver(f, T) \in Nat}
<1>1. {} \in G
  BY SumEmpty
<1>2. ASSUME NEW T \in SUBSET S, T # {}, \A x \in T : T \ {x} \in G
      PROVE  T \in G
  <2>1. First(T) \in T
    BY <1>2 DEF First
  <2>2. IsFiniteSet(T)
    BY FS_Subset
  <2>3. SumOver(f, T) = f[First(T)] + SumOver(f, T \ {First(T)})
    BY <1>2, <2>2, SumFirst
  <2> QED
    BY <1>2, <2>1, <2>3
<1>3. S \in G
  <2> HIDE DEF G
  <2> QED
    BY <1>1, <1>2, FiniteInduction
<1> QED
  BY <1>3

\* Any member may be taken out first: + does not mind the order.
LEMMA SumRemove ==
    ASSUME NEW f, NEW S, IsFiniteSet(S), \A x \in S : f[x] \in Nat, NEW a \in S
    PROVE  SumOver(f, S) = f[a] + SumOver(f, S \ {a})
<1> DEFINE G == {T \in SUBSET S : \A x \in T : SumOver(f, T) = f[x] + SumOver(f, T \ {x})}
<1>1. {} \in G
  OBVIOUS
<1>2. ASSUME NEW T \in SUBSET S, T # {}, \A x \in T : T \ {x} \in G
      PROVE  T \in G
  <2> DEFINE c == First(T)
  <2>1. c \in T
    BY <1>2 DEF First
  <2>2. \A U \in SUBSET S : IsFiniteSet(U) /\ SumOver(f, U) \in Nat
    BY FS_Subset, SumType
  <2>3. SumOver(f, T) = f[c] + SumOver(f, T \ {c})
    BY <1>2, <2>2, SumFirst
  <2> SUFFICES ASSUME NEW x \in T, x # c
               PROVE  SumOver(f, T) = f[x] + SumOver(f, T \ {x})
    BY <2>3
  <2> HIDE DEF c
  <2> DEFINE rest == SumOver(f, (T \ {c}) \ {x})
  <2>4. SumOver(f, T \ {c}) = f[x] + rest
    BY <1>2, <2>1
  <2>5. SumOver(f, T \ {x}) = f[c] + rest
    <3>1. (T \ {c}) \ {x} = (T \ {x}) \ {c}
      OBVIOUS
    <3>2. SumOver(f, T \ {x}) = f[c] + SumOver(f, (T \ {x}) \ {c})
      BY <1>2, <2>1
    <3> QED
      BY <3>1, <3>2
  <2>6. rest \in Nat /\ f[x] \in Nat /\ f[c] \in Nat
    BY <2>1, <2>2
  <2> HIDE DEF rest
  <2> QED
    BY <2>3, <2>4, <2>5, <2>6
<1>3. S \in G
  <2> HIDE DEF G
  <2> QED
    BY <1>1, <1>2, FiniteInduction
<1> QED
  BY <1>3

\* A part sums to no more than the whole.
LEMMA SumMonotone ==
    ASSUME NEW f, NEW S, IsFiniteSet(S), \A x \in S : f[x] \in Nat, NEW P \in SUBSET S
    PROVE  SumOver(f, P) <= SumOver(f, S)
<1> DEFINE G == {T \in SUBSET S : SumOver(f, T \cap P) <= SumOver(f, T)}
<1>1. {} \in G
  BY SumEmpty
<1>2. ASSUME NEW T \in SUBSET S, T # {}, \A x \in T : T \ {x} \in G
      PROVE  T \in G
  <2>1. \A U \in SUBSET S : IsFiniteSet(U) /\ SumOver(f, U) \in Nat
    BY FS_Subset, SumType
  <2>2. PICK x : x \in T
    BY <1>2
  <2>3. SumOver(f, T) = f[x] + SumOver(f, T \ {x})
    BY <2>1, <2>2, SumRemove
  <2> DEFINE all == SumOver(f, T \ {x})
             part == SumOver(f, (T \ {x}) \cap P)
  <2>4. part <= all /\ part \in Nat /\ all \in Nat /\ f[x] \in Nat
    BY <1>2, <2>1, <2>2
  <2>5. SumOver(f, T \cap P) = part \/ SumOver(f, T \cap P) = f[x] + part
    <3>1. CASE x \in P
      <4>1. SumOver(f, T \cap P) = f[x] + SumOver(f, (T \cap P) \ {x})
        BY <2>1, <2>2, <3>1, SumRemove
      <4>2. (T \cap P) \ {x} = (T \ {x}) \cap P
        OBVIOUS
      <4> QED
        BY <4>1, <4>2
    <3>2. CASE x \notin P
      <4>1. T \cap P = (T \ {x}) \cap P
        BY <3>2
      <4> QED
        BY <4>1
    <3> QED
      BY <3>1, <3>2
  <2>6. SumOver(f, T \cap P) <= SumOver(f, T)
    <3> HIDE DEF all, part
    <3>1. SumOver(f, T) = f[x] + all
      BY <2>3 DEF all
    <3> QED
      BY <2>4, <2>5, <3>1
  <2> QED
    BY <2>6
<1>3. S \in G
  <2> HIDE DEF G
  <2> QED
    BY <1>1, <1>2, FiniteInduction
<1>4. S \cap P = P
  OBVIOUS
<1> QED
  BY <1>3, <1>4

\* The sum depends on the values at the members only.
LEMMA SumEqual ==
    ASSUME NEW f, NEW g, NEW S, IsFiniteSet(S), \A x \in S : f[x] = g[x]
    PROVE  SumOver(f, S) = SumOver(g, S)
<1> DEFINE G == {T \in SUBSET S : SumOver(f, T) = SumOver(g, T)}
<1>1. {} \in G
  BY SumEmpty
<1>2. ASSUME NEW T \in SUBSET S, T # {}, \A x \in T : T \ {x} \in G
      PROVE  T \in G
  <2>1. First(T) \in T
    BY <1>2 DEF First
  <2>2. IsFiniteSet(T)
    BY FS_Subset
  <2>3. /\ SumOver(f, T) = f[First(T)] + SumOver(f, T \ {First(T)})
        /\ SumOver(g, T) = g[First(T)] + SumOver(g, T \ {First(T)})
    BY <1>2, <2>2, SumFirst
  <2> QED
    BY <1>2, <2>1, <2>3
<1>3. S \in G
  <2> HIDE DEF G
  <2> QED
    BY <1>1, <1>2, FiniteInduction
<1> QED
  BY <1>3

\* What one member's value changes.
LEMMA SumUpdate ==
    ASSUME NEW f, NEW g, NEW S, IsFiniteSet(S), NEW a \in S,
           \A x \in S : f[x] \in Nat /\ g[x] \in Nat,
           \A x \in S \ {a} : f[x] = g[x]
    PROVE  SumOver(g, S) + f[a] = SumOver(f, S) + g[a]
<1>1. IsFiniteSet(S \ {a})
  BY FS_RemoveElement
<1>2. SumOver(f, S \ {a}) = SumOver(g, S \ {a}) /\ SumOver(f, S \ {a}) \in Nat
  BY <1>1, SumEqual, SumType
<1>3. SumOver(f, S) = f[a] + SumOver(f, S \ {a}) /\ SumOver(g, S) = g[a] + SumOver(g, S \ {a})
  BY SumRemove
<1> QED
  BY <1>2, <1>3

\* The sum of zeros.
LEMMA SumZero ==
    ASSUME NEW f, NEW S, IsFiniteSet(S), \A x \in S : f[x] = 0
    PROVE  SumOver(f, S) = 0
<1> DEFINE G == {T \in SUBSET S : SumOver(f, T) = 0}
<1>1. {} \in G
  BY SumEmpty
<1>2. ASSUME NEW T \in SUBSET S, T # {}, \A x \in T : T \ {x} \in G
      PROVE  T \in G
  <2>1. First(T) \in T
    BY <1>2 DEF First
  <2>2. IsFiniteSet(T)
    BY FS_Subset
  <2>3. SumOver(f, T) = f[First(T)] + SumOver(f, T \ {First(T)})
    BY <1>2, <2>2, SumFirst
  <2> QED
    BY <1>2, <2>1, <2>3
<1>3. S \in G
  <2> HIDE DEF G
  <2> QED
    BY <1>1, <1>2, FiniteInduction
<1> QED
  BY <1>3

\* The sum of the values of a sequence takes the last one first.
LEMMA SumLast ==
    ASSUME NEW f, NEW n \in Nat, \A i \in 1..(n + 1) : f[i] \in Nat
    PROVE  SumOver(f, 1..(n + 1)) = f[n + 1] + SumOver(f, 1..n)
<1>1. IsFiniteSet(1..(n + 1))
  BY FS_Interval
<1>2. (1..(n + 1)) \ {n + 1} = 1..n /\ n + 1 \in 1..(n + 1)
  OBVIOUS
<1>3. SumOver(f, 1..(n + 1)) = f[n + 1] + SumOver(f, (1..(n + 1)) \ {n + 1})
  BY <1>1, <1>2, SumRemove
<1> QED
  BY <1>2, <1>3

\* Or the first one first.
LEMMA SumShift ==
    ASSUME NEW f, NEW g, NEW N \in Nat, \A i \in 1..(N + 1) : f[i] \in Nat,
           \A i \in 1..N : g[i] = f[i + 1]
    PROVE  SumOver(f, 1..(N + 1)) = f[1] + SumOver(g, 1..N)
<1> DEFINE G == {n \in Nat : n <= N => SumOver(f, 1..(n + 1)) = f[1] + SumOver(g, 1..n)}
<1>1. 0 \in G
  <2>1. SumOver(f, 1..(0 + 1)) = f[0 + 1] + SumOver(f, 1..0)
    <3>1. \A i \in 1..(0 + 1) : f[i] \in Nat
      OBVIOUS
    <3> QED
      BY <3>1, SumLast
  <2>2. 1..0 = {}
    OBVIOUS
  <2> QED
    BY <2>1, <2>2, SumEmpty
<1>2. ASSUME NEW n \in Nat, n \in G
      PROVE  n + 1 \in G
  <2> SUFFICES ASSUME n + 1 <= N
               PROVE  SumOver(f, 1..((n + 1) + 1)) = f[1] + SumOver(g, 1..(n + 1))
    OBVIOUS
  <2>1. SumOver(f, 1..((n + 1) + 1)) = f[(n + 1) + 1] + SumOver(f, 1..(n + 1))
    BY SumLast
  <2>2. \A i \in 1..(n + 1) : g[i] \in Nat
    OBVIOUS
  <2>3. SumOver(g, 1..(n + 1)) = g[n + 1] + SumOver(g, 1..n)
    BY <2>2, SumLast
  <2>4. SumOver(f, 1..(n + 1)) = f[1] + SumOver(g, 1..n)
    BY <1>2
  <2>5. SumOver(g, 1..n) \in Nat
    <3>1. \A i \in 1..n : g[i] \in Nat
      BY <2>2
    <3>2. IsFiniteSet(1..n)
      BY FS_Interval
    <3> QED
      BY <3>1, <3>2, SumType
  <2>6. f[1] \in Nat /\ g[n + 1] \in Nat /\ g[n + 1] = f[(n + 1) + 1]
    BY <2>2
  <2> HIDE DEF G
  <2> QED
    BY <2>1, <2>3, <2>4, <2>5, <2>6
<1>3. N \in G
  <2> HIDE DEF G
  <2> QED
    BY <1>1, <1>2, NumberInduction
<1> QED
  BY <1>3

\* The sum of a function is the sum over its domain.
LEMMA SumFunctionIs ==
    ASSUME NEW f, NEW S, DOMAIN f = S
    PROVE  SumFunction(f) = SumOver(f, S)
BY DEF SumFunction, SumFunctionOnSet, FoldFunctionOnSet, SumOver, MapThenSumSet

-----------------------------------------------------------------------------
(* Types.                                                                  *)

\* The constants, as the provers need them.
LEMMA ConstantsTyped ==
    /\ Wallets # {} /\ FeeAddress \in Wallets
    /\ IsFiniteSet(Wallets) /\ IsFiniteSet(Keys) /\ IsFiniteSet(Links)
    /\ Miners \in Nat /\ MaxDials \in Nat /\ MaxPackets \in Nat /\ MaxFaults \in Nat
    /\ \A k \in Keys : k[1] \in Wallets /\ k[2] \in Seq(Symbols)
    /\ \A d \in Diffs : d \in Nat
<1>1. MaxDials \in Nat
  BY RelayAssumption
<1>2. IsFiniteSet(Links)
  BY <1>1, FS_Interval DEF Links
<1> QED
  BY <1>2, RelayAssumption

\* What the senders send are messages.
LEMMA MessagesTyped ==
    /\ NoMessage \in Message /\ Stats \in Message /\ Block \in Message
    /\ NoMessage.type = "none" /\ Stats.type = "stats" /\ Block.type = "block"
    /\ \A k \in Keys : \A c \in Count :
          c.n > 0 => Share(WalletOfKey(k), c) \in Message /\ Share(WalletOfKey(k), c).type = "share"
BY ConstantsTyped DEF Message, NoMessage, Stats, Block, Share, Count

\* What sendToConn writes are frames; the first carries nothing, the second the message.
LEMMA FramesTyped ==
    ASSUME NEW m \in Message, m.type # "none"
    PROVE  /\ LenFrame(m) \in Frame /\ LenFrame(m).msg = NoMessage
           /\ BodyFrame(m) \in Frame /\ BodyFrame(m).msg = m
<1>1. m.type \in {"share", "stats", "block"}
  BY DEF Message
<1>2. Size(m) \in Nat
  BY <1>1 DEF Size
<1>3. NoMessage \in Message /\ NoMessage.type = "none"
  BY MessagesTyped
<1>4. 2 + 256 * Miners \in Nat
  BY ConstantsTyped
<1> QED
  BY <1>2, <1>3, <1>4 DEF LenFrame, BodyFrame, Frame

\* Message by message: the fields.
LEMMA MessageFields ==
    ASSUME NEW m \in Message
    PROVE  /\ m.n \in Nat /\ m.diff \in Nat
           /\ m.type \in {"share", "stats", "block", "none"}
           /\ m.type = "share" => m.n > 0
           /\ m.type = "block" => m.n = 1
BY DEF Message

\* One more share.
LEMMA CountPlus ==
    ASSUME NEW c \in Count, NEW d \in Nat
    PROVE  [n |-> c.n + 1, diff |-> c.diff + d] \in Count
BY DEF Count

\* The counters of faults and packets.
LEMMA BudgetTyped ==
    ASSUME NEW g \in [stats: 0..MaxPackets, faults: 0..MaxFaults]
    PROVE  /\ g.faults < MaxFaults =>
                 [g EXCEPT !.faults = g.faults + 1] \in [stats: 0..MaxPackets, faults: 0..MaxFaults]
           /\ g.stats < MaxPackets =>
                 [g EXCEPT !.stats = g.stats + 1] \in [stats: 0..MaxPackets, faults: 0..MaxFaults]
<1>1. g.faults \in 0..MaxFaults /\ g.stats \in 0..MaxPackets
  OBVIOUS
<1>2. /\ g.faults < MaxFaults => g.faults + 1 \in 0..MaxFaults
      /\ g.stats < MaxPackets => g.stats + 1 \in 0..MaxPackets
  BY <1>1, ConstantsTyped
<1> QED
  BY <1>2

\* A Write leaves frames on the wires, and nothing on a link that is not up.
LEMMA WrittenTyped ==
    ASSUME TypeInv, conn # 0, NEW x \in Frame, wire' = Written(x)
    PROVE  /\ wire' \in [Links -> Seq(Frame)]
           /\ \A e \in Links : ~up[e] => wire'[e] = wire[e]
<1>1. conn \in Links /\ wire \in [Links -> Seq(Frame)]
  BY ConstantsTyped DEF TypeInv, TypeOK, Links
<1>2. Append(wire[conn], x) \in Seq(Frame)
  BY <1>1
<1> QED
  BY <1>1, <1>2 DEF Written

\* What the master has read is off the wire.
LEMMA TailTyped ==
    ASSUME TypeInv, NEW e \in Links, wire[e] # <<>>
    PROVE  /\ Tail(wire[e]) \in Seq(Frame)
           /\ Head(wire[e]) \in Frame
           /\ Head(wire[e]).msg \in Message /\ Head(wire[e]).len \in Nat
<1>1. wire[e] \in Seq(Frame)
  BY DEF TypeInv, TypeOK
<1>2. Tail(wire[e]) \in Seq(Frame) /\ Head(wire[e]) \in Frame
  BY <1>1
<1> QED
  BY <1>2 DEF Frame

\* Initially.
LEMMA InitTypeInv == Init => TypeInv
BY ConstantsTyped, MessagesTyped
   DEF Init, TypeInv, TypeOK, SendersMatch, TodoIsCached, StoresShares, LinksInOrder,
       BeforeFirstDial, Links, Senders, Count, ZeroCount

\* Shares are accepted between flushes only.
LEMMA SendShareTypeInv ==
    ASSUME TypeInv, NEW k \in Keys, NEW d \in Diffs, SendShareWithWorker(k, d)
    PROVE  TypeInv'
<1>1. TypeOK'
  <2>1. k[1] \in Wallets /\ d \in Nat
    BY ConstantsTyped
  <2>a. cache[k] \in Count /\ accepted[k[1]] \in Count
    BY <2>1 DEF TypeInv, TypeOK
  <2>2. [n |-> cache[k].n + 1, diff |-> cache[k].diff + d] \in Count
    BY <2>1, <2>a, CountPlus
  <2>3. [n |-> accepted[k[1]].n + 1, diff |-> accepted[k[1]].diff + d] \in Count
    BY <2>1, <2>a, CountPlus
  <2> QED
    BY <2>1, <2>2, <2>3 DEF SendShareWithWorker, TypeInv, TypeOK, masterVars
<1> QED
  BY <1>1 DEF SendShareWithWorker, TypeInv, SendersMatch, TodoIsCached, StoresShares,
     LinksInOrder, BeforeFirstDial, masterVars

\* The flush.
LEMMA FlushTypeInv ==
    ASSUME TypeInv, Flush
    PROVE  TypeInv'
<1> USE DEF TypeInv, masterVars
<1>1. CASE FlushSkip
  BY <1>1 DEF FlushSkip, vars, slaveVars, TypeOK, SendersMatch, TodoIsCached, StoresShares,
     LinksInOrder, BeforeFirstDial
<1>2. CASE FlushBegin
  <2>1. TypeOK'
    BY <1>2 DEF FlushBegin, TypeOK
  <2> QED
    BY <1>2, <2>1 DEF FlushBegin, TypeOK, SendersMatch, TodoIsCached, StoresShares,
       LinksInOrder, BeforeFirstDial
<1>3. ASSUME NEW k \in Keys, FlushNext(k) PROVE TypeInv'
  <2> DEFINE m == Share(WalletOfKey(k), cache[k])
  <2>1. m \in Message /\ m.type = "share"
    BY <1>3, MessagesTyped DEF FlushNext, TypeOK, TodoIsCached
  <2>2. /\ pc["flush"] = "next"
        /\ todo' = todo \ {k}
        /\ cur' = [cur EXCEPT !["flush"] = m]
        /\ pc' = [pc EXCEPT !["flush"] = "check"]
        /\ UNCHANGED <<alive, cache, conn, client, dials, up, wire, handler, need, job,
                       numConns, added, blocks, accepted, budget>>
    BY <1>3 DEF FlushNext
  <2> HIDE DEF m
  <2>3. TypeOK'
    BY <2>1, <2>2 DEF TypeOK
  <2>4. SendersMatch'
    BY <2>1, <2>2 DEF TypeOK, SendersMatch
  <2>5. TodoIsCached' /\ BeforeFirstDial'
    BY <2>2 DEF TypeOK, TodoIsCached, BeforeFirstDial
  <2> QED
    BY <2>2, <2>3, <2>4, <2>5 DEF StoresShares, LinksInOrder
<1>4. CASE FlushEnd
  <2>1. TypeOK'
    BY <1>4 DEF FlushEnd, TypeOK, Count, ZeroCount
  <2> QED
    BY <1>4, <2>1 DEF FlushEnd, TypeOK, SendersMatch, TodoIsCached, StoresShares,
       LinksInOrder, BeforeFirstDial
<1> QED
  BY <1>1, <1>2, <1>3, <1>4 DEF Flush

\* The other two packets.
LEMMA PacketTypeInv ==
    ASSUME TypeInv, SendStats \/ SendBlockFound
    PROVE  TypeInv'
<1> USE DEF TypeInv, masterVars
<1>1. CASE SendStats
  <2>0. /\ budget \in [stats: 0..MaxPackets, faults: 0..MaxFaults]
        /\ blocks.found \in Nat /\ budget.stats + blocks.found < MaxPackets
    BY <1>1 DEF SendStats, TypeOK
  <2>1. budget' \in [stats: 0..MaxPackets, faults: 0..MaxFaults]
    <3>1. budget.stats \in 0..MaxPackets /\ MaxPackets \in Nat
      BY <2>0, ConstantsTyped
    <3>2. budget.stats < MaxPackets
      BY <2>0, <3>1
    <3> QED
      BY <1>1, <2>0, <3>2, BudgetTyped DEF SendStats
  <2>2. TypeOK'
    BY <1>1, <2>1, MessagesTyped DEF SendStats, TypeOK
  <2>3. SendersMatch'
    BY <1>1, MessagesTyped DEF SendStats, TypeOK, SendersMatch
  <2> QED
    BY <1>1, <2>2, <2>3 DEF SendStats, TypeOK, TodoIsCached, StoresShares, LinksInOrder,
       BeforeFirstDial
<1>2. CASE SendBlockFound
  <2>1. blocks' \in [found: Nat, handled: Nat]
    <3>1. blocks \in [found: Nat, handled: Nat]
      BY DEF TypeOK
    <3>2. [blocks EXCEPT !.found = blocks.found + 1] \in [found: Nat, handled: Nat]
      BY <3>1
    <3> QED
      BY <1>2, <3>2 DEF SendBlockFound
  <2>2. TypeOK'
    BY <1>2, <2>1, MessagesTyped DEF SendBlockFound, TypeOK
  <2>3. SendersMatch'
    BY <1>2, MessagesTyped DEF SendBlockFound, TypeOK, SendersMatch
  <2> QED
    BY <1>2, <2>2, <2>3 DEF SendBlockFound, TypeOK, TodoIsCached, StoresShares, LinksInOrder,
       BeforeFirstDial
<1> QED
  BY <1>1, <1>2

\* sendToConn returns.
LEMMA ReturnTyped ==
    ASSUME TypeInv, NEW s \in Senders, pc[s] # "idle", Return(s)
    PROVE  /\ pc' \in [Senders -> {"idle", "next", "check", "len", "body"}]
           /\ cur' \in [Senders -> Message]
           /\ pc'[s] \in {"idle", "next"} /\ cur'[s] = NoMessage
           /\ \A t \in Senders \ {s} : pc'[t] = pc[t] /\ cur'[t] = cur[t]
           /\ pc'["flush"] # "idle" <=> pc["flush"] # "idle"
<1>1. /\ pc \in [Senders -> {"idle", "next", "check", "len", "body"}]
      /\ cur \in [Senders -> Message] /\ NoMessage \in Message
      /\ "flush" \in Senders
  BY MessagesTyped DEF TypeInv, TypeOK, Senders
<1> QED
  BY <1>1 DEF Return

\* sendToConn.
LEMMA SendTypeInv ==
    ASSUME TypeInv, NEW s \in Senders, Send(s)
    PROVE  TypeInv'
<1> USE DEF TypeInv, masterVars
<1>1. CASE CheckConn(s)
  <2>1. CASE conn = 0
    <3>1. Return(s) /\ pc[s] = "check"
      BY <1>1, <2>1 DEF CheckConn
    <3>2. TypeOK'
      BY <1>1, <3>1, ReturnTyped DEF CheckConn, TypeOK
    <3>3. SendersMatch'
      BY <3>1, ReturnTyped DEF SendersMatch
    <3>4. BeforeFirstDial' /\ TodoIsCached'
      BY <1>1, <3>1, ReturnTyped DEF CheckConn, BeforeFirstDial, TodoIsCached
    <3> QED
      BY <1>1, <3>2, <3>3, <3>4 DEF CheckConn, StoresShares, LinksInOrder
  <2>2. CASE conn # 0
    <3>1. pc[s] = "check" /\ pc' = [pc EXCEPT ![s] = "len"] /\ cur' = cur
      BY <1>1, <2>2 DEF CheckConn
    <3>2. TypeOK'
      BY <1>1, <3>1 DEF CheckConn, TypeOK
    <3>3. SendersMatch'
      BY <3>1 DEF TypeOK, SendersMatch
    <3>4. BeforeFirstDial' /\ TodoIsCached'
      BY <1>1, <2>2, <3>1 DEF CheckConn, TypeOK, BeforeFirstDial, TodoIsCached
    <3> QED
      BY <1>1, <3>2, <3>3, <3>4 DEF CheckConn, StoresShares, LinksInOrder
  <2> QED
    BY <2>1, <2>2
<1>a. ASSUME pc[s] \in {"len", "body"}
      PROVE  /\ LenFrame(cur[s]) \in Frame /\ BodyFrame(cur[s]) \in Frame
             /\ dials # 0
  <2>1. cur[s] \in Message /\ cur[s].type # "none"
    BY <1>a DEF TypeOK, SendersMatch, Senders
  <2> QED
    BY <1>a, <2>1, FramesTyped DEF BeforeFirstDial
<1>2. CASE WriteLen(s)
  <2>0. wire' \in [Links -> Seq(Frame)] /\ \A e \in Links : ~up[e] => wire'[e] = wire[e]
    BY <1>2, <1>a, WrittenTyped DEF WriteLen
  <2>1. TypeOK'
    BY <1>2, <2>0 DEF WriteLen, TypeOK
  <2>2. SendersMatch'
    BY <1>2 DEF WriteLen, TypeOK, SendersMatch
  <2>3. BeforeFirstDial'
    BY <1>2, <1>a DEF WriteLen, BeforeFirstDial
  <2>4. TodoIsCached'
    BY <1>2 DEF WriteLen, TypeOK, TodoIsCached
  <2>5. LinksInOrder'
    BY <1>2, <2>0 DEF WriteLen, LinksInOrder
  <2> QED
    BY <1>2, <2>1, <2>2, <2>3, <2>4, <2>5 DEF WriteLen, StoresShares
<1>3. CASE WriteBody(s)
  <2>0. wire' \in [Links -> Seq(Frame)] /\ \A e \in Links : ~up[e] => wire'[e] = wire[e]
    BY <1>3, <1>a, WrittenTyped DEF WriteBody
  <2>r. Return(s) /\ pc[s] = "body"
    BY <1>3 DEF WriteBody
  <2>1. TypeOK'
    BY <1>3, <2>0, <2>r, ReturnTyped DEF WriteBody, TypeOK
  <2>2. SendersMatch'
    BY <2>r, ReturnTyped DEF SendersMatch
  <2>3. BeforeFirstDial'
    BY <1>3, <1>a DEF WriteBody, BeforeFirstDial
  <2>4. TodoIsCached'
    BY <1>3, <2>r, ReturnTyped DEF WriteBody, TodoIsCached
  <2>5. LinksInOrder'
    BY <1>3, <2>0 DEF WriteBody, LinksInOrder
  <2> QED
    BY <1>3, <2>1, <2>2, <2>3, <2>4, <2>5 DEF WriteBody, StoresShares
<1>4. CASE NilWrite(s)
  <2>1. TypeOK'
    BY <1>4, MessagesTyped DEF NilWrite, TypeOK, Count, ZeroCount
  <2>2. BeforeFirstDial'
    BY <1>4, <1>a DEF NilWrite, BeforeFirstDial
  <2> QED
    BY <1>4, <2>1, <2>2 DEF NilWrite, SendersMatch, TodoIsCached, StoresShares, LinksInOrder
<1> QED
  BY <1>1, <1>2, <1>3, <1>4 DEF Send

\* StartSlaveClient, and a slave that is started again.
LEMMA ClientTypeInv ==
    ASSUME TypeInv, SlaveRestart \/ DialOk \/ DialFail \/ ReadError
    PROVE  TypeInv'
<1> USE DEF TypeInv, masterVars
<1>1. CASE SlaveRestart
  BY <1>1, ConstantsTyped DEF SlaveRestart, TypeOK, SendersMatch, TodoIsCached, StoresShares,
     LinksInOrder, BeforeFirstDial
<1>2. CASE DialOk
  <2>1. dials + 1 \in Links /\ dials \in 0..MaxDials /\ MaxDials \in Nat
    BY <1>2, ConstantsTyped DEF DialOk, TypeOK, Links
  <2>2. TypeOK'
    BY <1>2, <2>1 DEF DialOk, TypeOK
  <2>3. LinksInOrder'
    <3> SUFFICES ASSUME NEW e \in Links
                 PROVE  LinksInOrder!(e)'
      BY DEF LinksInOrder
    <3>1. e \in Nat
      BY <2>1 DEF Links
    <3>2. CASE e = dials + 1
      BY <1>2, <2>1, <3>2 DEF DialOk, TypeOK
    <3>3. CASE e # dials + 1
      BY <1>2, <2>1, <3>1, <3>3 DEF DialOk, TypeOK, LinksInOrder
    <3> QED
      BY <3>2, <3>3
  <2>4. BeforeFirstDial'
    BY <1>2, <2>1 DEF DialOk, BeforeFirstDial
  <2> QED
    BY <1>2, <2>1, <2>2, <2>3, <2>4 DEF DialOk, TypeOK, SendersMatch, TodoIsCached, StoresShares
<1>3. CASE DialFail
  BY <1>3, ConstantsTyped DEF DialFail, TypeOK, SendersMatch, TodoIsCached, StoresShares,
     LinksInOrder, BeforeFirstDial
<1>4. CASE ReadError
  <2>1. TypeOK'
    BY <1>4 DEF ReadError, TypeOK
  <2>2. LinksInOrder'
    BY <1>4 DEF ReadError, TypeOK, LinksInOrder
  <2> QED
    BY <1>4, <2>1, <2>2 DEF ReadError, SendersMatch, TodoIsCached, StoresShares,
       BeforeFirstDial
<1> QED
  BY <1>1, <1>2, <1>3, <1>4

\* A link breaks.
LEMMA NetBreakTypeInv ==
    ASSUME TypeInv, NEW e \in Links, NetBreak(e)
    PROVE  TypeInv'
<1> USE DEF TypeInv, masterVars, slaveVars
<1>1. PICK n \in 0..Len(wire[e]) : wire' = [wire EXCEPT ![e] = SubSeq(wire[e], 1, n)]
  BY DEF NetBreak
<1>2. SubSeq(wire[e], 1, n) \in Seq(Frame)
  BY DEF TypeOK
<1>3. budget' \in [stats: 0..MaxPackets, faults: 0..MaxFaults]
  BY BudgetTyped DEF NetBreak, TypeOK
<1>4. TypeOK'
  BY <1>1, <1>2, <1>3 DEF NetBreak, TypeOK
<1>5. LinksInOrder'
  BY <1>1 DEF NetBreak, TypeOK, LinksInOrder
<1> QED
  BY <1>4, <1>5 DEF NetBreak, SendersMatch, TodoIsCached, StoresShares, BeforeFirstDial

\* HandleSlave and OnShareFound.
LEMMA HandleSlaveTypeInv ==
    ASSUME TypeInv, NEW e \in Links, HandleSlave(e)
    PROVE  TypeInv'
<1> USE DEF TypeInv, masterVars, slaveVars
<1>1. CASE ReadLen(e)
  <2>1. Tail(wire[e]) \in Seq(Frame) /\ Head(wire[e]).len \in Nat
    BY <1>1, TailTyped DEF ReadLen
  <2>2. TypeOK'
    BY <1>1, <2>1 DEF ReadLen, TypeOK
  <2>3. LinksInOrder'
    BY <1>1 DEF ReadLen, TypeOK, LinksInOrder
  <2>4. StoresShares'
    BY <1>1 DEF ReadLen, TypeOK, StoresShares
  <2>5. SendersMatch' /\ TodoIsCached' /\ BeforeFirstDial'
    BY <1>1 DEF ReadLen, SendersMatch, TodoIsCached, BeforeFirstDial
  <2> QED
    BY <2>2, <2>3, <2>4, <2>5
<1>2. CASE ReadBody(e)
  <2> DEFINE m == Head(wire[e]).msg
  <2>1. Tail(wire[e]) \in Seq(Frame) /\ m \in Message /\ m.n \in Nat
    BY <1>2, TailTyped, MessageFields DEF ReadBody
  <2>2. /\ handler[e] = "body"
        /\ wire[e] # <<>>
        /\ wire' = [wire EXCEPT ![e] = Tail(wire[e])]
        /\ handler' = [handler EXCEPT ![e] = IF m.type = "share" THEN "store" ELSE "len"]
        /\ need' = [need EXCEPT ![e] = 0]
        /\ job' = IF m.type = "share" THEN [job EXCEPT ![e] = m] ELSE job
        /\ numConns' = IF m.type = "stats" THEN [numConns EXCEPT ![e] = m.n] ELSE numConns
        /\ blocks' = IF m.type = "block" THEN [blocks EXCEPT !.handled = @ + 1] ELSE blocks
        /\ UNCHANGED <<slaveVars, up, added, accepted, budget>>
    BY <1>2 DEF ReadBody
  <2> HIDE DEF m
  <2>3. numConns' \in [Links -> Nat] /\ job' \in [Links -> Message]
    BY <2>1, <2>2 DEF TypeOK
  <2>4. blocks' \in [found: Nat, handled: Nat]
    <3>1. blocks \in [found: Nat, handled: Nat]
      BY DEF TypeOK
    <3>2. [blocks EXCEPT !.handled = blocks.handled + 1] \in [found: Nat, handled: Nat]
      BY <3>1
    <3> QED
      BY <2>2, <3>1, <3>2
  <2>5. TypeOK'
    BY <2>1, <2>2, <2>3, <2>4 DEF TypeOK
  <2>6. LinksInOrder'
    BY <2>2 DEF TypeOK, LinksInOrder
  <2>7. StoresShares'
    BY <2>2 DEF TypeOK, StoresShares
  <2> QED
    BY <2>2, <2>5, <2>6, <2>7 DEF SendersMatch, TodoIsCached, BeforeFirstDial
<1>3. CASE StoreRow(e)
  <2> DEFINE m == IF job[e].n = 1 THEN NoMessage ELSE [job[e] EXCEPT !.n = @ - 1]
             w == Credited(job[e].wallet)
  <2>1. job[e] \in Message /\ job[e].type = "share" /\ job[e].n \in Nat /\ job[e].n > 0
    BY <1>3, MessageFields DEF StoreRow, TypeOK, StoresShares
  <2>2. m \in Message /\ (job[e].n # 1 => m.type = "share")
    <3>1. CASE job[e].n = 1
      BY <3>1, MessagesTyped
    <3>2. CASE job[e].n # 1
      BY <2>1, <3>2 DEF Message
    <3> QED
      BY <3>1, <3>2
  <2>3. job' = [job EXCEPT ![e] = m]
    <3>1. CASE job[e].n = 1
      BY <1>3, <3>1 DEF StoreRow
    <3>2. CASE job[e].n # 1
      BY <1>3, <3>2 DEF StoreRow
    <3> QED
      BY <3>1, <3>2
  <2>4. w \in Wallets
    BY ConstantsTyped DEF Credited
  <2>5. added' = added \/ added' = [added EXCEPT ![w] = [n |-> added[w].n + 1,
                                                     diff |-> added[w].diff + job[e].diff]]
    BY <1>3 DEF StoreRow
  <2> HIDE DEF m, w
  <2>6. added' \in [Wallets -> Count]
    <3>1. job[e].diff \in Nat
      BY <2>1, MessageFields
    <3>2. added[w] \in Count
      BY <2>4 DEF TypeOK
    <3>3. [n |-> added[w].n + 1, diff |-> added[w].diff + job[e].diff] \in Count
      BY <3>1, <3>2, CountPlus
    <3> QED
      BY <2>4, <2>5, <3>3 DEF TypeOK
  <2>a. /\ handler[e] = "store"
        /\ handler' = [handler EXCEPT ![e] = IF job[e].n = 1 THEN "len" ELSE "store"]
        /\ UNCHANGED <<slaveVars, up, wire, need, numConns, blocks, accepted, budget>>
    BY <1>3 DEF StoreRow
  <2>7. TypeOK'
    BY <2>a, <2>2, <2>3, <2>6 DEF TypeOK
  <2>8. LinksInOrder' /\ StoresShares'
    BY <2>a, <2>2, <2>3 DEF TypeOK, LinksInOrder, StoresShares
  <2> QED
    BY <2>a, <2>7, <2>8 DEF SendersMatch, TodoIsCached, BeforeFirstDial
<1>4. CASE Cleanup(e) /\ handler[e] \in {"len", "body"}
  <2>1. <<>> \in Seq(Frame)
    OBVIOUS
  <2>2. TypeOK'
    BY <1>4, <2>1 DEF Cleanup, TypeOK
  <2>3. LinksInOrder'
    BY <1>4 DEF Cleanup, TypeOK, LinksInOrder
  <2> QED
    BY <1>4, <2>2, <2>3 DEF Cleanup, TypeOK, SendersMatch, TodoIsCached, StoresShares,
       BeforeFirstDial
<1> QED
  BY <1>1, <1>2, <1>3, <1>4 DEF HandleSlave, Desync, Eof

\* The master is started again.
LEMMA MasterRestartTypeInv ==
    ASSUME TypeInv, MasterRestart
    PROVE  TypeInv'
<1> USE DEF TypeInv, masterVars, slaveVars
<1>1. budget' \in [stats: 0..MaxPackets, faults: 0..MaxFaults]
  BY BudgetTyped DEF MasterRestart, TypeOK
<1>2. <<>> \in Seq(Frame)
  OBVIOUS
<1>3. TypeOK'
  BY <1>1, <1>2 DEF MasterRestart, TypeOK
<1> QED
  BY <1>3 DEF MasterRestart, SendersMatch, TodoIsCached, StoresShares, LinksInOrder,
     BeforeFirstDial

\* Every step preserves the first invariant.
LEMMA StepTypeInv == TypeInv /\ [Next]_vars => TypeInv'
<1> SUFFICES ASSUME TypeInv, [Next]_vars PROVE TypeInv'
  OBVIOUS
<1>1. CASE UNCHANGED vars
  BY <1>1 DEF vars, slaveVars, masterVars, TypeInv, TypeOK, SendersMatch, TodoIsCached,
     StoresShares, LinksInOrder, BeforeFirstDial
<1>2. CASE Next
  BY <1>2, SendShareTypeInv, FlushTypeInv, PacketTypeInv, SendTypeInv, ClientTypeInv,
     NetBreakTypeInv, HandleSlaveTypeInv, MasterRestartTypeInv DEF Next
<1> QED
  BY <1>1, <1>2

\* The first invariant holds.
LEMMA TypeInvariant == Spec => []TypeInv
BY InitTypeInv, StepTypeInv, PTL DEF Spec

-----------------------------------------------------------------------------
(* The parts of the books, and how they change.                            *)

\* What a message is worth is a number; an empty one, stats and what a handler takes for
\* a length are worth nothing.
LEMMA WorthTyped ==
    ASSUME NEW X, NEW b, NEW m \in Message
    PROVE  /\ Worth(X, b, m) \in Nat
           /\ m.type \notin {"share", "block"} => Worth(X, b, m) = 0
           /\ m.type = "share" => Worth(X, b, m) = IF Credited(m.wallet) \in X THEN m.n ELSE 0
           /\ m.type = "block" => Worth(X, b, m) = IF b = 1 THEN 1 ELSE 0
<1>1. m.n \in Nat /\ (m.type = "block" => m.n = 1)
  BY MessageFields
<1> QED
  BY <1>1 DEF Worth

\* What a sequence of frames carries is a number, member by member.
LEMMA CarriedTyped ==
    ASSUME NEW X, NEW b, NEW q \in Seq(Frame)
    PROVE  /\ \A i \in 1..Len(q) : /\ q[i].msg \in Message
                                   /\ WorthOf(X, b, q)[i] = Worth(X, b, q[i].msg)
                                   /\ WorthOf(X, b, q)[i] \in Nat
           /\ Len(q) \in Nat /\ DOMAIN q = 1..Len(q) /\ IsFiniteSet(1..Len(q))
           /\ Carried(X, b, q) = SumOver(WorthOf(X, b, q), 1..Len(q))
           /\ Carried(X, b, q) \in Nat
<1>1. Len(q) \in Nat /\ DOMAIN q = 1..Len(q)
  OBVIOUS
<1>2. IsFiniteSet(1..Len(q))
  BY <1>1, FS_Interval
<1>3. \A i \in 1..Len(q) : q[i].msg \in Message
  BY DEF Frame
<1>4. \A i \in 1..Len(q) : /\ WorthOf(X, b, q)[i] = Worth(X, b, q[i].msg)
                           /\ WorthOf(X, b, q)[i] \in Nat
  BY <1>1, <1>3, WorthTyped DEF WorthOf
<1>5. SumOver(WorthOf(X, b, q), 1..Len(q)) \in Nat
  BY <1>2, <1>4, SumType
<1> QED
  BY <1>1, <1>2, <1>3, <1>4, <1>5 DEF Carried

\* An empty wire carries nothing.
LEMMA CarriedEmpty ==
    ASSUME NEW X, NEW b
    PROVE  Carried(X, b, <<>>) = 0
<1>1. DOMAIN <<>> = {}
  OBVIOUS
<1> QED
  BY <1>1, SumEmpty DEF Carried

\* A frame more.
LEMMA CarriedAppend ==
    ASSUME NEW X, NEW b, NEW q \in Seq(Frame), NEW x \in Frame
    PROVE  Carried(X, b, Append(q, x)) = Carried(X, b, q) + Worth(X, b, x.msg)
<1> DEFINE r == Append(q, x)
           f == WorthOf(X, b, q)
           g == WorthOf(X, b, r)
           n == Len(q)
<1>1. r \in Seq(Frame) /\ Len(r) = n + 1 /\ n \in Nat
  OBVIOUS
<1>2. r[n + 1] = x /\ \A i \in 1..n : r[i] = q[i]
  OBVIOUS
<1> HIDE DEF r, f, g, n
<1>3. \A i \in 1..(n + 1) : g[i] = Worth(X, b, r[i].msg) /\ g[i] \in Nat
  BY <1>1, CarriedTyped DEF g
<1>4. \A i \in 1..n : f[i] = Worth(X, b, q[i].msg) /\ f[i] \in Nat
  BY CarriedTyped DEF f, n
<1>5. SumOver(g, 1..(n + 1)) = g[n + 1] + SumOver(g, 1..n)
  BY <1>1, <1>3, SumLast
<1>6. IsFiniteSet(1..n)
  BY <1>1, FS_Interval
<1>7. \A i \in 1..n : f[i] = g[i]
  BY <1>1, <1>2, <1>3, <1>4
<1>8. SumOver(g, 1..n) = SumOver(f, 1..n)
  BY <1>6, <1>7, SumEqual
<1>9. Carried(X, b, r) = SumOver(g, 1..(n + 1)) /\ Carried(X, b, q) = SumOver(f, 1..n)
  BY <1>1, CarriedTyped DEF f, g, n
<1>10. g[n + 1] = Worth(X, b, x.msg) /\ g[n + 1] \in Nat
  BY <1>1, <1>2, <1>3
<1>11. Carried(X, b, q) \in Nat
  BY CarriedTyped
<1>12. Carried(X, b, r) = Carried(X, b, q) + Worth(X, b, x.msg)
  BY <1>5, <1>8, <1>9, <1>10, <1>11
<1> QED
  BY <1>12 DEF r

\* A frame less, at the head.
LEMMA CarriedTail ==
    ASSUME NEW X, NEW b, NEW q \in Seq(Frame), q # <<>>
    PROVE  /\ Carried(X, b, q) = Worth(X, b, Head(q).msg) + Carried(X, b, Tail(q))
           /\ Carried(X, b, Tail(q)) \in Nat /\ Worth(X, b, Head(q).msg) \in Nat
<1> DEFINE r == Tail(q)
           f == WorthOf(X, b, q)
           g == WorthOf(X, b, r)
           n == Len(q) - 1
<1>1. r \in Seq(Frame) /\ Len(r) = n /\ n \in Nat /\ Len(q) = n + 1
  OBVIOUS
<1>2. Head(q) = q[1] /\ \A i \in 1..n : r[i] = q[i + 1]
  OBVIOUS
<1> HIDE DEF r, f, g, n
<1>3. \A i \in 1..(n + 1) : f[i] = Worth(X, b, q[i].msg) /\ f[i] \in Nat
  BY <1>1, CarriedTyped DEF f
<1>4. \A i \in 1..n : g[i] = Worth(X, b, r[i].msg)
  BY <1>1, CarriedTyped DEF g
<1>5. \A i \in 1..n : g[i] = f[i + 1]
  <2> SUFFICES ASSUME NEW i \in 1..n PROVE g[i] = f[i + 1]
    OBVIOUS
  <2>1. i + 1 \in 1..(n + 1)
    BY <1>1
  <2>2. g[i] = Worth(X, b, r[i].msg) /\ f[i + 1] = Worth(X, b, q[i + 1].msg)
    BY <1>3, <1>4, <2>1
  <2> QED
    BY <1>2, <2>2
<1>6. SumOver(f, 1..(n + 1)) = f[1] + SumOver(g, 1..n)
  <2>1. \A i \in 1..(n + 1) : f[i] \in Nat
    BY <1>3
  <2>2. n \in Nat
    BY <1>1
  <2> QED
    BY <1>5, <2>1, <2>2, SumShift
<1>7. Carried(X, b, q) = SumOver(f, 1..(n + 1)) /\ Carried(X, b, r) = SumOver(g, 1..n)
  BY <1>1, CarriedTyped DEF f, g
<1>8. f[1] = Worth(X, b, Head(q).msg) /\ f[1] \in Nat
  BY <1>1, <1>2, <1>3
<1>9. Carried(X, b, r) \in Nat
  BY <1>1, CarriedTyped
<1> QED
  BY <1>6, <1>7, <1>8, <1>9 DEF r

\* Frames less, at the end.
LEMMA CarriedPrefix ==
    ASSUME NEW X, NEW b, NEW q \in Seq(Frame), NEW n \in 0..Len(q)
    PROVE  Carried(X, b, SubSeq(q, 1, n)) <= Carried(X, b, q)
<1> DEFINE r == SubSeq(q, 1, n)
           f == WorthOf(X, b, q)
           g == WorthOf(X, b, r)
<1>1. r \in Seq(Frame) /\ Len(r) = n /\ \A i \in 1..n : r[i] = q[i]
  OBVIOUS
<1>2. 1..n \in SUBSET (1..Len(q))
  OBVIOUS
<1> HIDE DEF r, f, g
<1>3. IsFiniteSet(1..n) /\ IsFiniteSet(1..Len(q))
  BY FS_Interval
<1>4. \A i \in 1..n : g[i] = Worth(X, b, r[i].msg)
  BY <1>1, CarriedTyped DEF g
<1>5. \A i \in 1..Len(q) : f[i] = Worth(X, b, q[i].msg) /\ f[i] \in Nat
  BY CarriedTyped DEF f
<1>6. \A i \in 1..n : f[i] = g[i]
  BY <1>1, <1>2, <1>4, <1>5
<1>7. SumOver(f, 1..n) = SumOver(g, 1..n)
  BY <1>3, <1>6, SumEqual
<1>8. SumOver(f, 1..n) <= SumOver(f, 1..Len(q))
  BY <1>2, <1>3, <1>5, SumMonotone
<1>9. Carried(X, b, r) = SumOver(g, 1..n) /\ Carried(X, b, q) = SumOver(f, 1..Len(q))
  BY <1>1, CarriedTyped DEF f, g
<1> QED
  BY <1>7, <1>8, <1>9 DEF r

\* Every part of the books is a number, before and after a step: the cache,
LEMMA UnsentTyped ==
    ASSUME TypeInv, TypeInv', NEW X
    PROVE  /\ \A k \in Keys : UnsentOf(X)[k] \in Nat /\ (UnsentOf(X)')[k] \in Nat
           /\ Unsent(X) \in Nat /\ Unsent(X)' \in Nat
<1>1. \A k \in Keys : cache[k].n \in Nat /\ cache'[k].n \in Nat
  BY DEF TypeInv, TypeOK, Count
<1>2. \A k \in Keys : UnsentOf(X)[k] \in Nat /\ (UnsentOf(X)')[k] \in Nat
  BY <1>1 DEF UnsentOf
<1> QED
  BY <1>2, ConstantsTyped, SumType DEF Unsent

\* the senders,
LEMMA SendingTyped ==
    ASSUME TypeInv, TypeInv', NEW X, NEW b
    PROVE  /\ \A s \in Senders : Worth(X, b, cur[s]) \in Nat /\ Worth(X, b, cur'[s]) \in Nat
           /\ Sending(X, b) \in Nat /\ Sending(X, b)' \in Nat
<1>1. \A s \in Senders : cur[s] \in Message /\ cur'[s] \in Message
  BY DEF TypeInv, TypeOK
<1>2. \A s \in Senders : Worth(X, b, cur[s]) \in Nat /\ Worth(X, b, cur'[s]) \in Nat
  BY <1>1, WorthTyped
<1> QED
  BY <1>2 DEF Sending, Senders

\* the wires,
LEMMA OnWireTyped ==
    ASSUME TypeInv, TypeInv', NEW X, NEW b
    PROVE  /\ \A e \in Links : /\ OnWireOf(X, b)[e] = Carried(X, b, wire[e])
                               /\ (OnWireOf(X, b)')[e] = Carried(X, b, wire'[e])
                               /\ OnWireOf(X, b)[e] \in Nat /\ (OnWireOf(X, b)')[e] \in Nat
           /\ OnWire(X, b) \in Nat /\ OnWire(X, b)' \in Nat
<1>1. \A e \in Links : wire[e] \in Seq(Frame) /\ wire'[e] \in Seq(Frame)
  BY DEF TypeInv, TypeOK
<1>2. \A e \in Links : Carried(X, b, wire[e]) \in Nat /\ Carried(X, b, wire'[e]) \in Nat
  BY <1>1, CarriedTyped
<1>3. \A e \in Links : /\ OnWireOf(X, b)[e] = Carried(X, b, wire[e])
                       /\ (OnWireOf(X, b)')[e] = Carried(X, b, wire'[e])
  BY DEF OnWireOf
<1> QED
  BY <1>2, <1>3, ConstantsTyped, SumType DEF OnWire

\* the handlers,
LEMMA StoringTyped ==
    ASSUME TypeInv, TypeInv', NEW X, NEW b
    PROVE  /\ \A e \in Links : StoringOf(X, b)[e] \in Nat /\ (StoringOf(X, b)')[e] \in Nat
           /\ Storing(X, b) \in Nat /\ Storing(X, b)' \in Nat
<1>1. \A e \in Links : job[e] \in Message /\ job'[e] \in Message
  BY DEF TypeInv, TypeOK
<1>2. \A e \in Links : Worth(X, b, job[e]) \in Nat /\ Worth(X, b, job'[e]) \in Nat
  BY <1>1, WorthTyped
<1>3. \A e \in Links : StoringOf(X, b)[e] \in Nat /\ (StoringOf(X, b)')[e] \in Nat
  BY <1>2 DEF StoringOf
<1> QED
  BY <1>3, ConstantsTyped, SumType DEF Storing

\* and the tables.
LEMMA CountsTyped ==
    ASSUME NEW X, NEW t \in [Wallets -> Count]
    PROVE  /\ \A w \in Wallets : CountsOf(X, t)[w] = IF w \in X THEN t[w].n ELSE 0
           /\ \A w \in Wallets : CountsOf(X, t)[w] \in Nat /\ t[w].n \in Nat
           /\ Counts(X, t) \in Nat
<1>1. \A w \in Wallets : t[w].n \in Nat
  BY DEF Count
<1>2. \A w \in Wallets : /\ CountsOf(X, t)[w] = IF w \in X THEN t[w].n ELSE 0
                         /\ CountsOf(X, t)[w] \in Nat
  BY <1>1 DEF CountsOf
<1> QED
  BY <1>1, <1>2, ConstantsTyped, SumType DEF Counts

\* One key of the cache changes.
LEMMA UnsentChange ==
    ASSUME TypeInv, TypeInv', NEW X, NEW k \in Keys,
           \A j \in Keys \ {k} : UnsentOf(X)[j] = (UnsentOf(X)')[j]
    PROVE  Unsent(X)' + UnsentOf(X)[k] = Unsent(X) + (UnsentOf(X)')[k]
<1> DEFINE f == UnsentOf(X)
           g == UnsentOf(X)'
<1>1. Unsent(X) = SumOver(f, Keys) /\ Unsent(X)' = SumOver(g, Keys)
  BY DEF Unsent
<1>2. \A j \in Keys : f[j] \in Nat /\ g[j] \in Nat
  BY UnsentTyped
<1> HIDE DEF f, g
<1>3. \A j \in Keys \ {k} : f[j] = g[j]
  BY DEF f, g
<1>4. SumOver(g, Keys) + f[k] = SumOver(f, Keys) + g[k]
  BY <1>2, <1>3, ConstantsTyped, SumUpdate
<1> QED
  BY <1>1, <1>4 DEF f, g

\* No key of the cache changes.
LEMMA UnsentSame ==
    ASSUME TypeInv, TypeInv', NEW X, \A j \in Keys : UnsentOf(X)[j] = (UnsentOf(X)')[j]
    PROVE  Unsent(X)' = Unsent(X)
<1> DEFINE f == UnsentOf(X)
           g == UnsentOf(X)'
<1>1. Unsent(X) = SumOver(f, Keys) /\ Unsent(X)' = SumOver(g, Keys)
  BY DEF Unsent
<1> HIDE DEF f, g
<1>3. \A j \in Keys : f[j] = g[j]
  BY DEF f, g
<1>4. SumOver(g, Keys) = SumOver(f, Keys)
  BY <1>3, ConstantsTyped, SumEqual
<1> QED
  BY <1>1, <1>4 DEF f, g

\* One wire changes.
LEMMA OnWireChange ==
    ASSUME TypeInv, TypeInv', NEW X, NEW b, NEW e \in Links,
           \A g \in Links \ {e} : wire'[g] = wire[g]
    PROVE  OnWire(X, b)' + Carried(X, b, wire[e]) = OnWire(X, b) + Carried(X, b, wire'[e])
<1> DEFINE f == OnWireOf(X, b)
           g == OnWireOf(X, b)'
<1>1. OnWire(X, b) = SumOver(f, Links) /\ OnWire(X, b)' = SumOver(g, Links)
  BY DEF OnWire
<1>2. \A j \in Links : /\ f[j] \in Nat /\ g[j] \in Nat
                       /\ f[j] = Carried(X, b, wire[j]) /\ g[j] = Carried(X, b, wire'[j])
  BY OnWireTyped
<1> HIDE DEF f, g
<1>3. \A j \in Links \ {e} : f[j] = g[j]
  BY <1>2
<1>4. SumOver(g, Links) + f[e] = SumOver(f, Links) + g[e]
  BY <1>2, <1>3, ConstantsTyped, SumUpdate
<1> QED
  BY <1>1, <1>2, <1>4

\* One handler changes.
LEMMA StoringChange ==
    ASSUME TypeInv, TypeInv', NEW X, NEW b, NEW e \in Links,
           \A g \in Links \ {e} : StoringOf(X, b)[g] = (StoringOf(X, b)')[g]
    PROVE  Storing(X, b)' + StoringOf(X, b)[e] = Storing(X, b) + (StoringOf(X, b)')[e]
<1> DEFINE f == StoringOf(X, b)
           g == StoringOf(X, b)'
<1>1. Storing(X, b) = SumOver(f, Links) /\ Storing(X, b)' = SumOver(g, Links)
  BY DEF Storing
<1>2. \A j \in Links : f[j] \in Nat /\ g[j] \in Nat
  BY StoringTyped
<1> HIDE DEF f, g
<1>3. \A j \in Links \ {e} : f[j] = g[j]
  BY DEF f, g
<1>4. SumOver(g, Links) + f[e] = SumOver(f, Links) + g[e]
  BY <1>2, <1>3, ConstantsTyped, SumUpdate
<1> QED
  BY <1>1, <1>4 DEF f, g

\* No handler takes up or gives up a job.
LEMMA StoringSame ==
    ASSUME TypeInv, TypeInv', NEW X, NEW b,
           \A e \in Links : StoringOf(X, b)[e] = (StoringOf(X, b)')[e]
    PROVE  Storing(X, b)' = Storing(X, b)
<1> DEFINE f == StoringOf(X, b)
           g == StoringOf(X, b)'
<1>1. Storing(X, b) = SumOver(f, Links) /\ Storing(X, b)' = SumOver(g, Links)
  BY DEF Storing
<1> HIDE DEF f, g
<1>3. \A j \in Links : f[j] = g[j]
  BY DEF f, g
<1>4. SumOver(g, Links) = SumOver(f, Links)
  BY <1>3, ConstantsTyped, SumEqual
<1> QED
  BY <1>1, <1>4 DEF f, g

\* A wallet's count goes up by one.
LEMMA CountsPlus ==
    ASSUME NEW X, NEW t \in [Wallets -> Count], NEW u \in [Wallets -> Count], NEW w \in Wallets,
           u[w].n = t[w].n + 1, \A v \in Wallets \ {w} : u[v] = t[v]
    PROVE  Counts(X, u) = Counts(X, t) + IF w \in X THEN 1 ELSE 0
<1> DEFINE f == CountsOf(X, t)
           g == CountsOf(X, u)
<1>1. Counts(X, t) = SumOver(f, Wallets) /\ Counts(X, u) = SumOver(g, Wallets)
  BY DEF Counts
<1>2. \A v \in Wallets : /\ f[v] \in Nat /\ g[v] \in Nat
                         /\ f[v] = (IF v \in X THEN t[v].n ELSE 0)
                         /\ g[v] = (IF v \in X THEN u[v].n ELSE 0)
  BY CountsTyped
<1>3. Counts(X, t) \in Nat /\ Counts(X, u) \in Nat
  BY CountsTyped
<1> HIDE DEF f, g
<1>4. \A v \in Wallets \ {w} : f[v] = g[v]
  BY <1>2
<1>5. SumOver(g, Wallets) + f[w] = SumOver(f, Wallets) + g[w]
  BY <1>2, <1>4, ConstantsTyped, SumUpdate
<1>6. g[w] = f[w] + IF w \in X THEN 1 ELSE 0
  BY <1>2, CountsTyped
<1>7. f[w] \in Nat /\ g[w] \in Nat
  BY <1>2
<1> QED
  BY <1>1, <1>3, <1>5, <1>6, <1>7

\* Parts a step leaves alone.
LEMMA PartsSame ==
    ASSUME TypeInv, TypeInv', NEW X, NEW b
    PROVE  /\ (/\ cache' = cache /\ todo' = todo
               /\ pc'["flush"] = "idle" <=> pc["flush"] = "idle") => Unsent(X)' = Unsent(X)
           /\ cur' = cur => Sending(X, b)' = Sending(X, b)
           /\ wire' = wire => OnWire(X, b)' = OnWire(X, b)
           /\ (handler' = handler /\ job' = job) => Storing(X, b)' = Storing(X, b)
           /\ added' = added => Counts(X, added)' = Counts(X, added)
           /\ accepted' = accepted => Counts(X, accepted)' = Counts(X, accepted)
<1>1. ASSUME cache' = cache, todo' = todo, pc'["flush"] = "idle" <=> pc["flush"] = "idle"
      PROVE  Unsent(X)' = Unsent(X)
  <2>1. \A j \in Keys : UnsentOf(X)[j] = (UnsentOf(X)')[j]
    BY <1>1 DEF UnsentOf
  <2> QED
    BY <2>1, UnsentSame
<1>2. cur' = cur => Sending(X, b)' = Sending(X, b)
  BY DEF Sending
<1>3. wire' = wire => OnWire(X, b)' = OnWire(X, b)
  BY DEF OnWire, OnWireOf
<1>4. (handler' = handler /\ job' = job) => Storing(X, b)' = Storing(X, b)
  BY DEF Storing, StoringOf
<1>5. /\ added' = added => Counts(X, added)' = Counts(X, added)
      /\ accepted' = accepted => Counts(X, accepted)' = Counts(X, accepted)
  BY DEF Counts, CountsOf
<1> QED
  BY <1>1, <1>2, <1>3, <1>4, <1>5

\* The parts are numbers.
LEMMA PartsTyped ==
    ASSUME TypeInv, TypeInv', NEW X, NEW b
    PROVE  /\ Unsent(X) \in Nat /\ Unsent(X)' \in Nat
           /\ Sending(X, b) \in Nat /\ Sending(X, b)' \in Nat
           /\ OnWire(X, b) \in Nat /\ OnWire(X, b)' \in Nat
           /\ Storing(X, b) \in Nat /\ Storing(X, b)' \in Nat
           /\ Counts(X, added) \in Nat /\ Counts(X, added)' \in Nat
           /\ Counts(X, accepted) \in Nat /\ Counts(X, accepted)' \in Nat
           /\ blocks.found \in Nat /\ blocks'.found \in Nat
           /\ blocks.handled \in Nat /\ blocks'.handled \in Nat
<1>1. /\ added \in [Wallets -> Count] /\ added' \in [Wallets -> Count]
      /\ accepted \in [Wallets -> Count] /\ accepted' \in [Wallets -> Count]
  BY DEF TypeInv, TypeOK
<1>2. /\ Counts(X, added) \in Nat /\ Counts(X, added') \in Nat
      /\ Counts(X, accepted) \in Nat /\ Counts(X, accepted') \in Nat
  BY <1>1, CountsTyped
<1>3. /\ blocks.found \in Nat /\ blocks'.found \in Nat
      /\ blocks.handled \in Nat /\ blocks'.handled \in Nat
  BY DEF TypeInv, TypeOK
<1> QED
  BY <1>2, <1>3, UnsentTyped, SendingTyped, OnWireTyped, StoringTyped

-----------------------------------------------------------------------------
(* What a step does to the books.                                          *)

NoGain(X, b) == Held(X, b)' + Given(X, b) <= Held(X, b) + Given(X, b)'

NoLoss(X, b) == Held(X, b)' + Given(X, b) = Held(X, b) + Given(X, b)'

\* No step gains anything, and a step that leaves the first link in use loses no share.
Balanced(X, b) ==
    /\ NoGain(X, b)
    /\ FirstLinkInUse' =>
          FirstLinkInUse /\ (X = Wallets /\ b = 0 => NoLoss(X, b))

\* A share is accepted: one more in the cache, one more given.
LEMMA SendShareBalanced ==
    ASSUME TypeInv, TypeInv', NEW X \in Closed, NEW b \in 0..1,
           NEW k \in Keys, NEW d \in Diffs, SendShareWithWorker(k, d)
    PROVE  Balanced(X, b)
<1> DEFINE one == IF Credited(WalletOfKey(k)) \in X THEN 1 ELSE 0
           paid == IF k[1] \in X THEN 1 ELSE 0
<1>1. k[1] \in Wallets /\ Credited(WalletOfKey(k)) \in Wallets
  BY ConstantsTyped DEF Credited
<1>2. /\ pc["flush"] = "idle" /\ pc'["flush"] = "idle"
      /\ cache' = [cache EXCEPT ![k] = [n |-> cache[k].n + 1, diff |-> cache[k].diff + d]]
      /\ accepted' = [accepted EXCEPT ![k[1]] = [n |-> accepted[k[1]].n + 1,
                                                 diff |-> accepted[k[1]].diff + d]]
      /\ UNCHANGED <<alive, conn, dials, pc, cur, todo, up, wire, handler, job, added, blocks>>
  BY DEF SendShareWithWorker, masterVars
<1>3. Unsent(X)' = Unsent(X) + one
  <2>1. cache \in [Keys -> Count] /\ cache[k].n \in Nat
    BY DEF TypeInv, TypeOK, Count
  <2>2. \A j \in Keys \ {k} : UnsentOf(X)[j] = (UnsentOf(X)')[j]
    BY <1>2, <2>1 DEF UnsentOf
  <2>3. (UnsentOf(X)')[k] = UnsentOf(X)[k] + one
    BY <1>2, <2>1 DEF UnsentOf
  <2>4. UnsentOf(X)[k] \in Nat /\ Unsent(X) \in Nat /\ Unsent(X)' \in Nat /\ one \in Nat
    BY UnsentTyped
  <2> HIDE DEF one
  <2>5. Unsent(X)' + UnsentOf(X)[k] = Unsent(X) + (UnsentOf(X)')[k]
    BY <2>2, UnsentChange
  <2> QED
    BY <2>3, <2>4, <2>5
<1>4. Counts(X, accepted)' = Counts(X, accepted) + paid
  <2>1. accepted \in [Wallets -> Count] /\ accepted' \in [Wallets -> Count]
    BY DEF TypeInv, TypeOK
  <2>2. accepted'[k[1]].n = accepted[k[1]].n + 1
    BY <1>1, <1>2, <2>1
  <2>3. \A v \in Wallets \ {k[1]} : accepted'[v] = accepted[v]
    BY <1>1, <1>2, <2>1
  <2> QED
    BY <1>1, <2>1, <2>2, <2>3, CountsPlus
<1>5. /\ Sending(X, b)' = Sending(X, b) /\ OnWire(X, b)' = OnWire(X, b)
      /\ Storing(X, b)' = Storing(X, b) /\ Counts(X, added)' = Counts(X, added)
      /\ blocks' = blocks
  BY <1>2, PartsSame
<1>6. one <= paid /\ (X = Wallets => one = paid) /\ one \in Nat /\ paid \in Nat
  BY <1>1 DEF Closed
<1>7. FirstLinkInUse' => FirstLinkInUse
  BY <1>2 DEF FirstLinkInUse
<1> HIDE DEF one, paid
<1> QED
  BY <1>3, <1>4, <1>5, <1>6, <1>7, PartsTyped DEF Balanced, NoGain, NoLoss, Held, Given

\* The flush moves shares from the cache to its sender, and empties the cache when there
\* is none left to send.
LEMMA FlushBalanced ==
    ASSUME TypeInv, TypeInv', NEW X \in Closed, NEW b \in 0..1, Flush
    PROVE  Balanced(X, b)
<1>1. UNCHANGED <<alive, conn, dials, up, wire, handler, job, added, blocks, accepted>>
  BY DEF Flush, FlushSkip, FlushBegin, FlushNext, FlushEnd, vars, slaveVars, masterVars
<1>2. Unsent(X)' + Sending(X, b)' = Unsent(X) + Sending(X, b)
  <2>1. CASE FlushSkip
    BY <2>1, PartsSame DEF FlushSkip, vars, slaveVars
  <2>2. CASE FlushBegin
    <3>1. \A j \in Keys : cache[j].n \in Nat
      BY DEF TypeInv, TypeOK, Count
    <3>2. /\ pc["flush"] = "idle" /\ pc'["flush"] = "next"
          /\ todo' = {j \in Keys : cache[j].n > 0} /\ cache' = cache /\ cur' = cur
      BY <2>2 DEF FlushBegin, TypeInv, TypeOK, Senders
    <3>3. \A j \in Keys : UnsentOf(X)[j] = (UnsentOf(X)')[j]
      BY <3>1, <3>2 DEF UnsentOf
    <3> QED
      BY <3>2, <3>3, UnsentSame, PartsSame
  <2>3. ASSUME NEW k \in Keys, FlushNext(k)
        PROVE  Unsent(X)' + Sending(X, b)' = Unsent(X) + Sending(X, b)
    <3> DEFINE m == Share(WalletOfKey(k), cache[k])
    <3>1. /\ pc["flush"] = "next" /\ pc'["flush"] = "check"
          /\ k \in todo /\ todo' = todo \ {k} /\ cache' = cache
          /\ cur["flush"] = NoMessage /\ cur'["flush"] = m
          /\ cur'["stats"] = cur["stats"] /\ cur'["block"] = cur["block"]
      BY <2>3 DEF FlushNext, TypeInv, TypeOK, SendersMatch, Senders
    <3>2. cache[k] \in Count /\ cache[k].n > 0
      BY <3>1 DEF TypeInv, TypeOK, TodoIsCached
    <3>3. m \in Message /\ m.type = "share" /\ m.n = cache[k].n /\ m.wallet = WalletOfKey(k)
      BY <3>2, MessagesTyped DEF Share
    <3>4. /\ Worth(X, b, cur["flush"]) = 0
          /\ Worth(X, b, cur'["flush"]) = UnsentOf(X)[k]
      <4> HIDE DEF m
      <4>1. Worth(X, b, m) = IF Credited(WalletOfKey(k)) \in X THEN cache[k].n ELSE 0
        BY <3>3, WorthTyped
      <4>2. UnsentOf(X)[k] = IF Credited(WalletOfKey(k)) \in X THEN cache[k].n ELSE 0
        BY <3>1 DEF UnsentOf
      <4> QED
        BY <3>1, <4>1, <4>2, WorthTyped, MessagesTyped
    <3>5. (UnsentOf(X)')[k] = 0 /\ \A j \in Keys \ {k} : UnsentOf(X)[j] = (UnsentOf(X)')[j]
      BY <3>1 DEF UnsentOf
    <3>6. Unsent(X)' + UnsentOf(X)[k] = Unsent(X) + 0
      BY <3>5, UnsentChange
    <3>7. /\ Worth(X, b, cur["stats"]) \in Nat /\ Worth(X, b, cur["block"]) \in Nat
          /\ UnsentOf(X)[k] \in Nat /\ Unsent(X) \in Nat /\ Unsent(X)' \in Nat
      BY SendingTyped, UnsentTyped DEF Senders
    <3>8. /\ Sending(X, b) = Worth(X, b, cur["stats"]) + Worth(X, b, cur["block"])
          /\ Sending(X, b)' = UnsentOf(X)[k] + Worth(X, b, cur["stats"])
                                             + Worth(X, b, cur["block"])
      BY <3>1, <3>4, <3>7 DEF Sending
    <3> QED
      BY <3>6, <3>7, <3>8
  <2>4. CASE FlushEnd
    <3>1. /\ pc["flush"] = "next" /\ todo = {} /\ pc'["flush"] = "idle"
          /\ cache' = [j \in Keys |-> ZeroCount] /\ cur' = cur
      BY <2>4 DEF FlushEnd, TypeInv, TypeOK, Senders
    <3>2. \A j \in Keys : UnsentOf(X)[j] = (UnsentOf(X)')[j]
      BY <3>1 DEF UnsentOf, ZeroCount
    <3> QED
      BY <3>1, <3>2, UnsentSame, PartsSame
  <2> QED
    BY <2>1, <2>2, <2>3, <2>4 DEF Flush
<1>3. /\ OnWire(X, b)' = OnWire(X, b) /\ Storing(X, b)' = Storing(X, b)
      /\ Counts(X, added)' = Counts(X, added) /\ Counts(X, accepted)' = Counts(X, accepted)
      /\ blocks' = blocks
  BY <1>1, PartsSame
<1>4. FirstLinkInUse' => FirstLinkInUse
  BY <1>1 DEF FirstLinkInUse
<1> QED
  BY <1>2, <1>3, <1>4, PartsTyped DEF Balanced, NoGain, NoLoss, Held, Given

\* A stats packet is worth nothing, a block packet one block.
LEMMA PacketBalanced ==
    ASSUME TypeInv, TypeInv', NEW X \in Closed, NEW b \in 0..1, SendStats \/ SendBlockFound
    PROVE  Balanced(X, b)
<1>1. /\ UNCHANGED <<alive, conn, dials, cache, todo, up, wire, handler, job, added, accepted>>
      /\ pc'["flush"] = pc["flush"]
  BY DEF SendStats, SendBlockFound, masterVars, TypeInv, TypeOK, Senders
<1>2. /\ Unsent(X)' = Unsent(X) /\ OnWire(X, b)' = OnWire(X, b)
      /\ Storing(X, b)' = Storing(X, b)
      /\ Counts(X, added)' = Counts(X, added) /\ Counts(X, accepted)' = Counts(X, accepted)
  BY <1>1, PartsSame
<1>3. /\ Worth(X, b, NoMessage) = 0 /\ Worth(X, b, Stats) = 0
      /\ Worth(X, b, Block) = IF b = 1 THEN 1 ELSE 0
  BY WorthTyped, MessagesTyped
<1>4. /\ Worth(X, b, cur["flush"]) \in Nat
      /\ Worth(X, b, cur["stats"]) \in Nat /\ Worth(X, b, cur["block"]) \in Nat
  BY SendingTyped DEF Senders
<1>5. FirstLinkInUse' => FirstLinkInUse
  BY <1>1 DEF FirstLinkInUse
<1>6. CASE SendStats
  <2>1. /\ cur["stats"] = NoMessage /\ cur'["stats"] = Stats
        /\ cur'["flush"] = cur["flush"] /\ cur'["block"] = cur["block"]
        /\ blocks' = blocks
    BY <1>6 DEF SendStats, TypeInv, TypeOK, SendersMatch, Senders
  <2>2. Sending(X, b)' = Sending(X, b)
    BY <1>3, <2>1 DEF Sending
  <2> QED
    BY <1>2, <1>5, <2>1, <2>2, PartsTyped DEF Balanced, NoGain, NoLoss, Held, Given
<1>7. CASE SendBlockFound
  <2>1. /\ cur["block"] = NoMessage /\ cur'["block"] = Block
        /\ cur'["flush"] = cur["flush"] /\ cur'["stats"] = cur["stats"]
        /\ blocks'.found = blocks.found + 1 /\ blocks'.handled = blocks.handled
    BY <1>7 DEF SendBlockFound, TypeInv, TypeOK, SendersMatch, Senders
  <2>2. Sending(X, b)' = Sending(X, b) + IF b = 1 THEN 1 ELSE 0
    BY <1>3, <1>4, <2>1 DEF Sending
  <2> QED
    BY <1>2, <1>5, <2>1, <2>2, PartsTyped DEF Balanced, NoGain, NoLoss, Held, Given
<1> QED
  BY <1>6, <1>7

\* sendToConn returns: its message is out of the sender's hands.
LEMMA ReturnWorth ==
    ASSUME TypeInv, TypeInv', NEW X, NEW b, NEW s \in Senders, Return(s)
    PROVE  Sending(X, b)' + Worth(X, b, cur[s]) = Sending(X, b)
<1>1. Worth(X, b, NoMessage) = 0
  BY WorthTyped, MessagesTyped
<1>2. cur'[s] = NoMessage /\ \A t \in Senders \ {s} : cur'[t] = cur[t]
  BY DEF Return, TypeInv, TypeOK
<1>3. \A t \in Senders : Worth(X, b, cur[t]) \in Nat /\ Worth(X, b, cur'[t]) \in Nat
  BY SendingTyped
<1>4. CASE s = "flush"
  BY <1>1, <1>2, <1>3, <1>4 DEF Sending, Senders
<1>5. CASE s = "stats"
  BY <1>1, <1>2, <1>3, <1>5 DEF Sending, Senders
<1>6. CASE s = "block"
  BY <1>1, <1>2, <1>3, <1>6 DEF Sending, Senders
<1> QED
  BY <1>4, <1>5, <1>6 DEF Senders

\* A Write puts a frame on the wire, or it disappears; not on the first link while that
\* is in use.
LEMMA WrittenWorth ==
    ASSUME TypeInv, TypeInv', NEW X, NEW b, conn # 0, NEW x \in Frame, wire' = Written(x)
    PROVE  /\ \/ OnWire(X, b)' = OnWire(X, b)
              \/ OnWire(X, b)' = OnWire(X, b) + Worth(X, b, x.msg)
           /\ dials # 0 /\ FirstLinkInUse => OnWire(X, b)' = OnWire(X, b) + Worth(X, b, x.msg)
<1>1. CASE up[conn] /\ handler[conn] # "closed"
  <2>1. conn \in Links /\ wire \in [Links -> Seq(Frame)]
    BY ConstantsTyped DEF TypeInv, TypeOK, Links
  <2>2. wire' = [wire EXCEPT ![conn] = Append(wire[conn], x)]
    BY <1>1 DEF Written
  <2>3. \A g \in Links \ {conn} : wire'[g] = wire[g]
    BY <2>1, <2>2
  <2>4. wire'[conn] = Append(wire[conn], x) /\ wire[conn] \in Seq(Frame)
    BY <2>1, <2>2
  <2>5. OnWire(X, b)' + Carried(X, b, wire[conn]) = OnWire(X, b) + Carried(X, b, wire'[conn])
    BY <2>1, <2>3, OnWireChange
  <2>6. Carried(X, b, wire'[conn]) = Carried(X, b, wire[conn]) + Worth(X, b, x.msg)
    BY <2>4, CarriedAppend
  <2>7. Carried(X, b, wire[conn]) \in Nat /\ Worth(X, b, x.msg) \in Nat
    BY <2>4, CarriedTyped, WorthTyped DEF Frame
  <2>8. OnWire(X, b)' = OnWire(X, b) + Worth(X, b, x.msg)
    BY <2>5, <2>6, <2>7, PartsTyped
  <2> QED
    BY <2>8
<1>2. CASE ~(up[conn] /\ handler[conn] # "closed")
  <2>1. wire' = wire
    BY <1>2 DEF Written
  <2> QED
    BY <1>2, <2>1, PartsSame DEF FirstLinkInUse
<1> QED
  BY <1>1, <1>2

\* sendToConn moves a message from its sender to a wire or loses it; it loses none while
\* the first link is in use, and no share before the first dial.
LEMMA SendBalanced ==
    ASSUME TypeInv, TypeInv', NEW X \in Closed, NEW b \in 0..1, NEW s \in Senders, Send(s)
    PROVE  Balanced(X, b)
<1>1. UNCHANGED <<conn, dials, handler, job, added, blocks, accepted>>
  BY DEF Send, CheckConn, WriteLen, WriteBody, NilWrite, masterVars
<1>2. /\ Storing(X, b)' = Storing(X, b)
      /\ Counts(X, added)' = Counts(X, added) /\ Counts(X, accepted)' = Counts(X, accepted)
      /\ blocks' = blocks
  BY <1>1, PartsSame
<1>3. /\ cur[s] \in Message /\ Worth(X, b, cur[s]) \in Nat
      /\ pc[s] \in {"check", "len", "body"} => cur[s].type = IF s = "flush" THEN "share" ELSE s
  BY SendingTyped DEF TypeInv, TypeOK, SendersMatch
<1>4. pc[s] \in {"len", "body"} => dials # 0 /\ cur[s].type # "none"
  BY <1>3 DEF TypeInv, BeforeFirstDial, Senders
<1>5. Worth(X, b, NoMessage) = 0
  BY WorthTyped, MessagesTyped
<1>6. CASE CheckConn(s) /\ conn = 0
  <2>1. Return(s) /\ pc[s] = "check" /\ UNCHANGED <<alive, cache, todo, up, wire>>
    BY <1>6 DEF CheckConn
  <2>2. pc'["flush"] = "idle" <=> pc["flush"] = "idle"
    BY <2>1, ReturnTyped
  <2>3. Unsent(X)' = Unsent(X) /\ OnWire(X, b)' = OnWire(X, b)
    BY <2>1, <2>2, PartsSame
  <2>4. Sending(X, b)' + Worth(X, b, cur[s]) = Sending(X, b)
    BY <2>1, ReturnWorth
  <2>5. FirstLinkInUse' => FirstLinkInUse
    BY <1>1, <2>1 DEF FirstLinkInUse
  <2>6. FirstLinkInUse /\ b = 0 => Worth(X, b, cur[s]) = 0
    <3> SUFFICES ASSUME FirstLinkInUse, b = 0 PROVE Worth(X, b, cur[s]) = 0
      OBVIOUS
    <3>1. dials = 0
      BY <1>6 DEF FirstLinkInUse
    <3>2. s # "flush"
      BY <2>1, <3>1 DEF TypeInv, BeforeFirstDial
    <3>3. cur[s].type \in {"stats", "block"}
      BY <1>3, <2>1, <3>2 DEF Senders
    <3> QED
      BY <1>3, <3>3, WorthTyped
  <2> QED
    BY <1>2, <1>3, <2>3, <2>4, <2>5, <2>6, PartsTyped DEF Balanced, NoGain, NoLoss, Held, Given
<1>7. CASE CheckConn(s) /\ conn # 0
  <2>1. /\ cur' = cur /\ UNCHANGED <<alive, cache, todo, up, wire>>
        /\ pc[s] = "check" /\ pc' = [pc EXCEPT ![s] = "len"]
    BY <1>7 DEF CheckConn
  <2>2. pc'["flush"] = "idle" <=> pc["flush"] = "idle"
    BY <2>1 DEF TypeInv, TypeOK
  <2>3. Unsent(X)' = Unsent(X) /\ OnWire(X, b)' = OnWire(X, b) /\ Sending(X, b)' = Sending(X, b)
    BY <2>1, <2>2, PartsSame
  <2>4. FirstLinkInUse' => FirstLinkInUse
    BY <1>1, <2>1 DEF FirstLinkInUse
  <2> QED
    BY <1>2, <2>3, <2>4, PartsTyped DEF Balanced, NoGain, NoLoss, Held, Given
<1>8. CASE WriteLen(s)
  <2>1. /\ conn # 0 /\ wire' = Written(LenFrame(cur[s])) /\ cur' = cur
        /\ UNCHANGED <<alive, cache, todo, up>>
        /\ pc[s] = "len" /\ pc' = [pc EXCEPT ![s] = "body"]
    BY <1>8 DEF WriteLen
  <2>2. LenFrame(cur[s]) \in Frame /\ LenFrame(cur[s]).msg = NoMessage
    BY <1>3, <1>4, <2>1, FramesTyped
  <2>3. OnWire(X, b)' = OnWire(X, b)
    BY <1>5, <2>1, <2>2, WrittenWorth, PartsTyped
  <2>4. pc'["flush"] = "idle" <=> pc["flush"] = "idle"
    BY <2>1 DEF TypeInv, TypeOK
  <2>5. Unsent(X)' = Unsent(X) /\ Sending(X, b)' = Sending(X, b)
    BY <2>1, <2>4, PartsSame
  <2>6. FirstLinkInUse' => FirstLinkInUse
    BY <1>1, <2>1 DEF FirstLinkInUse
  <2> QED
    BY <1>2, <2>3, <2>5, <2>6, PartsTyped DEF Balanced, NoGain, NoLoss, Held, Given
<1>9. CASE WriteBody(s)
  <2>1. /\ conn # 0 /\ wire' = Written(BodyFrame(cur[s])) /\ Return(s) /\ pc[s] = "body"
        /\ UNCHANGED <<alive, cache, todo, up>>
    BY <1>9 DEF WriteBody
  <2>2. BodyFrame(cur[s]) \in Frame /\ BodyFrame(cur[s]).msg = cur[s] /\ dials # 0
    BY <1>3, <1>4, <2>1, FramesTyped
  <2>3. /\ \/ OnWire(X, b)' = OnWire(X, b)
           \/ OnWire(X, b)' = OnWire(X, b) + Worth(X, b, cur[s])
        /\ FirstLinkInUse => OnWire(X, b)' = OnWire(X, b) + Worth(X, b, cur[s])
    BY <2>1, <2>2, WrittenWorth
  <2>4. pc'["flush"] = "idle" <=> pc["flush"] = "idle"
    BY <2>1, ReturnTyped
  <2>5. Unsent(X)' = Unsent(X)
    BY <2>1, <2>4, PartsSame
  <2>6. Sending(X, b)' + Worth(X, b, cur[s]) = Sending(X, b)
    BY <2>1, ReturnWorth
  <2>7. FirstLinkInUse' => FirstLinkInUse
    BY <1>1, <2>1 DEF FirstLinkInUse
  <2> QED
    BY <1>2, <1>3, <2>3, <2>5, <2>6, <2>7, PartsTyped
       DEF Balanced, NoGain, NoLoss, Held, Given
<1>10. CASE NilWrite(s)
  <2>1. /\ pc[s] \in {"len", "body"} /\ alive' = FALSE
        /\ cache' = [k \in Keys |-> ZeroCount] /\ cur' = [t \in Senders |-> NoMessage]
        /\ wire' = wire
    BY <1>10 DEF NilWrite
  <2>2. \A k \in Keys : (UnsentOf(X)')[k] = 0
    BY <2>1 DEF UnsentOf, ZeroCount
  <2>3. Unsent(X)' = 0
    BY <2>2, ConstantsTyped, SumZero DEF Unsent
  <2>4. Sending(X, b)' = 0
    BY <1>5, <2>1 DEF Sending, Senders
  <2>5. OnWire(X, b)' = OnWire(X, b)
    BY <2>1, PartsSame
  <2>6. ~FirstLinkInUse'
    BY <1>1, <1>4, <2>1 DEF FirstLinkInUse
  <2> QED
    BY <1>2, <2>3, <2>4, <2>5, <2>6, PartsTyped DEF Balanced, NoGain, NoLoss, Held, Given
<1> QED
  BY <1>6, <1>7, <1>8, <1>9, <1>10 DEF Send

\* The client's steps move no message; only the first dial leads to the first link.
LEMMA ClientBalanced ==
    ASSUME TypeInv, TypeInv', NEW X \in Closed, NEW b \in 0..1,
           SlaveRestart \/ DialOk \/ DialFail \/ ReadError
    PROVE  Balanced(X, b)
<1>1. UNCHANGED <<cache, pc, cur, todo, wire, job, added, blocks, accepted>>
  BY DEF SlaveRestart, DialOk, DialFail, ReadError, masterVars
<1>2. Storing(X, b)' = Storing(X, b)
  <2>1. CASE DialOk
    <3>1. dials + 1 \in Links /\ dials + 1 > dials
      BY <2>1, ConstantsTyped DEF DialOk, TypeInv, TypeOK, Links
    <3>2. handler[dials + 1] = "off"
      BY <3>1 DEF TypeInv, LinksInOrder
    <3>3. handler' = [handler EXCEPT ![dials + 1] = "len"] /\ job' = job
      BY <2>1 DEF DialOk
    <3>4. \A e \in Links : handler'[e] = "store" <=> handler[e] = "store"
      BY <3>1, <3>2, <3>3 DEF TypeInv, TypeOK
    <3>5. \A e \in Links : StoringOf(X, b)[e] = (StoringOf(X, b)')[e]
      BY <3>3, <3>4 DEF StoringOf
    <3> QED
      BY <3>5, StoringSame
  <2>2. CASE SlaveRestart \/ DialFail \/ ReadError
    <3>1. handler' = handler /\ job' = job
      BY <2>2 DEF SlaveRestart, DialFail, ReadError, masterVars
    <3> QED
      BY <3>1, PartsSame
  <2> QED
    BY <2>1, <2>2
<1>3. /\ Unsent(X)' = Unsent(X) /\ Sending(X, b)' = Sending(X, b)
      /\ OnWire(X, b)' = OnWire(X, b)
      /\ Counts(X, added)' = Counts(X, added) /\ Counts(X, accepted)' = Counts(X, accepted)
      /\ blocks' = blocks
  BY <1>1, PartsSame
<1>4. FirstLinkInUse' => FirstLinkInUse
  <2> SUFFICES ASSUME FirstLinkInUse' PROVE FirstLinkInUse
    OBVIOUS
  <2>0. dials \in Nat /\ (dials = 0 => alive) /\ up \in [Links -> BOOLEAN]
    BY ConstantsTyped DEF TypeInv, TypeOK, BeforeFirstDial
  <2>1. CASE SlaveRestart
    BY <2>0, <2>1 DEF SlaveRestart, FirstLinkInUse
  <2>2. CASE DialOk
    BY <2>0, <2>2 DEF DialOk, FirstLinkInUse
  <2>3. CASE DialFail
    BY <2>3 DEF DialFail, FirstLinkInUse
  <2>4. CASE ReadError
    <3>1. dials' = dials /\ conn' = conn /\ up' = [up EXCEPT ![conn] = FALSE]
      BY <2>4 DEF ReadError
    <3>2. CASE dials = 0
      BY <3>2 DEF FirstLinkInUse
    <3>3. CASE dials # 0
      <4>1. dials = 1 /\ conn = 1 /\ up'[1]
        BY <3>1, <3>3 DEF FirstLinkInUse
      <4>2. 1 \in Links
        BY <4>1, ConstantsTyped DEF Links, TypeInv, TypeOK
      <4> QED
        BY <2>0, <3>1, <4>1, <4>2
    <3> QED
      BY <3>2, <3>3
  <2> QED
    BY <2>1, <2>2, <2>3, <2>4
<1> QED
  BY <1>2, <1>3, <1>4, PartsTyped DEF Balanced, NoGain, NoLoss, Held, Given

\* A live link has been dialled; while no other has, it is the first.
LEMMA DialledLink ==
    ASSUME TypeInv, NEW e \in Links, up[e] \/ handler[e] \in {"len", "body", "store"}
    PROVE  dials # 0 /\ (dials = 1 => e = 1)
<1>1. e \in Nat /\ e >= 1 /\ dials \in Nat
  BY ConstantsTyped DEF TypeInv, TypeOK, Links
<1>2. ~(e > dials)
  BY DEF TypeInv, LinksInOrder
<1> QED
  BY <1>1, <1>2

\* A link breaks: frames disappear, and the first link is not in use any more.
LEMMA NetBreakBalanced ==
    ASSUME TypeInv, TypeInv', NEW X \in Closed, NEW b \in 0..1, NEW e \in Links, NetBreak(e)
    PROVE  Balanced(X, b)
<1>1. OnWire(X, b)' <= OnWire(X, b)
  <2>1. /\ Carried(X, b, wire'[e]) <= Carried(X, b, wire[e])
        /\ \A g \in Links \ {e} : wire'[g] = wire[g]
    <3>1. PICK n \in 0..Len(wire[e]) : wire' = [wire EXCEPT ![e] = SubSeq(wire[e], 1, n)]
      BY DEF NetBreak
    <3>2. wire[e] \in Seq(Frame) /\ wire \in [Links -> Seq(Frame)]
      BY DEF TypeInv, TypeOK
    <3>3. wire'[e] = SubSeq(wire[e], 1, n) /\ \A g \in Links \ {e} : wire'[g] = wire[g]
      BY <3>1, <3>2
    <3>4. Carried(X, b, wire'[e]) <= Carried(X, b, wire[e])
      BY <3>2, <3>3, CarriedPrefix
    <3> QED
      BY <3>3, <3>4
  <2>2. OnWire(X, b)' + Carried(X, b, wire[e]) = OnWire(X, b) + Carried(X, b, wire'[e])
    BY <2>1, OnWireChange
  <2>3. Carried(X, b, wire'[e]) \in Nat /\ Carried(X, b, wire[e]) \in Nat
    BY OnWireTyped
  <2> QED
    BY <2>1, <2>2, <2>3, PartsTyped
<1>2. UNCHANGED <<dials, cache, todo, pc, cur, handler, job, added, blocks, accepted>>
  BY DEF NetBreak, slaveVars, masterVars
<1>3. /\ Unsent(X)' = Unsent(X) /\ Sending(X, b)' = Sending(X, b)
      /\ Storing(X, b)' = Storing(X, b)
      /\ Counts(X, added)' = Counts(X, added) /\ Counts(X, accepted)' = Counts(X, accepted)
      /\ blocks' = blocks
  BY <1>2, PartsSame
<1>4. ~FirstLinkInUse'
  <2>1. dials # 0 /\ (dials = 1 => e = 1)
    BY DialledLink DEF NetBreak
  <2>2. ~up'[e]
    BY DEF NetBreak, TypeInv, TypeOK
  <2> QED
    BY <1>2, <2>1, <2>2 DEF FirstLinkInUse
<1> QED
  BY <1>1, <1>3, <1>4, PartsTyped DEF Balanced, NoGain, NoLoss, Held, Given

\* A handler forgets its link: what was on the wire is lost, and the first link is not in
\* use any more.
LEMMA CleanupBalanced ==
    ASSUME TypeInv, TypeInv', NEW X \in Closed, NEW b \in 0..1, NEW e \in Links,
           handler[e] \in {"len", "body"}, Cleanup(e)
    PROVE  Balanced(X, b)
<1>1. /\ wire' = [wire EXCEPT ![e] = <<>>] /\ handler' = [handler EXCEPT ![e] = "closed"]
      /\ job' = job
      /\ UNCHANGED <<dials, cache, todo, pc, cur, added, blocks, accepted>>
  BY DEF Cleanup, slaveVars
<1>2. wire'[e] = <<>> /\ \A g \in Links \ {e} : wire'[g] = wire[g]
  BY <1>1 DEF TypeInv, TypeOK
<1>3. /\ handler'[e] = "closed" /\ \A g \in Links : handler'[g] = "store" <=> handler[g] = "store"
  BY <1>1 DEF TypeInv, TypeOK
<1>4. OnWire(X, b)' <= OnWire(X, b)
  <2>1. OnWire(X, b)' + Carried(X, b, wire[e]) = OnWire(X, b) + Carried(X, b, wire'[e])
    BY <1>2, OnWireChange
  <2>2. Carried(X, b, wire'[e]) = 0
    BY <1>2, CarriedEmpty
  <2>3. Carried(X, b, wire[e]) \in Nat
    BY OnWireTyped
  <2> QED
    BY <2>1, <2>2, <2>3, PartsTyped
<1>5. Storing(X, b)' = Storing(X, b)
  <2>1. \A g \in Links : StoringOf(X, b)[g] = (StoringOf(X, b)')[g]
    BY <1>1, <1>3 DEF StoringOf
  <2> QED
    BY <2>1, StoringSame
<1>6. /\ Unsent(X)' = Unsent(X) /\ Sending(X, b)' = Sending(X, b)
      /\ Counts(X, added)' = Counts(X, added) /\ Counts(X, accepted)' = Counts(X, accepted)
      /\ blocks' = blocks
  BY <1>1, PartsSame
<1>7. ~FirstLinkInUse'
  <2>1. dials # 0 /\ (dials = 1 => e = 1)
    BY DialledLink
  <2> QED
    BY <1>1, <1>3, <2>1 DEF FirstLinkInUse
<1> QED
  BY <1>4, <1>5, <1>6, <1>7, PartsTyped DEF Balanced, NoGain, NoLoss, Held, Given

\* The master takes the frame at the head off a wire.
LEMMA TakenOff ==
    ASSUME TypeInv, TypeInv', NEW X, NEW b, NEW e \in Links, wire[e] # <<>>,
           wire' = [wire EXCEPT ![e] = Tail(wire[e])]
    PROVE  /\ OnWire(X, b)' + Worth(X, b, Head(wire[e]).msg) = OnWire(X, b)
           /\ Worth(X, b, Head(wire[e]).msg) \in Nat
<1>1. wire[e] \in Seq(Frame) /\ wire \in [Links -> Seq(Frame)]
  BY DEF TypeInv, TypeOK
<1>2. wire'[e] = Tail(wire[e]) /\ \A g \in Links \ {e} : wire'[g] = wire[g]
  BY <1>1
<1>3. OnWire(X, b)' + Carried(X, b, wire[e]) = OnWire(X, b) + Carried(X, b, wire'[e])
  BY <1>2, OnWireChange
<1>4. /\ Carried(X, b, wire[e]) = Worth(X, b, Head(wire[e]).msg) + Carried(X, b, wire'[e])
      /\ Carried(X, b, wire'[e]) \in Nat /\ Worth(X, b, Head(wire[e]).msg) \in Nat
  BY <1>1, <1>2, CarriedTail
<1>5. OnWire(X, b)' \in Nat /\ OnWire(X, b) \in Nat
  BY PartsTyped
<1> DEFINE v == Worth(X, b, Head(wire[e]).msg)
           c == Carried(X, b, wire[e])
           d == Carried(X, b, wire'[e])
<1>6. OnWire(X, b)' + c = OnWire(X, b) + d /\ c = v + d /\ d \in Nat /\ v \in Nat
  BY <1>3, <1>4
<1> HIDE DEF v, c, d
<1>7. OnWire(X, b)' + v = OnWire(X, b) /\ v \in Nat
  BY <1>5, <1>6
<1> QED
  BY <1>7 DEF v

\* Reading a length never takes a share or a block off the wire.
LEMMA ReadLenBalanced ==
    ASSUME TypeInv, TypeInv', NEW X \in Closed, NEW b \in 0..1, NEW e \in Links, ReadLen(e)
    PROVE  Balanced(X, b)
<1>1. /\ wire[e] # <<>> /\ Head(wire[e]).size = 2
      /\ wire' = [wire EXCEPT ![e] = Tail(wire[e])]
      /\ handler[e] = "len" /\ handler' = [handler EXCEPT ![e] = "body"] /\ job' = job
      /\ UNCHANGED <<alive, conn, dials, up, cache, todo, pc, cur, added, blocks, accepted>>
  BY DEF ReadLen, slaveVars
<1> DEFINE m == Head(wire[e]).msg
<1>2. m \in Message /\ Head(wire[e]) \in Frame
  BY <1>1, TailTyped
<1>3. m.type \notin {"share", "block"}
  BY <1>1, <1>2 DEF Frame, Size
<1>4. Worth(X, b, m) = 0
  BY <1>2, <1>3, WorthTyped
<1>5. OnWire(X, b)' = OnWire(X, b)
  <2>1. OnWire(X, b)' + Worth(X, b, m) = OnWire(X, b)
    BY <1>1, TakenOff
  <2> QED
    BY <1>4, <2>1, PartsTyped
<1>6. \A g \in Links : /\ handler'[g] = "store" <=> handler[g] = "store"
                       /\ handler'[g] = "closed" <=> handler[g] = "closed"
  BY <1>1 DEF TypeInv, TypeOK
<1>7. Storing(X, b)' = Storing(X, b)
  <2>1. \A g \in Links : StoringOf(X, b)[g] = (StoringOf(X, b)')[g]
    BY <1>1, <1>6 DEF StoringOf
  <2> QED
    BY <2>1, StoringSame
<1>8. /\ Unsent(X)' = Unsent(X) /\ Sending(X, b)' = Sending(X, b)
      /\ Counts(X, added)' = Counts(X, added) /\ Counts(X, accepted)' = Counts(X, accepted)
      /\ blocks' = blocks
  BY <1>1, PartsSame
<1>9. FirstLinkInUse' => FirstLinkInUse
  <2>1. dials = 1 => 1 \in Links
    BY ConstantsTyped DEF TypeInv, TypeOK, Links
  <2> QED
    BY <1>1, <1>6, <2>1 DEF FirstLinkInUse
<1> QED
  BY <1>5, <1>7, <1>8, <1>9, PartsTyped DEF Balanced, NoGain, NoLoss, Held, Given

\* Reading a body hands its shares to OnShareFound and counts its block.
LEMMA ReadBodyBalanced ==
    ASSUME TypeInv, TypeInv', NEW X \in Closed, NEW b \in 0..1, NEW e \in Links, ReadBody(e)
    PROVE  Balanced(X, b)
<1> DEFINE m == Head(wire[e]).msg
<1>1. /\ wire[e] # <<>> /\ handler[e] = "body"
      /\ wire' = [wire EXCEPT ![e] = Tail(wire[e])]
      /\ handler' = [handler EXCEPT ![e] = IF m.type = "share" THEN "store" ELSE "len"]
      /\ job' = IF m.type = "share" THEN [job EXCEPT ![e] = m] ELSE job
      /\ blocks' = IF m.type = "block" THEN [blocks EXCEPT !.handled = @ + 1] ELSE blocks
      /\ UNCHANGED <<alive, conn, dials, up, cache, todo, pc, cur, added, accepted>>
  BY DEF ReadBody, slaveVars
<1>2. m \in Message
  BY <1>1, TailTyped
<1>3. /\ OnWire(X, b)' + Worth(X, b, m) = OnWire(X, b)
      /\ Worth(X, b, m) \in Nat
  BY <1>1, TakenOff
<1> HIDE DEF m
<1>4. /\ handler \in [Links -> {"off", "len", "body", "store", "closed"}]
      /\ job \in [Links -> Message] /\ blocks \in [found: Nat, handled: Nat]
  BY DEF TypeInv, TypeOK
<1>5. /\ \A g \in Links \ {e} : handler'[g] = handler[g] /\ job'[g] = job[g]
      /\ handler'[e] = IF m.type = "share" THEN "store" ELSE "len"
      /\ m.type = "share" => job'[e] = m
  BY <1>1, <1>4
<1>6. Storing(X, b)' = Storing(X, b) + IF m.type = "share" THEN Worth(X, b, m) ELSE 0
  <2>1. \A g \in Links \ {e} : StoringOf(X, b)[g] = (StoringOf(X, b)')[g]
    BY <1>5 DEF StoringOf
  <2>2. /\ StoringOf(X, b)[e] = 0
        /\ (StoringOf(X, b)')[e] = IF m.type = "share" THEN Worth(X, b, m) ELSE 0
    BY <1>1, <1>5 DEF StoringOf
  <2>3. Storing(X, b)' + StoringOf(X, b)[e] = Storing(X, b) + (StoringOf(X, b)')[e]
    BY <2>1, StoringChange
  <2> QED
    BY <1>3, <2>2, <2>3, PartsTyped
<1>7. /\ blocks'.found = blocks.found
      /\ blocks'.handled = blocks.handled + IF m.type = "block" THEN 1 ELSE 0
  BY <1>1, <1>4
<1>8. /\ m.type = "block" => Worth(X, b, m) = IF b = 1 THEN 1 ELSE 0
      /\ m.type \notin {"share", "block"} => Worth(X, b, m) = 0
  BY <1>2, WorthTyped
<1>9. /\ Unsent(X)' = Unsent(X) /\ Sending(X, b)' = Sending(X, b)
      /\ Counts(X, added)' = Counts(X, added) /\ Counts(X, accepted)' = Counts(X, accepted)
  BY <1>1, PartsSame
<1>10. FirstLinkInUse' => FirstLinkInUse
  <2>1. dials = 1 => 1 \in Links
    BY ConstantsTyped DEF TypeInv, TypeOK, Links
  <2> QED
    BY <1>1, <1>5, <2>1 DEF FirstLinkInUse
<1>11. CASE m.type = "share"
  BY <1>3, <1>6, <1>7, <1>9, <1>10, <1>11, PartsTyped DEF Balanced, NoGain, NoLoss, Held, Given
<1>12. CASE m.type = "block"
  BY <1>3, <1>6, <1>7, <1>8, <1>9, <1>10, <1>12, PartsTyped
     DEF Balanced, NoGain, NoLoss, Held, Given
<1>13. CASE m.type \notin {"share", "block"}
  BY <1>3, <1>6, <1>7, <1>8, <1>9, <1>10, <1>13, PartsTyped
     DEF Balanced, NoGain, NoLoss, Held, Given
<1> QED
  BY <1>11, <1>12, <1>13

\* A row is inserted for one share of the packet, or logged as failed.
LEMMA StoreRowBalanced ==
    ASSUME TypeInv, TypeInv', NEW X \in Closed, NEW b \in 0..1, NEW e \in Links, StoreRow(e)
    PROVE  Balanced(X, b)
<1> DEFINE w == Credited(job[e].wallet)
           one == IF w \in X THEN 1 ELSE 0
<1>1. /\ handler[e] = "store"
      /\ handler' = [handler EXCEPT ![e] = IF job[e].n = 1 THEN "len" ELSE "store"]
      /\ UNCHANGED <<alive, conn, dials, up, wire, cache, todo, pc, cur, blocks, accepted>>
  BY DEF StoreRow, slaveVars
<1>2. /\ job[e] \in Message /\ job[e].type = "share" /\ job[e].n \in Nat /\ job[e].n > 0
      /\ w \in Wallets
  <2>1. job[e] \in Message /\ job[e].type = "share"
    BY <1>1 DEF TypeInv, TypeOK, StoresShares
  <2> QED
    BY <2>1, MessageFields, ConstantsTyped DEF Credited
<1>3. /\ \A g \in Links \ {e} : handler'[g] = handler[g] /\ job'[g] = job[g]
      /\ handler'[e] = (IF job[e].n = 1 THEN "len" ELSE "store")
      /\ job[e].n # 1 => job'[e] = [job[e] EXCEPT !.n = job[e].n - 1]
  <2>1. job \in [Links -> Message]
    BY DEF TypeInv, TypeOK
  <2>2. handler'[e] = (IF job[e].n = 1 THEN "len" ELSE "store")
    BY <1>1 DEF TypeInv, TypeOK
  <2>3. \A g \in Links \ {e} : handler'[g] = handler[g]
    BY <1>1 DEF TypeInv, TypeOK
  <2>4. \A g \in Links \ {e} : job'[g] = job[g]
    BY <2>1 DEF StoreRow
  <2>5. job[e].n # 1 => job'[e] = [job[e] EXCEPT !.n = job[e].n - 1]
    BY <2>1 DEF StoreRow
  <2> QED
    BY <2>2, <2>3, <2>4, <2>5
<1>4. Storing(X, b)' + one = Storing(X, b)
  <2>1. \A g \in Links \ {e} : StoringOf(X, b)[g] = (StoringOf(X, b)')[g]
    BY <1>3 DEF StoringOf
  <2>2. StoringOf(X, b)[e] = IF w \in X THEN job[e].n ELSE 0
    BY <1>1, <1>2, WorthTyped DEF StoringOf
  <2>3. (StoringOf(X, b)')[e] = IF w \in X THEN job[e].n - 1 ELSE 0
    <3>1. CASE job[e].n = 1
      BY <1>3, <3>1 DEF StoringOf
    <3>2. CASE job[e].n # 1
      <4>1. /\ job'[e] \in Message /\ job'[e].type = "share" /\ job'[e].n = job[e].n - 1
            /\ job'[e].wallet = job[e].wallet
        <5>1. job'[e] \in Message
          BY DEF TypeInv, TypeOK
        <5>2. job'[e] = [job[e] EXCEPT !.n = job[e].n - 1]
          BY <1>3, <3>2
        <5>3. job[e] \in [type: {"share", "stats", "block", "none"},
                          wallet: {<<>>} \cup {WalletOfKey(k) : k \in Keys}, n: Nat, diff: Nat]
          BY <1>2 DEF Message
        <5>4. job'[e].type = "share" /\ job'[e].n = job[e].n - 1
              /\ job'[e].wallet = job[e].wallet
          BY <1>2, <5>2, <5>3
        <5> QED
          BY <5>1, <5>4
      <4>2. Worth(X, b, job'[e]) = IF w \in X THEN job[e].n - 1 ELSE 0
        BY <4>1, WorthTyped
      <4>3. (StoringOf(X, b)')[e] = Worth(X, b, job'[e])
        BY <1>3, <3>2 DEF StoringOf
      <4> QED
        BY <4>2, <4>3
    <3> QED
      BY <3>1, <3>2
  <2>4. Storing(X, b)' + StoringOf(X, b)[e] = Storing(X, b) + (StoringOf(X, b)')[e]
    BY <2>1, StoringChange
  <2> HIDE DEF w
  <2> QED
    BY <1>2, <2>2, <2>3, <2>4, PartsTyped
<1>5. Counts(X, added)' = Counts(X, added) + one
  <2>1. added' = [added EXCEPT ![w] = [n |-> added[w].n + 1, diff |-> added[w].diff + job[e].diff]]
    BY DEF StoreRow
  <2>2. added \in [Wallets -> Count] /\ added' \in [Wallets -> Count]
    BY DEF TypeInv, TypeOK
  <2> HIDE DEF w
  <2>3. added'[w].n = added[w].n + 1 /\ \A v \in Wallets \ {w} : added'[v] = added[v]
    BY <1>2, <2>1, <2>2
  <2> QED
    BY <1>2, <2>2, <2>3, CountsPlus
<1>6. /\ Unsent(X)' = Unsent(X) /\ Sending(X, b)' = Sending(X, b)
      /\ OnWire(X, b)' = OnWire(X, b) /\ Counts(X, accepted)' = Counts(X, accepted)
      /\ blocks' = blocks
  BY <1>1, PartsSame
<1>7. FirstLinkInUse' => FirstLinkInUse
  <2>1. dials = 1 => 1 \in Links
    BY ConstantsTyped DEF TypeInv, TypeOK, Links
  <2> QED
    BY <1>1, <1>3, <2>1 DEF FirstLinkInUse
<1>8. one \in Nat
  OBVIOUS
<1> HIDE DEF w, one
<1> QED
  BY <1>4, <1>5, <1>6, <1>7, <1>8, PartsTyped DEF Balanced, NoGain, NoLoss, Held, Given

\* The master dies: every wire is empty, every job forgotten, no link in use.
LEMMA MasterRestartBalanced ==
    ASSUME TypeInv, TypeInv', NEW X \in Closed, NEW b \in 0..1, MasterRestart
    PROVE  Balanced(X, b)
<1>1. /\ wire' = [e \in Links |-> <<>>]
      /\ handler' = [e \in Links |-> IF handler[e] = "off" THEN "off" ELSE "closed"]
      /\ UNCHANGED <<alive, conn, dials, up, cache, todo, pc, cur, added, blocks, accepted>>
  BY DEF MasterRestart, slaveVars
<1>2. OnWire(X, b)' = 0
  <2>1. \A e \in Links : (OnWireOf(X, b)')[e] = 0
    BY <1>1, CarriedEmpty, OnWireTyped
  <2> QED
    BY <2>1, ConstantsTyped, SumZero DEF OnWire
<1>3. Storing(X, b)' = 0
  <2>1. \A e \in Links : (StoringOf(X, b)')[e] = 0
    BY <1>1 DEF StoringOf
  <2> QED
    BY <2>1, ConstantsTyped, SumZero DEF Storing
<1>4. /\ Unsent(X)' = Unsent(X) /\ Sending(X, b)' = Sending(X, b)
      /\ Counts(X, added)' = Counts(X, added) /\ Counts(X, accepted)' = Counts(X, accepted)
      /\ blocks' = blocks
  BY <1>1, PartsSame
<1>5. ~FirstLinkInUse'
  <2>1. PICK e \in Links : handler[e] \in {"len", "body", "store"}
    BY DEF MasterRestart
  <2>2. dials # 0 /\ (dials = 1 => e = 1)
    BY <2>1, DialledLink
  <2>3. handler'[e] = "closed"
    BY <1>1, <2>1
  <2> QED
    BY <1>1, <2>2, <2>3 DEF FirstLinkInUse
<1> QED
  BY <1>2, <1>3, <1>4, <1>5, PartsTyped DEF Balanced, NoGain, NoLoss, Held, Given

\* Every step keeps the books balanced.
LEMMA StepBalanced ==
    ASSUME TypeInv, TypeInv', [Next]_vars, NEW X \in Closed, NEW b \in 0..1
    PROVE  Balanced(X, b)
<1>1. CASE UNCHANGED vars
  <2>1. /\ Unsent(X)' = Unsent(X) /\ Sending(X, b)' = Sending(X, b)
        /\ OnWire(X, b)' = OnWire(X, b) /\ Storing(X, b)' = Storing(X, b)
        /\ Counts(X, added)' = Counts(X, added) /\ Counts(X, accepted)' = Counts(X, accepted)
        /\ blocks' = blocks
    BY <1>1, PartsSame DEF vars, slaveVars, masterVars
  <2>2. FirstLinkInUse' => FirstLinkInUse
    BY <1>1 DEF vars, slaveVars, masterVars, FirstLinkInUse
  <2> QED
    BY <2>1, <2>2, PartsTyped DEF Balanced, NoGain, NoLoss, Held, Given
<1>2. ASSUME NEW e \in Links, HandleSlave(e) PROVE Balanced(X, b)
  BY <1>2, ReadLenBalanced, ReadBodyBalanced, StoreRowBalanced, CleanupBalanced
     DEF HandleSlave, Desync, Eof
<1>3. CASE Next
  BY <1>2, <1>3, SendShareBalanced, FlushBalanced, PacketBalanced, SendBalanced, ClientBalanced,
     NetBreakBalanced, MasterRestartBalanced DEF Next
<1> QED
  BY <1>1, <1>3

-----------------------------------------------------------------------------
(* The books as invariants.                                                *)

\* At the start nothing is held and nothing given.
LEMMA InitBooks ==
    ASSUME Init, NEW X, NEW b \in 0..1
    PROVE  Held(X, b) = 0 /\ Given(X, b) = 0
<1>1. Unsent(X) = 0
  <2>1. \A k \in Keys : UnsentOf(X)[k] = 0
    BY DEF Init, UnsentOf, ZeroCount
  <2> QED
    BY <2>1, ConstantsTyped, SumZero DEF Unsent
<1>2. Sending(X, b) = 0
  <2>1. \A s \in Senders : cur[s] = NoMessage
    BY DEF Init
  <2>2. Worth(X, b, NoMessage) = 0
    BY MessagesTyped, WorthTyped
  <2> QED
    BY <2>1, <2>2 DEF Sending, Senders
<1>3. OnWire(X, b) = 0
  <2>1. \A e \in Links : OnWireOf(X, b)[e] = 0
    BY CarriedEmpty DEF Init, OnWireOf
  <2> QED
    BY <2>1, ConstantsTyped, SumZero DEF OnWire
<1>4. Storing(X, b) = 0
  <2>1. \A e \in Links : StoringOf(X, b)[e] = 0
    BY DEF Init, StoringOf
  <2> QED
    BY <2>1, ConstantsTyped, SumZero DEF Storing
<1>5. Counts(X, added) = 0
  <2>1. \A w \in Wallets : CountsOf(X, added)[w] = 0
    BY DEF Init, CountsOf, ZeroCount
  <2> QED
    BY <2>1, ConstantsTyped, SumZero DEF Counts
<1>6. Counts(X, accepted) = 0
  <2>1. \A w \in Wallets : CountsOf(X, accepted)[w] = 0
    BY DEF Init, CountsOf, ZeroCount
  <2> QED
    BY <2>1, ConstantsTyped, SumZero DEF Counts
<1>7. blocks.found = 0 /\ blocks.handled = 0
  BY DEF Init
<1> QED
  BY <1>1, <1>2, <1>3, <1>4, <1>5, <1>6, <1>7 DEF Held, Given

\* All wallets together are credited with nobody else's shares.
LEMMA WalletsClosed == Wallets \in Closed
BY ConstantsTyped DEF Closed

\* What is held and what is given are numbers, before and after a step.
LEMMA BooksTyped ==
    ASSUME TypeInv, TypeInv', NEW X, NEW b \in 0..1
    PROVE  /\ Held(X, b) \in Nat /\ Held(X, b)' \in Nat
           /\ Given(X, b) \in Nat /\ Given(X, b)' \in Nat
BY PartsTyped DEF Held, Given

\* No step of either process makes something out of nothing.
LEMMA StepGained ==
    TypeInv /\ TypeInv' /\ NothingGained /\ [Next]_vars => NothingGained'
<1> SUFFICES ASSUME TypeInv, TypeInv', NothingGained, [Next]_vars,
                    NEW X \in Closed, NEW b \in 0..1
             PROVE  Held(X, b)' <= Given(X, b)'
  BY DEF NothingGained, Closed
<1>1. NoGain(X, b)
  BY StepBalanced DEF Balanced
<1>2. Held(X, b) <= Given(X, b)
  BY DEF NothingGained
<1> QED
  BY <1>1, <1>2, BooksTyped DEF NoGain

\* No step that leaves the first link in use loses a share.
LEMMA StepHeld ==
    TypeInv /\ TypeInv' /\ AllHeld /\ [Next]_vars => AllHeld'
<1> SUFFICES ASSUME TypeInv, TypeInv', AllHeld, [Next]_vars, FirstLinkInUse'
             PROVE  Held(Wallets, 0)' = Given(Wallets, 0)'
  BY DEF AllHeld
<1>1. Balanced(Wallets, 0)
  BY StepBalanced, WalletsClosed
<1>2. FirstLinkInUse /\ NoLoss(Wallets, 0)
  BY <1>1 DEF Balanced
<1>3. Held(Wallets, 0) = Given(Wallets, 0)
  BY <1>2 DEF AllHeld
<1> QED
  BY <1>2, <1>3, BooksTyped DEF NoLoss

\* The books are kept.
LEMMA BooksInvariant == Spec => [](TypeInv /\ NothingGained /\ AllHeld)
<1>1. Init => NothingGained /\ AllHeld
  <2> SUFFICES ASSUME Init PROVE NothingGained /\ AllHeld
    OBVIOUS
  <2>1. \A X : \A b \in 0..1 : Held(X, b) = 0 /\ Given(X, b) = 0
    BY InitBooks
  <2> QED
    BY <2>1 DEF NothingGained, AllHeld
<1> QED
  BY <1>1, TypeInvariant, StepGained, StepHeld, PTL DEF Spec

-----------------------------------------------------------------------------
(* Who is credited.                                                        *)

\* A set of numbers that is finite and not empty has a largest member.
LEMMA MaxOf ==
    ASSUME NEW C \in SUBSET Int, IsFiniteSet(C), C # {}
    PROVE  Max(C) \in C /\ \A i \in C : Max(C) >= i
<1> DEFINE G == {T \in SUBSET C : T # {} => \E m \in T : \A i \in T : m >= i}
<1>1. {} \in G
  OBVIOUS
<1>2. ASSUME NEW T \in SUBSET C, T # {}, \A x \in T : T \ {x} \in G
      PROVE  T \in G
  <2>1. PICK x \in T : TRUE
    BY <1>2
  <2>2. CASE T \ {x} = {}
    <3>1. \A i \in T : i = x
      BY <2>2
    <3>2. x \in Int
      OBVIOUS
    <3> QED
      BY <3>1, <3>2
  <2>3. CASE T \ {x} # {}
    <3>1. PICK m \in T \ {x} : \A i \in T \ {x} : m >= i
      BY <1>2, <2>3
    <3>2. x \in Int /\ m \in Int /\ \A i \in T : i \in Int
      OBVIOUS
    <3>3. CASE m >= x
      BY <3>1, <3>2, <3>3
    <3>4. CASE x > m
      <4>1. \A i \in T : x >= i
        BY <3>1, <3>2, <3>4
      <4> QED
        BY <4>1
    <3> QED
      BY <3>2, <3>3, <3>4
  <2> QED
    BY <2>2, <2>3
<1> HIDE DEF G
<1>3. C \in G
  BY <1>1, <1>2, FiniteInduction
<1> QED
  BY <1>3 DEF G, Max

\* Cutting "wallet:workerID" at the last colon leaves the wallet or something longer, so a
\* packet credits the miner or the pool.
LEMMA CreditedOwnOrFee ==
    ASSUME NEW k \in Keys
    PROVE  Credited(WalletOfKey(k)) \in {k[1], FeeAddress}
<1> DEFINE A == Wallets \cup Symbols \cup {":"}
           s == <<k[1], ":">> \o k[2]
           C == {i \in 1..Len(s) : s[i] = ":"}
           cut == SubSeq(s, 1, Max(C) - 1)
<1>1. k[1] \in Wallets /\ k[2] \in Seq(Symbols)
  BY ConstantsTyped
<1>2. <<k[1], ":">> \in Seq(A) /\ k[2] \in Seq(A)
  BY <1>1
<1>3. /\ s \in Seq(A) /\ Len(s) \in Nat /\ Len(s) >= 2
      /\ s[1] = k[1] /\ s[2] = ":"
  BY <1>2
<1> HIDE DEF s
<1>4. /\ C \in SUBSET Int /\ 2 \in C
      /\ \A i \in C : i <= Len(s)
  BY <1>3
<1>5. IsFiniteSet(C)
  <2>1. C \subseteq 1..Len(s) /\ IsFiniteSet(1..Len(s))
    BY <1>3, FS_Interval
  <2> QED
    BY <2>1, FS_Subset
<1> HIDE DEF C
<1>6. Max(C) \in C /\ Max(C) >= 2 /\ Max(C) \in Int
  BY <1>4, <1>5, MaxOf
<1>7. Max(C) - 1 \in 1..Len(s)
  BY <1>3, <1>4, <1>6
<1>8. cut[1] = s[1]
  BY <1>3, <1>7
<1>9. WalletOfKey(k) = cut
  BY DEF WalletOfKey, s, C
<1> QED
  BY <1>3, <1>8, <1>9 DEF Credited

\* So a miner, without the pool, is credited with its own shares only.
LEMMA SingletonsClosed ==
    ASSUME NEW w \in Wallets, w # FeeAddress
    PROVE  {w} \in Closed
BY CreditedOwnOrFee DEF Closed

-----------------------------------------------------------------------------
(* From the books to the tables.                                           *)

\* The entry of one wallet.
LEMMA CountsOfOne ==
    ASSUME NEW t \in [Wallets -> Count], NEW w \in Wallets
    PROVE  Counts({w}, t) = t[w].n
<1> DEFINE z == [v \in Wallets |-> 0]
           c == CountsOf({w}, t)
<1>1. /\ \A v \in Wallets : z[v] \in Nat /\ c[v] \in Nat
      /\ \A v \in Wallets \ {w} : z[v] = c[v]
      /\ c[w] = t[w].n /\ z[w] = 0 /\ t[w].n \in Nat
  BY CountsTyped
<1>2. SumOver(z, Wallets) = 0
  BY ConstantsTyped, SumZero
<1> HIDE DEF z, c
<1>3. SumOver(c, Wallets) + z[w] = SumOver(z, Wallets) + c[w]
  BY <1>1, ConstantsTyped, SumUpdate
<1>4. SumOver(c, Wallets) \in Nat
  BY <1>1, ConstantsTyped, SumType
<1>5. SumOver(c, Wallets) = t[w].n
  BY <1>1, <1>2, <1>3, <1>4
<1> QED
  BY <1>5 DEF Counts, c

\* The total of a table.
LEMMA CountsOfAll ==
    ASSUME NEW t \in [Wallets -> Count]
    PROVE  Counts(Wallets, t) = Total(t) /\ Total(t) \in Nat
<1> DEFINE g == [w \in Wallets |-> t[w].n]
<1>1. Total(t) = SumOver(g, Wallets)
  BY SumFunctionIs DEF Total
<1>2. \A w \in Wallets : CountsOf(Wallets, t)[w] = g[w]
  BY CountsTyped
<1>3. SumOver(CountsOf(Wallets, t), Wallets) = SumOver(g, Wallets)
  BY <1>2, ConstantsTyped, SumEqual
<1> QED
  BY <1>1, <1>3, CountsTyped DEF Counts

\* What the books hold is what is stored and other numbers.
LEMMA HeldBounds ==
    ASSUME TypeInv, NEW X, NEW b \in 0..1
    PROVE  /\ Unsent(X) \in Nat /\ Sending(X, b) \in Nat /\ OnWire(X, b) \in Nat
           /\ Storing(X, b) \in Nat /\ Counts(X, added) \in Nat /\ Counts(X, accepted) \in Nat
           /\ blocks.found \in Nat /\ blocks.handled \in Nat
<1>1. Unsent(X) \in Nat
  <2>1. \A k \in Keys : UnsentOf(X)[k] \in Nat
    BY DEF TypeInv, TypeOK, UnsentOf, Count
  <2> QED
    BY <2>1, ConstantsTyped, SumType DEF Unsent
<1>2. Sending(X, b) \in Nat
  <2>1. \A s \in Senders : Worth(X, b, cur[s]) \in Nat
    BY WorthTyped DEF TypeInv, TypeOK
  <2> QED
    BY <2>1 DEF Sending, Senders
<1>3. OnWire(X, b) \in Nat
  <2>1. \A e \in Links : OnWireOf(X, b)[e] \in Nat
    BY CarriedTyped DEF TypeInv, TypeOK, OnWireOf
  <2> QED
    BY <2>1, ConstantsTyped, SumType DEF OnWire
<1>4. Storing(X, b) \in Nat
  <2>1. \A e \in Links : StoringOf(X, b)[e] \in Nat
    BY WorthTyped DEF TypeInv, TypeOK, StoringOf
  <2> QED
    BY <2>1, ConstantsTyped, SumType DEF Storing
<1>5. Counts(X, added) \in Nat /\ Counts(X, accepted) \in Nat
  BY CountsTyped DEF TypeInv, TypeOK
<1>6. blocks.found \in Nat /\ blocks.handled \in Nat
  BY DEF TypeInv, TypeOK
<1> QED
  BY <1>1, <1>2, <1>3, <1>4, <1>5, <1>6

\* Nothing is credited beyond what was accepted: the books of one wallet, of all of them,
\* and of no wallet and the blocks.
LEMMA GainedImplies == TypeInv /\ NothingGained => NoShareInvented
<1> SUFFICES ASSUME TypeInv, NothingGained PROVE NoShareInvented
  OBVIOUS
<1>1. added \in [Wallets -> Count] /\ accepted \in [Wallets -> Count]
  BY DEF TypeInv, TypeOK
<1>2. ASSUME NEW X \in Closed PROVE Counts(X, added) <= Counts(X, accepted)
  <2>1. Held(X, 0) <= Given(X, 0)
    BY <1>2 DEF NothingGained
  <2> QED
    BY <2>1, HeldBounds DEF Held, Given
<1>3. ASSUME NEW w \in Wallets \ {FeeAddress} PROVE added[w].n <= accepted[w].n
  <2>1. Counts({w}, added) <= Counts({w}, accepted)
    BY <1>2, SingletonsClosed
  <2> QED
    BY <1>1, <2>1, CountsOfOne
<1>4. Total(added) <= Total(accepted)
  BY <1>1, <1>2, WalletsClosed, CountsOfAll
<1>5. blocks.handled <= blocks.found
  <2>1. {} \in Closed
    BY DEF Closed
  <2>2. Held({}, 1) <= Given({}, 1)
    BY <2>1 DEF NothingGained
  <2>3. Counts({}, accepted) = 0
    <3>1. \A w \in Wallets : CountsOf({}, accepted)[w] = 0
      BY DEF CountsOf
    <3> QED
      BY <3>1, ConstantsTyped, SumZero DEF Counts
  <2> QED
    BY <2>2, <2>3, HeldBounds DEF Held, Given
<1> QED
  BY <1>3, <1>4, <1>5 DEF NoShareInvented

\* What waits in the cache and in the flush's hands is AtSlave.
LEMMA UnsentIsAtSlave ==
    ASSUME TypeInv
    PROVE  Unsent(Wallets) + Sending(Wallets, 0) = AtSlave
<1> DEFINE g == [k \in Keys |-> IF pc["flush"] = "idle" \/ k \in todo THEN cache[k].n ELSE 0]
<1>1. \A v : Credited(v) \in Wallets
  BY ConstantsTyped DEF Credited
<1>2. Unsent(Wallets) = SumFunction(g)
  <2>1. \A k \in Keys : UnsentOf(Wallets)[k] = g[k]
    BY <1>1 DEF UnsentOf
  <2>2. SumFunction(g) = SumOver(g, Keys)
    BY SumFunctionIs
  <2> QED
    BY <2>1, <2>2, ConstantsTyped, SumEqual DEF Unsent
<1>3. /\ cur["flush"] \in Message /\ cur["stats"] \in Message /\ cur["block"] \in Message
      /\ pc["flush"] \in {"idle", "next", "check", "len", "body"}
      /\ pc["stats"] \in {"idle", "next", "check", "len", "body"}
      /\ pc["block"] \in {"idle", "next", "check", "len", "body"}
  BY DEF TypeInv, TypeOK, Senders
<1>4. /\ pc["flush"] \in {"check", "len", "body"} => cur["flush"].type = "share"
      /\ pc["flush"] \notin {"check", "len", "body"} => cur["flush"].type = "none"
      /\ cur["stats"].type \in {"stats", "none"}
      /\ cur["block"].type \in {"block", "none"}
  BY <1>3, MessagesTyped DEF TypeInv, SendersMatch, Senders
<1>5. Worth(Wallets, 0, cur["stats"]) = 0 /\ Worth(Wallets, 0, cur["block"]) = 0
  BY <1>3, <1>4, WorthTyped
<1>6. Worth(Wallets, 0, cur["flush"])
        = IF pc["flush"] \in {"check", "len", "body"} THEN cur["flush"].n ELSE 0
  BY <1>1, <1>3, <1>4, WorthTyped
<1>7. Worth(Wallets, 0, cur["flush"]) \in Nat
  BY <1>3, WorthTyped
<1>8. Sending(Wallets, 0) = Worth(Wallets, 0, cur["flush"])
  BY <1>5, <1>7 DEF Sending
<1> QED
  BY <1>2, <1>6, <1>8 DEF AtSlave

\* While one link has been dialled all that is on a wire is on that one.
LEMMA OnWireIsInFlight ==
    ASSUME TypeInv, dials = 1
    PROVE  OnWire(Wallets, 0) = InFlight(1)
<1> DEFINE z == [e \in Links |-> 0]
           o == OnWireOf(Wallets, 0)
           q == wire[1]
           g == [i \in DOMAIN q |-> IF q[i].msg.type = "share" THEN q[i].msg.n ELSE 0]
<1>1. 1 \in Links /\ \A e \in Links : e # 1 => e > dials
  BY ConstantsTyped DEF TypeInv, TypeOK, Links
<1>2. \A e \in Links : wire[e] \in Seq(Frame) /\ (e # 1 => wire[e] = <<>>)
  BY <1>1 DEF TypeInv, TypeOK, LinksInOrder
<1>3. \A e \in Links : o[e] = Carried(Wallets, 0, wire[e]) /\ o[e] \in Nat
  BY <1>2, CarriedTyped DEF OnWireOf
<1>4. /\ \A e \in Links : z[e] \in Nat /\ o[e] \in Nat
      /\ \A e \in Links \ {1} : z[e] = o[e]
      /\ z[1] = 0
  BY <1>1, <1>2, <1>3, CarriedEmpty
<1>5. SumOver(z, Links) = 0
  BY ConstantsTyped, SumZero
<1>6. OnWire(Wallets, 0) = Carried(Wallets, 0, q)
  <2> HIDE DEF z, o
  <2>1. SumOver(o, Links) + z[1] = SumOver(z, Links) + o[1]
    BY <1>1, <1>4, ConstantsTyped, SumUpdate
  <2>2. SumOver(o, Links) \in Nat
    BY <1>4, ConstantsTyped, SumType
  <2>3. SumOver(o, Links) = o[1]
    BY <1>1, <1>4, <1>5, <2>1, <2>2
  <2>4. o[1] = Carried(Wallets, 0, q)
    BY <1>1, <1>3
  <2> QED
    BY <2>3, <2>4 DEF OnWire, o
<1>7. q \in Seq(Frame)
  BY <1>1, <1>2
<1> HIDE DEF q
<1>8. \A i \in DOMAIN q : WorthOf(Wallets, 0, q)[i] = g[i]
  <2> SUFFICES ASSUME NEW i \in DOMAIN q PROVE WorthOf(Wallets, 0, q)[i] = g[i]
    OBVIOUS
  <2>1. q[i].msg \in Message /\ WorthOf(Wallets, 0, q)[i] = Worth(Wallets, 0, q[i].msg)
    BY <1>7, CarriedTyped
  <2>2. Credited(q[i].msg.wallet) \in Wallets
    BY ConstantsTyped DEF Credited
  <2> QED
    BY <2>1, <2>2, WorthTyped, MessageFields
<1>9. SumFunction(g) = SumOver(g, DOMAIN q)
  BY SumFunctionIs
<1>10. IsFiniteSet(DOMAIN q)
  BY <1>7, CarriedTyped
<1> HIDE DEF g
<1>11. SumOver(WorthOf(Wallets, 0, q), DOMAIN q) = SumOver(g, DOMAIN q)
  BY <1>8, <1>10, SumEqual
<1>12. InFlight(1) = SumFunction(g)
  BY DEF InFlight, g, q
<1> QED
  BY <1>6, <1>9, <1>11, <1>12 DEF Carried

\* What OnShareFound has still to insert is BeingStored.
LEMMA StoringIsBeingStored ==
    ASSUME TypeInv
    PROVE  Storing(Wallets, 0) = BeingStored
<1> DEFINE g == [e \in Links |-> IF handler[e] = "store" THEN job[e].n ELSE 0]
<1>1. \A e \in Links : StoringOf(Wallets, 0)[e] = g[e]
  <2>1. \A v : Credited(v) \in Wallets
    BY ConstantsTyped DEF Credited
  <2>2. \A e \in Links : job[e] \in Message /\ (handler[e] = "store" => job[e].type = "share")
    BY DEF TypeInv, TypeOK, StoresShares
  <2> QED
    BY <2>1, <2>2, WorthTyped DEF StoringOf
<1>2. SumFunction(g) = SumOver(g, Links)
  BY SumFunctionIs
<1> QED
  BY <1>1, <1>2, ConstantsTyped, SumEqual DEF Storing, BeingStored

\* While the first link is in use the books of all wallets say where each share is.
LEMMA HeldImplies == TypeInv /\ AllHeld => NothingLostOnFirstLink
<1> SUFFICES ASSUME TypeInv, AllHeld,
                    alive, dials = 1, conn = 1, up[1], handler[1] # "closed"
             PROVE  Total(accepted) = AtSlave + InFlight(1) + BeingStored + Total(added)
  BY DEF NothingLostOnFirstLink
<1>1. Held(Wallets, 0) = Given(Wallets, 0)
  BY DEF AllHeld, FirstLinkInUse
<1>2. added \in [Wallets -> Count] /\ accepted \in [Wallets -> Count]
  BY DEF TypeInv, TypeOK
<1>3. Counts(Wallets, added) = Total(added) /\ Counts(Wallets, accepted) = Total(accepted)
  BY <1>2, CountsOfAll
<1>4. Total(accepted) = Unsent(Wallets) + Sending(Wallets, 0) + OnWire(Wallets, 0)
                          + Storing(Wallets, 0) + Total(added)
  BY <1>1, <1>3, HeldBounds DEF Held, Given
<1> QED
  BY <1>4, UnsentIsAtSlave, OnWireIsInFlight, StoringIsBeingStored

-----------------------------------------------------------------------------
(* The theorems.                                                           *)

\* Type correctness: counters and tables keep their ranges, and what senders hold, what is
\* on a wire and what OnShareFound works on are well-formed packets and frames, a share
\* packet always with at least one share (slaveClient.go, handler.go).
THEOREM TypeCorrect == Spec => []TypeOK
<1>1. TypeInv => TypeOK
  BY DEF TypeInv
<1> QED
  BY <1>1, TypeInvariant, PTL

\* No miner is credited with more shares than sendShare accepted from it, nor all wallets
\* together, and no block is handled more often than found, however flushes, packets,
\* reconnects, crashes and restarts follow each other.
THEOREM NothingInvented == Spec => []NoShareInvented
BY BooksInvariant, GainedImplies, PTL

\* As long as the first link is in use every accepted share is in the cache, in the
\* flush's hands, on the wire, with OnShareFound or handed to AddShare, whichever way the
\* frames of several senders are mixed (slaveClient.go, handler.go, OnShareFound).  What
\* AddShare's insert makes of it is the schema's business and not part of the statement.
THEOREM NothingLost == Spec => []NothingLostOnFirstLink
<1>1. AllHeld /\ TypeInv => NothingLostOnFirstLink
  BY HeldImplies
<1> QED
  BY <1>1, BooksInvariant, PTL
=============================================================================
