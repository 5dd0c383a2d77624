---------------------------- MODULE FiniteLemmas ---------------------------
(***************************************************************************)
(* What the proofs need about finite sums, finite orders and least numbers.*)
(* SumFunctionOnSet of the community modules folds over the set by taking  *)
(* an arbitrary element first; here is what that fold computes.  Induction *)
(* over finite sets is stated with a set of counterexamples instead of a   *)
(* predicate: one that is not empty has a member all of whose smaller      *)
(* neighbours are fine.                                                    *)
(***************************************************************************)
EXTENDS Integers, FiniteSets, FiniteSetsExt, Functions, FiniteSetTheorems, NaturalsInduction, TLAPS

\* A non-empty collection of subsets of a finite set has a minimal member.
LEMMA SmallestSubset ==
    ASSUME NEW S, IsFiniteSet(S), NEW Bad, Bad \subseteq SUBSET S, Bad # {}
    PROVE  \E T \in Bad : \A x \in T : T \ {x} \notin Bad
<1>1. IsWellFoundedOn(StrictSubsetOrdering(S), FiniteSubsetsOf(S))
  BY FS_StrictSubsetOrderingWellFounded
<1>2. \A T \in SUBSET S : T \in FiniteSubsetsOf(S)
  BY FS_Subset DEF FiniteSubsetsOf
<1>3. PICK T \in Bad : \A U \in Bad : ~ (<<U, T>> \in StrictSubsetOrdering(S))
  BY <1>1, <1>2, WFMin
<1>4. ASSUME NEW x \in T, T \ {x} \in Bad
      PROVE  FALSE
  BY <1>2, <1>3, <1>4 DEF StrictSubsetOrdering
<1> QED
  BY <1>3, <1>4

-----------------------------------------------------------------------------
(* The fold is well defined.                                               *)

First(s) == CHOOSE x \in s : TRUE
IsFold(f, S, g) == g = [s \in SUBSET S |-> IF s = {} THEN 0 ELSE f[First(s)] + g[s \ {First(s)}]]
Fold(f, S) == CHOOSE g : IsFold(f, S, g)

LEMMA SumIsFold ==
    ASSUME NEW f, NEW S
    PROVE  SumFunctionOnSet(f, S) = Fold(f, S)[S]
BY DEF SumFunctionOnSet, FoldFunctionOnSet, MapThenFoldSet, Fold, IsFold, First

LEMMA FoldAt ==
    ASSUME NEW f, NEW S, NEW g, IsFold(f, S, g), NEW s \in SUBSET S
    PROVE  g[s] = IF s = {} THEN 0 ELSE f[First(s)] + g[s \ {First(s)}]
<1> DEFINE G == [t \in SUBSET S |-> IF t = {} THEN 0 ELSE f[First(t)] + g[t \ {First(t)}]]
<1>1. g = G
  BY DEF IsFold
<1>2. G[s] = IF s = {} THEN 0 ELSE f[First(s)] + g[s \ {First(s)}]
  OBVIOUS
<1> QED
  BY ONLY <1>1, <1>2

LEMMA FirstIn == ASSUME NEW s, s # {} PROVE First(s) \in s
BY DEF First

\* Two folds agree where both are defined.
LEMMA FoldUnique ==
    ASSUME NEW f, NEW S, IsFiniteSet(S), NEW T, NEW g, NEW h, IsFold(f, S, g), IsFold(f, T, h),
           NEW U, U \subseteq S, U \subseteq T
    PROVE  g[U] = h[U]
<1> DEFINE Bad == {V \in SUBSET U : g[V] # h[V]}
<1> SUFFICES ASSUME Bad # {}
             PROVE  FALSE
  OBVIOUS
<1>1. IsFiniteSet(U) /\ Bad \subseteq SUBSET U
  BY FS_Subset
<1>2. PICK V \in Bad : \A x \in V : V \ {x} \notin Bad
  <2> HIDE DEF Bad
  <2> QED
    BY <1>1, SmallestSubset
<1>3. V \in SUBSET S /\ V \in SUBSET T /\ g[V] # h[V]
  BY <1>2
<1>4. CASE V = {}
  BY <1>3, <1>4, FoldAt
<1>5. CASE V # {}
  <2> DEFINE x == First(V)
  <2>1. x \in V
    BY <1>5, FirstIn
  <2>2. g[V \ {x}] = h[V \ {x}]
    <3>1. V \ {x} \notin Bad /\ V \ {x} \in SUBSET U
      BY <1>2, <2>1
    <3> QED
      BY <3>1
  <2>3. g[V] = f[x] + g[V \ {x}]
    BY <1>3, <1>5, FoldAt
  <2>4. h[V] = f[x] + h[V \ {x}]
    BY <1>3, <1>5, FoldAt
  <2> QED
    BY <1>3, <2>2, <2>3, <2>4
<1> QED
  BY <1>4, <1>5

LEMMA FoldExists ==
    ASSUME NEW f, NEW S, IsFiniteSet(S)
    PROVE  IsFold(f, S, Fold(f, S))
<1> DEFINE Ok(U) == \E g : IsFold(f, U, g)
           Bad == {T \in SUBSET S : \E U \in SUBSET T : ~Ok(U)}
<1> SUFFICES ASSUME Bad # {}
             PROVE  FALSE
  <2>1. Bad = {} => Ok(S)
    OBVIOUS
  <2> QED
    BY <2>1 DEF Fold
<1>1. PICK T \in Bad : \A x \in T : T \ {x} \notin Bad
  <2> Bad \subseteq SUBSET S
    OBVIOUS
  <2> HIDE DEF Bad
  <2> QED
    BY SmallestSubset
<1>2. \A U \in SUBSET T : U # T => Ok(U)
  <2> SUFFICES ASSUME NEW U \in SUBSET T, U # T PROVE Ok(U)
    OBVIOUS
  <2>1. PICK x \in T : x \notin U
    OBVIOUS
  <2>2. T \ {x} \in SUBSET S /\ U \in SUBSET (T \ {x})
    BY <1>1, <2>1
  <2>3. T \ {x} \notin Bad
    BY <1>1
  <2> QED
    BY <2>2, <2>3
<1>3. \A U \in SUBSET T : U # T => IsFold(f, U, Fold(f, U))
  BY <1>2 DEF Fold
<1>4. ~Ok(T)
  BY <1>1, <1>2
<1>5. IsFiniteSet(T)
  BY <1>1, FS_Subset
<1> DEFINE total(U) == Fold(f, U)[U]
           top == IF T = {} THEN 0 ELSE f[First(T)] + total(T \ {First(T)})
           g == [U \in SUBSET T |-> IF U = T THEN top ELSE total(U)]
<1>6. \A U \in SUBSET T : U # T => g[U] = total(U)
  OBVIOUS
<1>7. ASSUME NEW U \in SUBSET T
      PROVE  g[U] = IF U = {} THEN 0 ELSE f[First(U)] + g[U \ {First(U)}]
  <2> DEFINE x == First(U)
             V == U \ {x}
  <2>1. U # {} => V # T /\ V \in SUBSET T /\ V \subseteq U
    BY FirstIn
  <2>2. CASE U = T
    <3>1. g[U] = top
      BY <2>2
    <3>2. U # {} => g[V] = total(V)
      BY <2>1, <1>6
    <3> QED
      BY <2>2, <3>1, <3>2
  <2>3. CASE U # T
    <3>1. IsFold(f, U, Fold(f, U)) /\ U \in SUBSET U /\ IsFiniteSet(U)
      BY <1>3, <1>5, <2>3, FS_Subset
    <3>2. total(U) = IF U = {} THEN 0 ELSE f[x] + Fold(f, U)[V]
      BY <3>1, FoldAt
    <3>3. U # {} => Fold(f, U)[V] = Fold(f, V)[V]
      <4> SUFFICES ASSUME U # {} PROVE Fold(f, U)[V] = Fold(f, V)[V]
        OBVIOUS
      <4>1. IsFold(f, V, Fold(f, V))
        BY <1>3, <2>1
      <4> QED
        BY <2>1, <3>1, <4>1, FoldUnique
    <3>4. U # {} => g[V] = total(V)
      BY <1>6, <2>1
    <3> HIDE DEF g
    <3> QED
      BY <1>6, <2>3, <3>2, <3>3, <3>4
  <2> QED
    BY <2>2, <2>3
<1>8. IsFold(f, T, g)
  <2> DEFINE h == [U \in SUBSET T |-> IF U = {} THEN 0 ELSE f[First(U)] + g[U \ {First(U)}]]
  <2>1. g = [U \in SUBSET T |-> g[U]]
    OBVIOUS
  <2>2. \A U \in SUBSET T : g[U] = h[U]
    <3> HIDE DEF g
    <3> QED
      BY <1>7
  <2>3. g = h
    <3> HIDE DEF g
    <3> QED
      BY <2>1, <2>2
  <2> HIDE DEF g
  <2> QED
    BY <2>3 DEF IsFold
<1> QED
  BY <1>4, <1>8

-----------------------------------------------------------------------------
(* Sums.                                                                   *)

LEMMA SumStep ==
    ASSUME NEW f, NEW S, IsFiniteSet(S)
    PROVE  SumFunctionOnSet(f, S) =
               IF S = {} THEN 0 ELSE f[First(S)] + SumFunctionOnSet(f, S \ {First(S)})
<1>1. IsFold(f, S, Fold(f, S)) /\ S \in SUBSET S
  BY FoldExists
<1>2. Fold(f, S)[S] = IF S = {} THEN 0 ELSE f[First(S)] + Fold(f, S)[S \ {First(S)}]
  BY <1>1, FoldAt
<1>3. CASE S = {}
  BY <1>2, <1>3, SumIsFold
<1>4. CASE S # {}
  <2> DEFINE U == S \ {First(S)}
  <2>1. U \subseteq S /\ IsFiniteSet(U)
    BY FS_Subset
  <2>2. IsFold(f, U, Fold(f, U))
    BY <2>1, FoldExists
  <2>3. Fold(f, S)[U] = Fold(f, U)[U]
    BY <1>1, <2>1, <2>2, FoldUnique
  <2> QED
    BY <1>2, <1>4, <2>3, SumIsFold
<1> QED
  BY <1>3, <1>4

LEMMA SumEmpty == ASSUME NEW f PROVE SumFunctionOnSet(f, {}) = 0
BY SumStep, FS_EmptySet

\* A sum of integers is an integer.
LEMMA SumInt ==
    ASSUME NEW f, NEW S, IsFiniteSet(S), \A x \in S : f[x] \in Int
    PROVE  SumFunctionOnSet(f, S) \in Int
<1> DEFINE Bad == {T \in SUBSET S : SumFunctionOnSet(f, T) \notin Int}
<1> SUFFICES ASSUME Bad # {}
             PROVE  FALSE
  OBVIOUS
<1>1. PICK T \in Bad : \A x \in T : T \ {x} \notin Bad
  <2> Bad \subseteq SUBSET S
    OBVIOUS
  <2> HIDE DEF Bad
  <2> QED
    BY SmallestSubset
<1>2. IsFiniteSet(T) /\ SumFunctionOnSet(f, T) \notin Int /\ T \subseteq S
  BY <1>1, FS_Subset
<1>3. T # {}
  BY <1>2, SumEmpty
<1> DEFINE x == First(T)
<1>4. x \in T
  BY <1>3, FirstIn
<1>5. SumFunctionOnSet(f, T \ {x}) \in Int
  <2>1. T \ {x} \notin Bad /\ T \ {x} \in SUBSET S
    BY <1>1, <1>2, <1>4
  <2> QED
    BY <2>1
<1>6. SumFunctionOnSet(f, T) = f[x] + SumFunctionOnSet(f, T \ {x})
  BY <1>2, <1>3, SumStep
<1> HIDE DEF x
<1> QED
  BY <1>2, <1>4, <1>5, <1>6

\* Any element may be taken out first.
LEMMA SumRemove ==
    ASSUME NEW f, NEW S, IsFiniteSet(S), \A x \in S : f[x] \in Int, NEW a \in S
    PROVE  SumFunctionOnSet(f, S) = f[a] + SumFunctionOnSet(f, S \ {a})
<1> DEFINE Bad == {T \in SUBSET S : \E x \in T :
                      SumFunctionOnSet(f, T) # f[x] + SumFunctionOnSet(f, T \ {x})}
<1> SUFFICES ASSUME Bad # {}
             PROVE  FALSE
  OBVIOUS
<1>1. PICK T \in Bad : \A x \in T : T \ {x} \notin Bad
  <2> Bad \subseteq SUBSET S
    OBVIOUS
  <2> HIDE DEF Bad
  <2> QED
    BY SmallestSubset
<1>2. PICK b \in T : SumFunctionOnSet(f, T) # f[b] + SumFunctionOnSet(f, T \ {b})
  BY <1>1
<1> DEFINE c == First(T)
<1>3. c \in T /\ T \subseteq S /\ IsFiniteSet(T) /\ T # {}
  BY <1>1, <1>2, FirstIn, FS_Subset
<1>4. SumFunctionOnSet(f, T) = f[c] + SumFunctionOnSet(f, T \ {c})
  BY <1>3, SumStep
<1> HIDE DEF c
<1>5. b # c
  BY <1>2, <1>4
<1> DEFINE R == (T \ {c}) \ {b}
<1>6. R = (T \ {b}) \ {c}
  OBVIOUS
<1>7. SumFunctionOnSet(f, T \ {c}) = f[b] + SumFunctionOnSet(f, R)
  <2>1. T \ {c} \notin Bad /\ T \ {c} \in SUBSET S /\ b \in T \ {c}
    BY <1>1, <1>2, <1>3, <1>5
  <2> QED
    BY <2>1
<1>8. SumFunctionOnSet(f, T \ {b}) = f[c] + SumFunctionOnSet(f, R)
  <2>1. T \ {b} \notin Bad /\ T \ {b} \in SUBSET S /\ c \in T \ {b}
    BY <1>1, <1>2, <1>3, <1>5
  <2>2. SumFunctionOnSet(f, T \ {b}) = f[c] + SumFunctionOnSet(f, (T \ {b}) \ {c})
    BY <2>1
  <2> QED
    BY <1>6, <2>2
<1>9. SumFunctionOnSet(f, R) \in Int
  <2>1. R \subseteq S /\ IsFiniteSet(R)
    BY <1>3, FS_Subset
  <2> HIDE DEF R
  <2> QED
    BY <2>1, SumInt
<1>10. f[b] \in Int /\ f[c] \in Int
  BY <1>2, <1>3
<1> HIDE DEF R
<1> QED
  BY <1>2, <1>4, <1>7, <1>8, <1>9, <1>10

\* A sum is that of its terms, whatever function gives them.
LEMMA SumSame ==
    ASSUME NEW f, NEW g, NEW S, IsFiniteSet(S), \A x \in S : f[x] = g[x]
    PROVE  SumFunctionOnSet(f, S) = SumFunctionOnSet(g, S)
<1> DEFINE Bad == {T \in SUBSET S : SumFunctionOnSet(f, T) # SumFunctionOnSet(g, T)}
<1> SUFFICES ASSUME Bad # {}
             PROVE  FALSE
  OBVIOUS
<1>1. PICK T \in Bad : \A x \in T : T \ {x} \notin Bad
  <2> Bad \subseteq SUBSET S
    OBVIOUS
  <2> HIDE DEF Bad
  <2> QED
    BY SmallestSubset
<1>2. IsFiniteSet(T) /\ SumFunctionOnSet(f, T) # SumFunctionOnSet(g, T) /\ T \subseteq S
  BY <1>1, FS_Subset
<1>3. T # {}
  BY <1>2, SumEmpty
<1> DEFINE x == First(T)
<1>4. x \in T
  BY <1>3, FirstIn
<1>5. SumFunctionOnSet(f, T \ {x}) = SumFunctionOnSet(g, T \ {x})
  <2>1. T \ {x} \notin Bad /\ T \ {x} \in SUBSET S
    BY <1>1, <1>2, <1>4
  <2> QED
    BY <2>1
<1>6. /\ SumFunctionOnSet(f, T) = f[x] + SumFunctionOnSet(f, T \ {x})
      /\ SumFunctionOnSet(g, T) = g[x] + SumFunctionOnSet(g, T \ {x})
  BY <1>2, <1>3, SumStep
<1> HIDE DEF x
<1> QED
  BY <1>2, <1>4, <1>5, <1>6

\* One term changes.
LEMMA SumChange ==
    ASSUME NEW f, NEW g, NEW S, IsFiniteSet(S), NEW a \in S,
           \A x \in S : f[x] \in Int /\ g[x] \in Int,
           \A x \in S \ {a} : g[x] = f[x]
    PROVE  SumFunctionOnSet(g, S) = SumFunctionOnSet(f, S) + g[a] - f[a]
<1> DEFINE R == S \ {a}
<1>1. IsFiniteSet(R)
  BY FS_Subset
<1>2. SumFunctionOnSet(f, S) = f[a] + SumFunctionOnSet(f, R)
  BY SumRemove
<1>3. SumFunctionOnSet(g, S) = g[a] + SumFunctionOnSet(g, R)
  BY SumRemove
<1>4. SumFunctionOnSet(f, R) = SumFunctionOnSet(g, R)
  BY <1>1, SumSame
<1>5. SumFunctionOnSet(f, R) \in Int
  BY <1>1, SumInt
<1> HIDE DEF R
<1> QED
  BY <1>2, <1>3, <1>4, <1>5

\* A sum of natural numbers is one, and none of them is larger.
LEMMA SumNat ==
    ASSUME NEW f, NEW S, IsFiniteSet(S), \A x \in S : f[x] \in Nat
    PROVE  /\ SumFunctionOnSet(f, S) \in Nat
           /\ \A x \in S : f[x] <= SumFunctionOnSet(f, S)
<1> DEFINE Bad == {T \in SUBSET S : SumFunctionOnSet(f, T) \notin Nat}
<1>1. Bad = {}
  <2> SUFFICES ASSUME Bad # {}
               PROVE  FALSE
    OBVIOUS
  <2>1. PICK T \in Bad : \A x \in T : T \ {x} \notin Bad
    <3> Bad \subseteq SUBSET S
      OBVIOUS
    <3> HIDE DEF Bad
    <3> QED
      BY SmallestSubset
  <2>2. IsFiniteSet(T) /\ SumFunctionOnSet(f, T) \notin Nat /\ T \subseteq S
    BY <2>1, FS_Subset
  <2>3. T # {}
    BY <2>2, SumEmpty
  <2> DEFINE x == First(T)
  <2>4. x \in T
    BY <2>3, FirstIn
  <2>5. SumFunctionOnSet(f, T \ {x}) \in Nat
    <3>1. T \ {x} \notin Bad /\ T \ {x} \in SUBSET S
      BY <2>1, <2>2, <2>4
    <3> QED
      BY <3>1
  <2>6. SumFunctionOnSet(f, T) = f[x] + SumFunctionOnSet(f, T \ {x})
    BY <2>2, <2>3, SumStep
  <2> HIDE DEF x
  <2> QED
    BY <2>2, <2>4, <2>5, <2>6
<1>2. SumFunctionOnSet(f, S) \in Nat
  BY <1>1
<1>3. ASSUME NEW x \in S
      PROVE  f[x] <= SumFunctionOnSet(f, S)
  <2>1. SumFunctionOnSet(f, S) = f[x] + SumFunctionOnSet(f, S \ {x})
    BY SumRemove
  <2>2. SumFunctionOnSet(f, S \ {x}) \in Nat
    <3>1. S \ {x} \in SUBSET S
      OBVIOUS
    <3> QED
      BY <1>1, <3>1
  <2> QED
    BY <2>1, <2>2
<1> QED
  BY <1>2, <1>3

\* Two sums term by term.
LEMMA SumPlus ==
    ASSUME NEW f, NEW g, NEW h, NEW S, IsFiniteSet(S),
           \A x \in S : f[x] \in Int /\ g[x] \in Int /\ h[x] = f[x] + g[x]
    PROVE  SumFunctionOnSet(h, S) = SumFunctionOnSet(f, S) + SumFunctionOnSet(g, S)
<1> DEFINE Bad == {T \in SUBSET S :
                      SumFunctionOnSet(h, T) # SumFunctionOnSet(f, T) + SumFunctionOnSet(g, T)}
<1> SUFFICES ASSUME Bad # {}
             PROVE  FALSE
  OBVIOUS
<1>1. PICK T \in Bad : \A x \in T : T \ {x} \notin Bad
  <2> Bad \subseteq SUBSET S
    OBVIOUS
  <2> HIDE DEF Bad
  <2> QED
    BY SmallestSubset
<1>2. /\ IsFiniteSet(T) /\ T \subseteq S
      /\ SumFunctionOnSet(h, T) # SumFunctionOnSet(f, T) + SumFunctionOnSet(g, T)
  BY <1>1, FS_Subset
<1>3. T # {}
  <2>1. SumFunctionOnSet(f, {}) = 0 /\ SumFunctionOnSet(g, {}) = 0 /\ SumFunctionOnSet(h, {}) = 0
    BY SumEmpty
  <2> HIDE DEF Bad
  <2>2. T = {} => SumFunctionOnSet(h, T) = SumFunctionOnSet(f, T) + SumFunctionOnSet(g, T)
    BY <2>1
  <2> QED
    BY <1>2, <2>2
<1> DEFINE x == First(T)
           R == T \ {x}
<1>4. x \in T /\ IsFiniteSet(R) /\ R \subseteq S
  BY <1>2, <1>3, FirstIn, FS_Subset
<1>5. SumFunctionOnSet(h, R) = SumFunctionOnSet(f, R) + SumFunctionOnSet(g, R)
  <2>1. R \notin Bad /\ R \in SUBSET S
    BY <1>1, <1>2, <1>4
  <2> QED
    BY <2>1
<1>6. /\ SumFunctionOnSet(f, T) = f[x] + SumFunctionOnSet(f, R)
      /\ SumFunctionOnSet(g, T) = g[x] + SumFunctionOnSet(g, R)
      /\ SumFunctionOnSet(h, T) = h[x] + SumFunctionOnSet(h, R)
  BY <1>2, <1>3, SumStep
<1> HIDE DEF x, R
<1>7. SumFunctionOnSet(f, R) \in Int /\ SumFunctionOnSet(g, R) \in Int
  BY <1>4, SumInt
<1>8. f[x] \in Int /\ g[x] \in Int /\ h[x] = f[x] + g[x]
  BY <1>2, <1>4
<1> QED
  BY <1>2, <1>5, <1>6, <1>7, <1>8

-----------------------------------------------------------------------------
(* A finite set that a relation orders strictly can be listed in order.    *)

StrictOrder(R, S) ==
    /\ \A a, b \in S : a # b => <<a, b>> \in R \/ <<b, a>> \in R
    /\ \A a, b, c \in S : <<a, b>> \in R /\ <<b, c>> \in R => <<a, c>> \in R

LEMMA HasLast ==
    ASSUME NEW S, IsFiniteSet(S), NEW R, StrictOrder(R, S), NEW T, T \subseteq S, T # {}
    PROVE  \E m \in T : \A x \in T : x # m => <<x, m>> \in R
<1> DEFINE Lasts(U) == {m \in U : \A x \in U : x # m => <<x, m>> \in R}
           Bad == {U \in SUBSET S : U # {} /\ Lasts(U) = {}}
<1> SUFFICES ASSUME Bad # {}
             PROVE  FALSE
  OBVIOUS
<1>1. PICK U \in Bad : \A x \in U : U \ {x} \notin Bad
  <2> Bad \subseteq SUBSET S
    OBVIOUS
  <2> HIDE DEF Bad
  <2> QED
    BY SmallestSubset
<1>2. PICK x \in U : TRUE
  BY <1>1
<1> DEFINE V == U \ {x}
<1>3. CASE V = {}
  <2>1. x \in Lasts(U)
    BY <1>2, <1>3
  <2> QED
    BY <1>1, <2>1
<1>4. CASE V # {}
  <2>1. PICK m \in V : \A y \in V : y # m => <<y, m>> \in R
    <3>1. V \notin Bad /\ V \in SUBSET S
      BY <1>1, <1>2
    <3>2. Lasts(V) # {}
      BY <1>4, <3>1
    <3> QED
      BY <3>2
  <2>2. m \in S /\ x \in S /\ m # x /\ U \subseteq S
    BY <1>1, <1>2, <2>1
  <2>3. CASE <<x, m>> \in R
    <3>1. m \in Lasts(U)
      BY <2>1, <2>3
    <3> QED
      BY <1>1, <3>1
  <2>4. CASE <<m, x>> \in R
    <3>1. ASSUME NEW y \in U, y # x
          PROVE  <<y, x>> \in R
      BY <2>1, <2>2, <2>4, <3>1 DEF StrictOrder
    <3>2. x \in Lasts(U)
      BY <1>2, <3>1
    <3> QED
      BY <1>1, <3>2
  <2> QED
    BY <2>2, <2>3, <2>4 DEF StrictOrder
<1> QED
  BY <1>3, <1>4

InOrder(s, R) == \A i, j \in DOMAIN s : i < j => <<s[i], s[j]>> \in R

LEMMA CanBeListed ==
    ASSUME NEW S, IsFiniteSet(S), NEW R, StrictOrder(R, S)
    PROVE  \E s \in [1 .. Cardinality(S) -> S] : InOrder(s, R)
<1> DEFINE Lists(U) == {s \in [1 .. Cardinality(U) -> U] : InOrder(s, R)}
           Bad == {U \in SUBSET S : Lists(U) = {}}
<1> SUFFICES ASSUME Bad # {}
             PROVE  FALSE
  <2>1. S \in SUBSET S
    OBVIOUS
  <2>2. Bad = {} => Lists(S) # {}
    BY <2>1
  <2> QED
    BY <2>2
<1>1. PICK U \in Bad : \A x \in U : U \ {x} \notin Bad
  <2> Bad \subseteq SUBSET S
    OBVIOUS
  <2> HIDE DEF Bad
  <2> QED
    BY SmallestSubset
<1>2. CASE U = {}
  <2>1. Cardinality(U) = 0
    BY <1>2, FS_EmptySet
  <2> DEFINE s == [i \in {} |-> i]
  <2>2. 1 .. Cardinality(U) = {}
    BY <2>1
  <2>3. s \in [1 .. Cardinality(U) -> U] /\ InOrder(s, R)
    BY <2>2 DEF InOrder
  <2>4. s \in Lists(U)
    BY <2>3
  <2> QED
    BY <1>1, <2>4
<1>3. CASE U # {}
  <2>1. U \subseteq S
    BY <1>1
  <2>2. PICK m \in U : \A x \in U : x # m => <<x, m>> \in R
    BY <1>3, <2>1, HasLast
  <2> DEFINE V == U \ {m}
             n == Cardinality(V)
  <2>3. IsFiniteSet(U) /\ IsFiniteSet(V)
    BY <2>1, FS_Subset, FS_RemoveElement
  <2>4. n \in Nat /\ Cardinality(U) = n + 1
    BY <2>2, <2>3, FS_RemoveElement, FS_CardinalityType
  <2>5. PICK s \in [1 .. n -> V] : InOrder(s, R)
    <3>1. V \notin Bad /\ V \in SUBSET S
      BY <1>1, <2>1, <2>2
    <3>2. Lists(V) # {}
      BY <3>1
    <3> QED
      BY <3>2
  <2> HIDE DEF n
  <2> DEFINE u == [i \in 1 .. n + 1 |-> IF i = n + 1 THEN m ELSE s[i]]
  <2>6. u \in [1 .. n + 1 -> U]
    BY <2>2, <2>4, <2>5
  <2>7. ASSUME NEW i \in 1 .. n + 1, NEW j \in 1 .. n + 1, i < j
        PROVE  <<u[i], u[j]>> \in R
    <3>1. i \in 1 .. n /\ u[i] = s[i] /\ s[i] \in V
      BY <2>4, <2>5, <2>7
    <3>2. CASE j = n + 1
      BY <2>2, <3>1, <3>2
    <3>3. CASE j # n + 1
      <4>1. j \in 1 .. n /\ u[j] = s[j]
        BY <2>4, <3>3
      <4> QED
        BY <2>5, <2>7, <3>1, <4>1 DEF InOrder
    <3> QED
      BY <3>2, <3>3
  <2>8. u \in Lists(U)
    <3> HIDE DEF u
    <3> QED
      BY <2>4, <2>6, <2>7 DEF InOrder
  <2> QED
    BY <1>1, <2>8
<1> QED
  BY <1>2, <1>3

\* The smallest natural number of a set.
LEMMA LeastNumber ==
    ASSUME NEW S, S \subseteq Nat, S # {}
    PROVE  \E n \in S : \A k \in S : ~ (k < n)
<1>1. IsWellFoundedOn(OpToRel(<, Nat), Nat)
  BY NatLessThanWellFounded
<1>2. PICK n \in S : \A k \in S : ~ (<<k, n>> \in OpToRel(<, Nat))
  BY <1>1, WFMin
<1> QED
  BY <1>2 DEF OpToRel

\* The larger of two numbers.
LEMMA LargerOf ==
    ASSUME NEW a \in Int, NEW b \in Int
    PROVE  Max({a, b}) = IF a >= b THEN a ELSE b
<1> DEFINE m == IF a >= b THEN a ELSE b
<1>1. m \in {a, b} /\ \A y \in {a, b} : m >= y
  OBVIOUS
<1>2. \A x \in {a, b} : (\A y \in {a, b} : x >= y) => x = m
  OBVIOUS
<1> QED
  BY <1>1, <1>2 DEF Max

\* The smaller of two numbers.
LEMMA SmallerOf ==
    ASSUME NEW a \in Int, NEW b \in Int
    PROVE  Min({a, b}) = IF a <= b THEN a ELSE b
<1> DEFINE m == IF a <= b THEN a ELSE b
<1>1. m \in {a, b} /\ \A y \in {a, b} : m =< y
  OBVIOUS
<1>2. \A x \in {a, b} : (\A y \in {a, b} : x =< y) => x = m
  OBVIOUS
<1> QED
  BY <1>1, <1>2 DEF Min

\* Terms may be counted under other names.
LEMMA SumRenamed ==
    ASSUME NEW S, IsFiniteSet(S), NEW g, \A x, y \in S : g[x] = g[y] => x = y,
           NEW f, NEW h, \A x \in S : f[g[x]] \in Int /\ h[x] = f[g[x]]
    PROVE  SumFunctionOnSet(h, S) = SumFunctionOnSet(f, {g[x] : x \in S})
<1> DEFINE Image(T) == {g[x] : x \in T}
           Good == {T \in SUBSET S : /\ IsFiniteSet(Image(T))
                                    /\ SumFunctionOnSet(h, T) = SumFunctionOnSet(f, Image(T))}
           Bad == (SUBSET S) \ Good
<1> SUFFICES ASSUME Bad # {}
             PROVE  FALSE
  OBVIOUS
<1>1. PICK T \in Bad : \A x \in T : T \ {x} \notin Bad
  <2> Bad \subseteq SUBSET S
    OBVIOUS
  <2> HIDE DEF Bad
  <2> QED
    BY SmallestSubset
<1>2. IsFiniteSet(T) /\ T \subseteq S
  BY <1>1, FS_Subset
<1>3. T # {}
  <2>1. ASSUME T = {}
        PROVE  FALSE
    <3>1. Image(T) = {}
      BY <2>1
    <3> QED
      BY <1>1, <2>1, <3>1, SumEmpty, FS_EmptySet
  <2> QED
    BY <2>1
<1>4. PICK a : a \in T
  BY <1>3
<1> DEFINE R == T \ {a}
<1>5. IsFiniteSet(Image(R)) /\ SumFunctionOnSet(h, R) = SumFunctionOnSet(f, Image(R))
  <2>1. R \notin Bad /\ R \in SUBSET S
    BY <1>1, <1>2, <1>4
  <2> QED
    BY <2>1
<1>6. Image(T) = Image(R) \cup {g[a]}
  BY <1>4
<1>7. Image(T) \ {g[a]} = Image(R) /\ g[a] \in Image(T)
  BY <1>2, <1>4
<1>8. IsFiniteSet(Image(T))
  <2>1. PICK U, V, b : U = Image(R) /\ V = Image(T) /\ b = g[a]
    OBVIOUS
  <2>2. IsFiniteSet(U) /\ V = U \cup {b}
    BY <1>5, <1>6, <2>1
  <2>3. IsFiniteSet(V)
    BY ONLY <2>2, FS_AddElement
  <2> QED
    BY <2>1, <2>3
<1>9. \A y \in Image(T) : f[y] \in Int
  BY <1>2
<1>10. \A x \in T : h[x] \in Int
  BY <1>2
<1> HIDE DEF Image
<1>11. SumFunctionOnSet(f, Image(T)) = f[g[a]] + SumFunctionOnSet(f, Image(R))
  <2>1. PICK U, V, b : U = Image(R) /\ V = Image(T) /\ b = g[a]
    OBVIOUS
  <2>2. IsFiniteSet(V) /\ b \in V /\ V \ {b} = U /\ \A y \in V : f[y] \in Int
    BY ONLY <1>7, <1>8, <1>9, <2>1
  <2>3. SumFunctionOnSet(f, V) = f[b] + SumFunctionOnSet(f, V \ {b})
    BY ONLY <2>2, SumRemove
  <2> QED
    BY ONLY <2>1, <2>2, <2>3
<1>12. SumFunctionOnSet(h, T) = h[a] + SumFunctionOnSet(h, R)
  BY <1>2, <1>4, <1>10, SumRemove
<1>13. h[a] = f[g[a]]
  BY <1>2, <1>4
<1>14. SumFunctionOnSet(h, T) = SumFunctionOnSet(f, Image(T))
  BY ONLY <1>5, <1>11, <1>12, <1>13
<1> QED
  BY <1>1, <1>2, <1>8, <1>14

\* More terms, a larger sum.
LEMMA SumGrows ==
    ASSUME NEW S, IsFiniteSet(S), NEW f, \A x \in S : f[x] \in Nat, NEW R, R \subseteq S
    PROVE  SumFunctionOnSet(f, R) <= SumFunctionOnSet(f, S)
<1> DEFINE Good == {T \in SUBSET (S \ R) : SumFunctionOnSet(f, R) <= SumFunctionOnSet(f, R \cup T)}
           Bad == (SUBSET (S \ R)) \ Good
<1> SUFFICES ASSUME Bad # {}
             PROVE  FALSE
  <2>1. (S \ R) \in SUBSET (S \ R) /\ R \cup (S \ R) = S
    OBVIOUS
  <2> QED
    BY <2>1
<1>1. IsFiniteSet(R) /\ IsFiniteSet(S \ R)
  BY FS_Subset
<1>2. PICK T \in Bad : \A x \in T : T \ {x} \notin Bad
  <2> Bad \subseteq SUBSET (S \ R)
    OBVIOUS
  <2> HIDE DEF Bad
  <2> QED
    BY <1>1, SmallestSubset
<1>3. T \subseteq S \ R /\ IsFiniteSet(R \cup T)
  <2>1. R \cup T \subseteq S
    OBVIOUS
  <2> QED
    BY <2>1, FS_Subset
<1>4. SumFunctionOnSet(f, R) \in Nat /\ SumFunctionOnSet(f, R \cup T) \in Nat
  <2>1. \A x \in R \cup T : f[x] \in Nat
    BY <1>3
  <2> QED
    BY <1>1, <1>3, <2>1, SumNat
<1>5. T # {}
  <2>1. ASSUME T = {}
        PROVE  FALSE
    <3>1. R \cup T = R
      BY <2>1
    <3>2. SumFunctionOnSet(f, R) <= SumFunctionOnSet(f, R \cup T)
      BY ONLY <1>4, <3>1
    <3> QED
      BY <1>2, <3>2
  <2> QED
    BY <2>1
<1>6. PICK a : a \in T
  BY <1>5
<1>7. SumFunctionOnSet(f, R) <= SumFunctionOnSet(f, R \cup (T \ {a}))
  <2>1. T \ {a} \notin Bad /\ T \ {a} \in SUBSET (S \ R)
    BY <1>2, <1>3, <1>6
  <2> QED
    BY <2>1
<1>8. SumFunctionOnSet(f, R \cup T) = f[a] + SumFunctionOnSet(f, R \cup (T \ {a}))
  <2>1. (R \cup T) \ {a} = R \cup (T \ {a}) /\ a \in R \cup T /\ \A x \in R \cup T : f[x] \in Int
    BY <1>3, <1>6
  <2> QED
    BY <1>3, <2>1, SumRemove
<1>9. f[a] \in Nat
  BY <1>3, <1>6
<1>10. SumFunctionOnSet(f, R \cup (T \ {a})) \in Nat
  <2>1. IsFiniteSet(R \cup (T \ {a})) /\ \A x \in R \cup (T \ {a}) : f[x] \in Nat
    <3>1. R \cup (T \ {a}) \subseteq S
      BY <1>3
    <3> QED
      BY <3>1, FS_Subset
  <2> QED
    BY <2>1, SumNat
<1>11. PICK m, n, o, v : /\ m = SumFunctionOnSet(f, R) /\ n = SumFunctionOnSet(f, R \cup T)
                         /\ o = SumFunctionOnSet(f, R \cup (T \ {a})) /\ v = f[a]
  OBVIOUS
<1>12. m \in Nat /\ n \in Nat /\ o \in Nat /\ v \in Nat /\ m <= o /\ n = v + o
  BY ONLY <1>4, <1>7, <1>8, <1>9, <1>10, <1>11
<1>13. m <= n
  BY ONLY <1>12
<1> QED
  BY <1>2, <1>3, <1>11, <1>13

\* A sum in two parts.
LEMMA SumSplit ==
    ASSUME NEW S, IsFiniteSet(S), NEW f, \A x \in S : f[x] \in Int, NEW R, R \subseteq S
    PROVE  SumFunctionOnSet(f, S) = SumFunctionOnSet(f, R) + SumFunctionOnSet(f, S \ R)
<1> DEFINE Good == {T \in SUBSET (S \ R) :
                      SumFunctionOnSet(f, R \cup T) = SumFunctionOnSet(f, R) + SumFunctionOnSet(f, T)}
           Bad == (SUBSET (S \ R)) \ Good
<1> SUFFICES ASSUME Bad # {}
             PROVE  FALSE
  <2>1. (S \ R) \in SUBSET (S \ R) /\ R \cup (S \ R) = S
    OBVIOUS
  <2> QED
    BY <2>1
<1>1. IsFiniteSet(R) /\ IsFiniteSet(S \ R)
  BY FS_Subset
<1>2. PICK T \in Bad : \A x \in T : T \ {x} \notin Bad
  <2> Bad \subseteq SUBSET (S \ R)
    OBVIOUS
  <2> HIDE DEF Bad
  <2> QED
    BY <1>1, SmallestSubset
<1>3. T \subseteq S \ R /\ IsFiniteSet(R \cup T) /\ IsFiniteSet(T)
  <2>1. R \cup T \subseteq S /\ T \subseteq S
    OBVIOUS
  <2> QED
    BY <2>1, FS_Subset
<1>4. SumFunctionOnSet(f, R) \in Int
  BY <1>1, SumInt
<1>5. T # {}
  <2>1. ASSUME T = {}
        PROVE  FALSE
    <3>1. R \cup T = R /\ SumFunctionOnSet(f, T) = 0
      BY <2>1, SumEmpty
    <3>2. PICK n : n = SumFunctionOnSet(f, R)
      OBVIOUS
    <3>3. n \in Int
      BY ONLY <1>4, <3>2
    <3>4. n = n + 0
      BY ONLY <3>3
    <3>5. SumFunctionOnSet(f, R \cup T) = SumFunctionOnSet(f, R) + SumFunctionOnSet(f, T)
      BY ONLY <3>1, <3>2, <3>4
    <3> QED
      BY <1>2, <3>5
  <2> QED
    BY <2>1
<1>6. PICK a : a \in T
  BY <1>5
<1>7. PICK U : U = T \ {a}
  OBVIOUS
<1>8. SumFunctionOnSet(f, R \cup U) = SumFunctionOnSet(f, R) + SumFunctionOnSet(f, U)
  <2>1. U \notin Bad /\ U \in SUBSET (S \ R)
    BY <1>2, <1>3, <1>6, <1>7
  <2> QED
    BY <2>1
<1>9. SumFunctionOnSet(f, R \cup T) = f[a] + SumFunctionOnSet(f, R \cup U)
  <2>1. (R \cup T) \ {a} = R \cup U /\ a \in R \cup T /\ \A x \in R \cup T : f[x] \in Int
    BY <1>3, <1>6, <1>7
  <2> QED
    BY ONLY <1>3, <2>1, SumRemove
<1>10. SumFunctionOnSet(f, T) = f[a] + SumFunctionOnSet(f, U)
  <2>1. \A x \in T : f[x] \in Int
    BY <1>3
  <2> QED
    BY ONLY <1>3, <1>6, <1>7, <2>1, SumRemove
<1>11. f[a] \in Int /\ SumFunctionOnSet(f, U) \in Int
  <2>1. IsFiniteSet(U) /\ \A x \in U : f[x] \in Int
    BY <1>3, <1>7, FS_Subset
  <2> QED
    BY <1>3, <1>6, <2>1, SumInt
<1>12. SumFunctionOnSet(f, R \cup T) = SumFunctionOnSet(f, R) + SumFunctionOnSet(f, T)
  BY ONLY <1>4, <1>8, <1>9, <1>10, <1>11
<1> QED
  BY <1>2, <1>3, <1>12

\* A sum of nothing but noughts.
LEMMA SumZero ==
    ASSUME NEW S, IsFiniteSet(S), NEW f, \A x \in S : f[x] = 0
    PROVE  SumFunctionOnSet(f, S) = 0
<1>1. \A x \in S : f[x] \in Int /\ f[x] \in Int /\ f[x] = f[x] + f[x]
  OBVIOUS
<1>2. SumFunctionOnSet(f, S) = SumFunctionOnSet(f, S) + SumFunctionOnSet(f, S)
  BY ONLY IsFiniteSet(S), <1>1, SumPlus
<1>3. SumFunctionOnSet(f, S) \in Int
  BY <1>1, SumInt
<1>4. PICK n : n = SumFunctionOnSet(f, S)
  OBVIOUS
<1>5. n \in Int /\ n = n + n
  BY ONLY <1>2, <1>3, <1>4
<1>6. n = 0
  BY ONLY <1>5
<1> QED
  BY ONLY <1>4, <1>6

\* The largest number of a finite set.
LEMMA GreatestNumber ==
    ASSUME NEW S, S \subseteq Int, S # {}, IsFiniteSet(S)
    PROVE  \E n \in S : \A k \in S : n >= k
<1> DEFINE R == {p \in S \X S : p[1] < p[2]}
<1>1. \A a, b \in S : <<a, b>> \in R <=> a < b
  OBVIOUS
<1> HIDE DEF R
<1>2. StrictOrder(R, S)
  BY <1>1 DEF StrictOrder
<1>3. S \subseteq S
  OBVIOUS
<1>4. \E m \in S : \A x \in S : x # m => <<x, m>> \in R
  BY ONLY IsFiniteSet(S), S # {}, <1>2, <1>3, HasLast
<1>5. PICK m \in S : \A x \in S : x # m => <<x, m>> \in R
  BY <1>4
<1>6. ASSUME NEW k \in S
      PROVE  m >= k
  <2>1. m \in Int /\ k \in Int
    OBVIOUS
  <2>2. k = m \/ k < m
    BY <1>1, <1>5
  <2> QED
    BY ONLY <2>1, <2>2
<1> QED
  BY <1>6
=============================================================================
