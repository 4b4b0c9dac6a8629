-------------------------- MODULE SettlementProofs --------------------------
(***************************************************************************)
(* Proofs about the settlement engine, for inventories and nets of any     *)
(* size: what computeSettlement accepts nets to zero on both axes, nobody  *)
(* gains by a refund, an expense refunded in full leaves no trace, and the *)
(* transfers of minTransfers settle everybody in fewer rows than there are *)
(* members to settle, each a row settlement_transfers accepts.             *)
(***************************************************************************)
EXTENDS SettlementCases, TransferLoop, FiniteSetTheorems, SequenceTheorems,
        TLAPS

-----------------------------------------------------------------------------
(* Sums over finite sets.  Induction is over a set that holds the cases    *)
(* wanted, and comes down to a well-founded order: SumFunctionOnSet is a   *)
(* choice among functions, which exist and agree (SumOneMore).                *)

(* Induction over the subsets of a finite set, said of a set of subsets.   *)
LEMMA SubsetInduction ==
    ASSUME NEW S, IsFiniteSet(S), NEW G,
           \A T \in SUBSET S : (\A x \in T : T \ {x} \in G) => T \in G
    PROVE  S \in G
<1> DEFINE Bad == {T \in FiniteSubsetsOf(S) : T \notin G}
<1>1. SUFFICES ASSUME S \notin G PROVE FALSE
  OBVIOUS
<1>2. S \in Bad
  BY <1>1 DEF FiniteSubsetsOf
<1>3. PICK T \in Bad : \A U \in Bad : <<U, T>> \notin StrictSubsetOrdering(S)
  BY <1>2, FS_StrictSubsetOrderingWellFounded, WFMin, Zenon
<1>4. PICK x \in T : T \ {x} \notin G
  BY <1>3 DEF FiniteSubsetsOf
<1>5. T \ {x} \in FiniteSubsetsOf(S)
  BY <1>3, FS_RemoveElement DEF FiniteSubsetsOf
<1>6. <<T \ {x}, T>> \in StrictSubsetOrdering(S)
  BY <1>3, <1>4 DEF StrictSubsetOrdering, FiniteSubsetsOf
<1> QED
  BY <1>3, <1>4, <1>5, <1>6

(* Induction over the natural numbers, said of a set of numbers. *)
LEMMA SetOfNatInduction ==
    ASSUME NEW G, 0 \in G, \A n \in Nat : n \in G => n + 1 \in G
    PROVE  Nat \subseteq G
<1> SUFFICES ASSUME NEW n \in Nat PROVE n \in G
  OBVIOUS
<1> DEFINE Sized == {T \in SUBSET (1 .. n) : Cardinality(T) \in G}
<1>1. IsFiniteSet(1 .. n) /\ Cardinality(1 .. n) = n
  BY FS_Interval
<1>2. ASSUME NEW T \in SUBSET (1 .. n), \A x \in T : T \ {x} \in Sized
      PROVE  T \in Sized
  <2>1. IsFiniteSet(T)
    BY <1>1, FS_Subset
  <2>2. CASE T = {}
    BY <2>2, FS_EmptySet
  <2>3. CASE T # {}
    <3>1. PICK x \in T : TRUE
      BY <2>3
    <3>2. /\ IsFiniteSet(T \ {x}) /\ Cardinality(T) \in Nat
          /\ Cardinality(T \ {x}) = Cardinality(T) - 1
      BY <2>1, <3>1, FS_RemoveElement, FS_CardinalityType
    <3>3. Cardinality(T \ {x}) \in Nat
      BY <3>2, FS_CardinalityType
    <3>4. Cardinality(T \ {x}) \in G
      BY <1>2, <3>1
    <3> QED
      BY <3>2, <3>3, <3>4
  <2> QED
    BY <2>2, <2>3
<1>3. 1 .. n \in Sized
  <2> HIDE DEF Sized
  <2> QED BY <1>1, <1>2, SubsetInduction
<1> QED
  BY <1>1, <1>3

-----------------------------------------------------------------------------
(* What MapThenFoldSet does to sum f over a subset s of S.                 *)
Pick(s) == CHOOSE x \in s : TRUE

OneMore(f, g, s) == IF s = {} THEN 0 ELSE f[Pick(s)] + g[s \ {Pick(s)}]

Iterates(f, g, S) == g = [s \in SUBSET S |-> OneMore(f, g, s)]

(* The sum is the last value of a function that Iterates describes, ...    *)
LEMMA SumIterates ==
    ASSUME NEW f, NEW S
    PROVE  SumFunctionOnSet(f, S) = (CHOOSE g : Iterates(f, g, S))[S]
  BY DEF SumFunctionOnSet, FoldFunctionOnSet, MapThenFoldSet, Iterates, OneMore, Pick

(* ... one exists, ...                                                     *)
LEMMA IterationExists ==
    ASSUME NEW f, NEW S, IsFiniteSet(S)
    PROVE  \E g : Iterates(f, g, S)
<1> DEFINE Upto(g, n) == \A s \in SUBSET S : Cardinality(s) <= n => g[s] = OneMore(f, g, s)
           G == {n \in Nat : \E D : DOMAIN D = SUBSET S /\ Upto(D, n)}
<1>1. \A s \in SUBSET S :
         /\ IsFiniteSet(s)
         /\ Cardinality(s) \in Nat /\ Cardinality(s) <= Cardinality(S)
  BY FS_Subset, FS_CardinalityType
<1>2. 0 \in G
  <2> DEFINE z == [s \in SUBSET S |-> 0]
  <2>1. Upto(z, 0)
    BY <1>1, FS_EmptySet DEF OneMore
  <2> QED
    BY <2>1
<1>3. ASSUME NEW n \in Nat, n \in G PROVE n + 1 \in G
  <2>1. PICK g : DOMAIN g = SUBSET S /\ Upto(g, n)
    BY <1>3
  <2> DEFINE h == [s \in SUBSET S |-> OneMore(f, g, s)]
  <2>2. ASSUME NEW s \in SUBSET S, Cardinality(s) <= n + 1 PROVE h[s] = OneMore(f, h, s)
    <3>1. CASE s = {}
      BY <3>1 DEF OneMore
    <3>2. CASE s # {}
      <4> DEFINE t == s \ {Pick(s)}
      <4>1. Pick(s) \in s
        BY <3>2 DEF Pick
      <4>2. t \in SUBSET S /\ Cardinality(t) <= n
        BY <1>1, <2>2, <4>1, FS_RemoveElement
      <4>3. h[t] = g[t]
        BY <2>1, <4>2
      <4> QED
        BY <3>2, <4>3, <4>2 DEF OneMore
    <3> QED
      BY <3>1, <3>2
  <2>3. DOMAIN h = SUBSET S /\ Upto(h, n + 1)
    BY <2>2
  <2> HIDE DEF h, Upto
  <2>4. \E D : DOMAIN D = SUBSET S /\ Upto(D, n + 1)
    BY <2>3
  <2> QED
    BY <2>4
<1>4. Cardinality(S) \in G
  <2> HIDE DEF G
  <2> QED BY <1>1, <1>2, <1>3, SetOfNatInduction, FS_CardinalityType
<1>5. PICK g : DOMAIN g = SUBSET S /\ Upto(g, Cardinality(S))
  BY <1>4
<1> DEFINE h == [s \in SUBSET S |-> OneMore(f, g, s)]
<1>6. \A s \in SUBSET S : h[s] = g[s]
  BY <1>1, <1>5
<1>7. ASSUME NEW s \in SUBSET S PROVE OneMore(f, h, s) = OneMore(f, g, s)
  BY <1>6 DEF OneMore, Pick
<1>8. h = [s \in SUBSET S |-> OneMore(f, h, s)]
  BY <1>7
<1> QED
  BY <1>8 DEF Iterates

(* ... and any two agree on what they both sum, ...                        *)
LEMMA IterationsAgree ==
    ASSUME NEW f, NEW S, IsFiniteSet(S), NEW g, Iterates(f, g, S),
           NEW T \in SUBSET S, NEW h, Iterates(f, h, T)
    PROVE  h[T] = g[T]
<1> DEFINE G == {t \in SUBSET T : h[t] = g[t]}
<1>1. ASSUME NEW t \in SUBSET T, \A x \in t : t \ {x} \in G PROVE t \in G
  <2>1. g[t] = OneMore(f, g, t) /\ h[t] = OneMore(f, h, t)
    BY DEF Iterates
  <2>2. t # {} => Pick(t) \in t
    BY DEF Pick
  <2>3. OneMore(f, g, t) = OneMore(f, h, t)
    BY <1>1, <2>2 DEF OneMore
  <2> QED
    BY <2>1, <2>3
<1>2. T \in G
  <2> HIDE DEF G
  <2> QED BY <1>1, SubsetInduction, FS_Subset
<1> QED
  BY <1>2

(* ... so a sum is one term and the sum of the others.                     *)
LEMMA SumOneMore ==
    ASSUME NEW f, NEW S, IsFiniteSet(S), S # {}
    PROVE  /\ Pick(S) \in S
           /\ SumFunctionOnSet(f, S) = f[Pick(S)] + SumFunctionOnSet(f, S \ {Pick(S)})
<1> DEFINE T == S \ {Pick(S)}
<1>1. Pick(S) \in S
  BY DEF Pick
<1>2. PICK g : Iterates(f, g, S) /\ SumFunctionOnSet(f, S) = g[S]
  BY SumIterates, IterationExists
<1>3. IsFiniteSet(T)
  BY FS_RemoveElement
<1>4. PICK h : Iterates(f, h, T) /\ SumFunctionOnSet(f, T) = h[T]
  BY <1>3, SumIterates, IterationExists
<1>5. h[T] = g[T]
  BY <1>2, <1>4, IterationsAgree
<1>6. g[S] = f[Pick(S)] + g[T]
  BY <1>2 DEF Iterates, OneMore
<1> QED
  BY <1>1, <1>2, <1>4, <1>5, <1>6

(* A sum is an integer, and is zero over nothing. *)
LEMMA SumEmpty == ASSUME NEW f PROVE SumFunctionOnSet(f, {}) = 0
<1>1. PICK g : Iterates(f, g, {}) /\ SumFunctionOnSet(f, {}) = g[{}]
  BY SumIterates, IterationExists, FS_EmptySet
<1> QED
  BY <1>1 DEF Iterates, OneMore

(* A sum of integers is an integer.                                        *)
LEMMA SumType ==
    ASSUME NEW S, IsFiniteSet(S), NEW f, \A x \in S : f[x] \in Int
    PROVE  SumFunctionOnSet(f, S) \in Int
<1> DEFINE G == {T \in SUBSET S : SumFunctionOnSet(f, T) \in Int}
<1>1. ASSUME NEW T \in SUBSET S, \A x \in T : T \ {x} \in G PROVE T \in G
  <2>1. CASE T = {}
    BY <2>1, SumEmpty
  <2>2. CASE T # {}
    <3>1. IsFiniteSet(T)
      BY FS_Subset
    <3>2. /\ Pick(T) \in T
          /\ SumFunctionOnSet(f, T) = f[Pick(T)] + SumFunctionOnSet(f, T \ {Pick(T)})
      BY <2>2, <3>1, SumOneMore
    <3> QED
      BY <1>1, <3>2
  <2> QED
    BY <2>1, <2>2
<1>2. S \in G
  <2> HIDE DEF G
  <2> QED BY <1>1, SubsetInduction
<1> QED
  BY <1>2

(* Any element may be taken out first. *)
LEMMA SumRemove ==
    ASSUME NEW S, IsFiniteSet(S), NEW f, \A x \in S : f[x] \in Int, NEW x \in S
    PROVE  SumFunctionOnSet(f, S) = f[x] + SumFunctionOnSet(f, S \ {x})
<1> DEFINE sum(T) == SumFunctionOnSet(f, T)
           G == {T \in SUBSET S : \A y \in T : sum(T) = f[y] + sum(T \ {y})}
<1>0. \A T \in SUBSET S : IsFiniteSet(T) /\ sum(T) \in Int
  BY FS_Subset, SumType
<1>1. ASSUME NEW T \in SUBSET S, \A y \in T : T \ {y} \in G, NEW y \in T
      PROVE  sum(T) = f[y] + sum(T \ {y})
  <2> DEFINE p == Pick(T)
             rest == T \ {p}
  <2>1. p \in T /\ sum(T) = f[p] + sum(rest)
    BY <1>0, SumOneMore
  <2>2. CASE y = p
    BY <2>1, <2>2
  <2>3. CASE y # p
    <3>1. sum(rest) = f[y] + sum(rest \ {y})
      BY <1>1, <2>1, <2>3
    <3>2. sum(T \ {y}) = f[p] + sum((T \ {y}) \ {p})
      BY <1>1, <2>1, <2>3
    <3>3. (T \ {y}) \ {p} = rest \ {y}
      OBVIOUS
    <3>4. sum(rest \ {y}) \in Int /\ f[p] \in Int /\ f[y] \in Int
      BY <1>0, <2>1
    <3>5. sum(T \ {y}) = f[p] + sum(rest \ {y})
      BY <3>2, <3>3
    <3>6. sum(T) = f[p] + (f[y] + sum(rest \ {y}))
      BY <2>1, <3>1
    <3> HIDE DEF p, rest, sum, G
    <3> QED
      BY <3>4, <3>5, <3>6
  <2> QED
    BY <2>2, <2>3
<1>2. S \in G
  <2>1. ASSUME NEW T \in SUBSET S, \A y \in T : T \ {y} \in G PROVE T \in G
    BY <1>1, <2>1
  <2> HIDE DEF G
  <2> QED BY <2>1, SubsetInduction
<1> QED
  BY <1>2

(* The step every induction over a sum makes. *)
LEMMA SumInduction ==
    ASSUME NEW S, IsFiniteSet(S), NEW G, {} \in G,
           \A T \in SUBSET S : \A x \in T :
               IsFiniteSet(T) /\ IsFiniteSet(T \ {x}) /\ T \ {x} \in G => T \in G
    PROVE  S \in G
<1>1. ASSUME NEW T \in SUBSET S, \A x \in T : T \ {x} \in G PROVE T \in G
  <2>1. CASE T = {}
    BY <2>1
  <2>2. CASE T # {}
    <3>1. PICK x \in T : TRUE
      BY <2>2
    <3>2. IsFiniteSet(T) /\ IsFiniteSet(T \ {x})
      BY FS_Subset
    <3> QED
      BY <1>1, <3>1, <3>2
  <2> QED
    BY <2>1, <2>2
<1> QED
  BY <1>1, SubsetInduction

(* A sum depends on its terms alone.                                       *)
LEMMA SumAgree ==
    ASSUME NEW S, IsFiniteSet(S), NEW f, NEW g,
           \A x \in S : f[x] \in Int /\ f[x] = g[x]
    PROVE  SumFunctionOnSet(f, S) = SumFunctionOnSet(g, S)
<1> DEFINE G == {T \in SUBSET S : SumFunctionOnSet(f, T) = SumFunctionOnSet(g, T)}
<1>1. {} \in G
  BY SumEmpty
<1>2. ASSUME NEW T \in SUBSET S, NEW x \in T, IsFiniteSet(T), T \ {x} \in G
      PROVE  T \in G
  <2>1. SumFunctionOnSet(f, T) = f[x] + SumFunctionOnSet(f, T \ {x})
    BY <1>2, SumRemove
  <2>2. SumFunctionOnSet(g, T) = g[x] + SumFunctionOnSet(g, T \ {x})
    BY <1>2, SumRemove
  <2> QED
    BY <1>2, <2>1, <2>2
<1> HIDE DEF G
<1>3. S \in G
  BY <1>1, <1>2, SumInduction
<1> QED
  BY <1>3 DEF G

(* Sums add up term by term, ... *)
LEMMA SumPlus ==
    ASSUME NEW S, IsFiniteSet(S), NEW f, NEW g, NEW h,
           \A x \in S : f[x] \in Int /\ g[x] \in Int /\ h[x] = f[x] + g[x]
    PROVE  SumFunctionOnSet(h, S) = SumFunctionOnSet(f, S) + SumFunctionOnSet(g, S)
<1> DEFINE G == {T \in SUBSET S :
                   SumFunctionOnSet(h, T) = SumFunctionOnSet(f, T) + SumFunctionOnSet(g, T)}
<1>1. {} \in G
  BY SumEmpty
<1>2. ASSUME NEW T \in SUBSET S, NEW x \in T, IsFiniteSet(T), IsFiniteSet(T \ {x}),
             T \ {x} \in G
      PROVE  T \in G
  <2> DEFINE U == T \ {x}
  <2>1. SumFunctionOnSet(f, T) = f[x] + SumFunctionOnSet(f, U)
    BY <1>2, SumRemove
  <2>2. SumFunctionOnSet(g, T) = g[x] + SumFunctionOnSet(g, U)
    BY <1>2, SumRemove
  <2>3. SumFunctionOnSet(h, T) = h[x] + SumFunctionOnSet(h, U)
    BY <1>2, SumRemove
  <2>4. SumFunctionOnSet(f, U) \in Int /\ SumFunctionOnSet(g, U) \in Int
    BY <1>2, SumType
  <2>5. SumFunctionOnSet(h, U) = SumFunctionOnSet(f, U) + SumFunctionOnSet(g, U)
    BY <1>2
  <2>6. f[x] \in Int /\ g[x] \in Int /\ h[x] = f[x] + g[x]
    OBVIOUS
  <2>7. SumFunctionOnSet(h, T) = SumFunctionOnSet(f, T) + SumFunctionOnSet(g, T)
    <3> HIDE DEF U, G
    <3> QED BY <2>1, <2>2, <2>3, <2>4, <2>5, <2>6
  <2> QED
    BY <2>7
<1> HIDE DEF G
<1>3. S \in G
  BY <1>1, <1>2, SumInduction
<1> QED
  BY <1>3 DEF G

(* ... scale, ... *)
LEMMA SumScale ==
    ASSUME NEW S, IsFiniteSet(S), NEW k \in Int, NEW f, NEW h,
           \A x \in S : f[x] \in Int /\ h[x] = k * f[x]
    PROVE  SumFunctionOnSet(h, S) = k * SumFunctionOnSet(f, S)
<1> DEFINE G == {T \in SUBSET S :
                   SumFunctionOnSet(h, T) = k * SumFunctionOnSet(f, T)}
<1>1. {} \in G
  BY SumEmpty
<1>2. ASSUME NEW T \in SUBSET S, NEW x \in T, IsFiniteSet(T), IsFiniteSet(T \ {x}),
             T \ {x} \in G
      PROVE  T \in G
  <2> DEFINE U == T \ {x}
  <2>1. SumFunctionOnSet(f, T) = f[x] + SumFunctionOnSet(f, U)
    BY <1>2, SumRemove
  <2>2. SumFunctionOnSet(h, T) = h[x] + SumFunctionOnSet(h, U)
    BY <1>2, SumRemove
  <2>3. SumFunctionOnSet(f, U) \in Int
    BY <1>2, SumType
  <2>4. SumFunctionOnSet(h, U) = k * SumFunctionOnSet(f, U)
    BY <1>2
  <2>5. f[x] \in Int /\ h[x] = k * f[x]
    OBVIOUS
  <2>6. SumFunctionOnSet(h, T) = k * SumFunctionOnSet(f, T)
    <3> HIDE DEF U, G
    <3> QED BY <2>1, <2>2, <2>3, <2>4, <2>5
  <2> QED
    BY <2>6
<1> HIDE DEF G
<1>3. S \in G
  BY <1>1, <1>2, SumInduction
<1> QED
  BY <1>3 DEF G

(* Multiple said by name, for the provers to match.                        *)
Multiple(h, k, f, S) == \A x \in S : f[x] \in Int /\ h[x] = k * f[x]

LEMMA SumMultiple ==
    ASSUME NEW S, IsFiniteSet(S), NEW k \in Int, NEW f, NEW h, Multiple(h, k, f, S)
    PROVE  SumFunctionOnSet(h, S) = k * SumFunctionOnSet(f, S)
  BY SumScale DEF Multiple

(* ... and grow with their terms. *)
LEMMA SumMonotone ==
    ASSUME NEW S, IsFiniteSet(S), NEW f, NEW g,
           \A x \in S : f[x] \in Int /\ g[x] \in Int /\ f[x] <= g[x]
    PROVE  SumFunctionOnSet(f, S) <= SumFunctionOnSet(g, S)
<1> DEFINE G == {T \in SUBSET S : SumFunctionOnSet(f, T) <= SumFunctionOnSet(g, T)}
<1>1. {} \in G
  BY SumEmpty
<1>2. ASSUME NEW T \in SUBSET S, NEW x \in T, IsFiniteSet(T), IsFiniteSet(T \ {x}),
             T \ {x} \in G
      PROVE  T \in G
  <2> DEFINE U == T \ {x}
  <2>1. SumFunctionOnSet(f, T) = f[x] + SumFunctionOnSet(f, U)
    BY <1>2, SumRemove
  <2>2. SumFunctionOnSet(g, T) = g[x] + SumFunctionOnSet(g, U)
    BY <1>2, SumRemove
  <2>3. SumFunctionOnSet(f, U) \in Int /\ SumFunctionOnSet(g, U) \in Int
    BY <1>2, SumType
  <2>4. SumFunctionOnSet(f, U) <= SumFunctionOnSet(g, U)
    BY <1>2
  <2>5. f[x] \in Int /\ g[x] \in Int /\ f[x] <= g[x]
    OBVIOUS
  <2>6. SumFunctionOnSet(f, T) <= SumFunctionOnSet(g, T)
    <3> HIDE DEF U, G
    <3> QED BY <2>1, <2>2, <2>3, <2>4, <2>5
  <2> QED
    BY <2>6
<1> HIDE DEF G
<1>3. S \in G
  BY <1>1, <1>2, SumInduction
<1> QED
  BY <1>3 DEF G

(* A sum over two disjoint sets. *)
LEMMA SumUnion ==
    ASSUME NEW S, IsFiniteSet(S), NEW R, IsFiniteSet(R), S \cap R = {},
           NEW f, \A x \in S \cup R : f[x] \in Int
    PROVE  SumFunctionOnSet(f, S \cup R)
             = SumFunctionOnSet(f, S) + SumFunctionOnSet(f, R)
<1> DEFINE G == {T \in SUBSET S : SumFunctionOnSet(f, T \cup R)
                                    = SumFunctionOnSet(f, T) + SumFunctionOnSet(f, R)}
<1>0. SumFunctionOnSet(f, R) \in Int
  BY SumType
<1>1. {} \in G
  <2>1. {} \cup R = R
    OBVIOUS
  <2> QED
    BY <1>0, <2>1, SumEmpty
<1>2. ASSUME NEW T \in SUBSET S, NEW x \in T, IsFiniteSet(T), IsFiniteSet(T \ {x}),
             T \ {x} \in G
      PROVE  T \in G
  <2> DEFINE U == T \ {x}
  <2>1. SumFunctionOnSet(f, T) = f[x] + SumFunctionOnSet(f, U)
    BY <1>2, SumRemove
  <2>2. IsFiniteSet(T \cup R) /\ (T \cup R) \ {x} = U \cup R
    BY <1>2, FS_Union
  <2>3. SumFunctionOnSet(f, T \cup R) = f[x] + SumFunctionOnSet(f, (T \cup R) \ {x})
    BY <2>2, SumRemove
  <2>4. SumFunctionOnSet(f, U) \in Int
    BY <1>2, SumType
  <2>5. SumFunctionOnSet(f, U \cup R) = SumFunctionOnSet(f, U) + SumFunctionOnSet(f, R)
    BY <1>2
  <2>6. SumFunctionOnSet(f, T \cup R) = f[x] + SumFunctionOnSet(f, U \cup R)
    BY <2>2, <2>3
  <2>7. f[x] \in Int
    OBVIOUS
  <2>8. SumFunctionOnSet(f, T \cup R) = SumFunctionOnSet(f, T) + SumFunctionOnSet(f, R)
    <3> HIDE DEF U, G
    <3> QED BY <1>0, <2>1, <2>4, <2>5, <2>6, <2>7
  <2> QED
    BY <2>8
<1> HIDE DEF G
<1>3. S \in G
  BY <1>1, <1>2, SumInduction
<1> QED
  BY <1>3 DEF G

(* Terms that are all zero sum to zero.                                    *)
LEMMA SumZero ==
    ASSUME NEW S, IsFiniteSet(S), NEW f, \A x \in S : f[x] = 0
    PROVE  SumFunctionOnSet(f, S) = 0
<1>1. SumFunctionOnSet(f, S) = 0 * SumFunctionOnSet(f, S)
  BY SumScale
<1>2. SumFunctionOnSet(f, S) \in Int
  BY SumType
<1> QED
  BY <1>1, <1>2

(* Terms that are zero may be left out. *)
LEMMA SumSubset ==
    ASSUME NEW S, IsFiniteSet(S), NEW T \in SUBSET S, NEW f,
           \A x \in T : f[x] \in Int, \A x \in S \ T : f[x] = 0
    PROVE  SumFunctionOnSet(f, S) = SumFunctionOnSet(f, T)
<1>1. IsFiniteSet(T) /\ IsFiniteSet(S \ T) /\ T \cup (S \ T) = S
  BY FS_Subset, FS_Difference
<1>2. SumFunctionOnSet(f, T \cup (S \ T)) = SumFunctionOnSet(f, T) + SumFunctionOnSet(f, S \ T)
  BY <1>1, SumUnion
<1>3. SumFunctionOnSet(f, S \ T) = 0
  BY <1>1, SumZero
<1>4. SumFunctionOnSet(f, T) \in Int
  BY <1>1, SumType
<1>5. SumFunctionOnSet(f, S) = SumFunctionOnSet(f, T) + SumFunctionOnSet(f, S \ T)
  BY <1>1, <1>2
<1> QED
  BY <1>3, <1>4, <1>5

(* Counting is summing ones. *)
LEMMA SumConst ==
    ASSUME NEW S, IsFiniteSet(S), NEW k \in Int, NEW f, \A x \in S : f[x] = k
    PROVE  SumFunctionOnSet(f, S) = k * Cardinality(S)
<1> DEFINE G == {T \in SUBSET S : SumFunctionOnSet(f, T) = k * Cardinality(T)}
<1>1. {} \in G
  BY SumEmpty, FS_EmptySet
<1>2. ASSUME NEW T \in SUBSET S, NEW x \in T, IsFiniteSet(T), IsFiniteSet(T \ {x}),
             T \ {x} \in G
      PROVE  T \in G
  <2> DEFINE U == T \ {x}
  <2>1. SumFunctionOnSet(f, T) = f[x] + SumFunctionOnSet(f, U)
    BY <1>2, SumRemove
  <2>2. Cardinality(U) = Cardinality(T) - 1 /\ Cardinality(T) \in Nat
    BY <1>2, FS_RemoveElement, FS_CardinalityType
  <2>3. SumFunctionOnSet(f, U) = k * Cardinality(U) /\ f[x] = k
    BY <1>2
  <2>4. SumFunctionOnSet(f, T) = k * Cardinality(T)
    <3> HIDE DEF U, G
    <3>1. k + k * (Cardinality(T) - 1) = k * Cardinality(T)
      BY <2>2
    <3> QED BY <2>1, <2>2, <2>3, <3>1
  <2> QED
    BY <2>4
<1> HIDE DEF G
<1>3. S \in G
  BY <1>1, <1>2, SumInduction
<1> QED
  BY <1>3 DEF G

(* The sum that counts a subset.                                           *)
LEMMA SumCount ==
    ASSUME NEW S, IsFiniteSet(S), NEW T \in SUBSET S, NEW f,
           \A x \in S : f[x] = IF x \in T THEN 1 ELSE 0
    PROVE  SumFunctionOnSet(f, S) = Cardinality(T)
<1>1. IsFiniteSet(T) /\ Cardinality(T) \in Nat
  BY FS_Subset, FS_CardinalityType
<1>2. SumFunctionOnSet(f, S) = SumFunctionOnSet(f, T)
  BY SumSubset
<1>3. SumFunctionOnSet(f, T) = 1 * Cardinality(T)
  BY <1>1, SumConst
<1> QED
  BY <1>1, <1>2, <1>3

(* Rows and columns of a table sum to the same. *)
LEMMA SumSwap ==
    ASSUME NEW S, IsFiniteSet(S), NEW R, IsFiniteSet(R), NEW F,
           \A x \in S, y \in R : F[x][y] \in Int
    PROVE  SumFunctionOnSet([x \in S |-> SumFunctionOnSet(F[x], R)], S)
             = SumFunctionOnSet([y \in R |-> SumFunctionOnSet([x \in S |-> F[x][y]], S)], R)
<1> DEFINE rows == [x \in S |-> SumFunctionOnSet(F[x], R)]
           cols == [y \in R |-> SumFunctionOnSet([x \in S |-> F[x][y]], S)]
           col(y) == [x \in S |-> F[x][y]]
           part(T) == [y \in R |-> SumFunctionOnSet(col(y), T)]
           G == {T \in SUBSET S : SumFunctionOnSet(rows, T) = SumFunctionOnSet(part(T), R)}
<1>0. ASSUME NEW T \in SUBSET S
      PROVE  /\ \A x \in T : rows[x] \in Int
             /\ \A y \in R : /\ \A x \in T : col(y)[x] \in Int
                             /\ part(T)[y] \in Int
  <2>1. \A x \in T : rows[x] \in Int
    BY SumType
  <2>2. \A y \in R : \A x \in T : col(y)[x] \in Int
    OBVIOUS
  <2>3. \A y \in R : part(T)[y] \in Int
    BY <2>2, FS_Subset, SumType
  <2> QED
    BY <2>1, <2>2, <2>3
<1>1. {} \in G
  <2>1. SumFunctionOnSet(part({}), R) = 0
    BY SumEmpty, SumZero
  <2> QED
    BY <2>1, SumEmpty
<1>2. ASSUME NEW T \in SUBSET S, NEW x \in T, IsFiniteSet(T), IsFiniteSet(T \ {x}),
             T \ {x} \in G
      PROVE  T \in G
  <2> DEFINE U == T \ {x}
  <2>1. SumFunctionOnSet(rows, T) = rows[x] + SumFunctionOnSet(rows, U)
    BY <1>0, <1>2, SumRemove
  <2>2. ASSUME NEW y \in R PROVE part(T)[y] = F[x][y] + part(U)[y]
    <3>1. SumFunctionOnSet(col(y), T) = col(y)[x] + SumFunctionOnSet(col(y), U)
      BY <1>0, <1>2, SumRemove
    <3> QED
      BY <3>1
  <2>3. \A y \in R : F[x][y] \in Int /\ part(U)[y] \in Int
    BY <1>0
  <2>4. SumFunctionOnSet(part(T), R)
          = SumFunctionOnSet(F[x], R) + SumFunctionOnSet(part(U), R)
    <3> HIDE DEF part, U
    <3> QED BY <2>2, <2>3, SumPlus
  <2>5. SumFunctionOnSet(rows, U) = SumFunctionOnSet(part(U), R)
    BY <1>2
  <2> QED
    BY <2>1, <2>4, <2>5
<1> HIDE DEF G
<1>3. S \in G
  BY <1>1, <1>2, SumInduction
<1>4. \A y \in R : part(S)[y] = cols[y]
  OBVIOUS
<1>5. SumFunctionOnSet(part(S), R) = SumFunctionOnSet(cols, R)
  <2>1. \A y \in R : part(S)[y] \in Int
    BY <1>0
  <2> HIDE DEF part
  <2> QED BY <1>4, <2>1, SumAgree
<1> QED
  BY <1>3, <1>5 DEF G

-----------------------------------------------------------------------------
(* Places in a sorted list, counted as in PlaceIn.                         *)

(* The places of a sort: before is a set of pairs, a strict total order.   *)
StrictOrder(before, S) ==
    /\ \A x, y \in S : <<x, y>> \in before => <<y, x>> \notin before
    /\ \A x, y, z \in S : <<x, y>> \in before /\ <<y, z>> \in before => <<x, z>> \in before
    /\ \A x, y \in S : x # y => <<x, y>> \in before \/ <<y, x>> \in before

Place(x, before, S) == Cardinality({y \in S : <<y, x>> \in before})

(* A place is a number below the size of the set.                          *)
LEMMA PlaceType ==
    ASSUME NEW S, IsFiniteSet(S), NEW before, StrictOrder(before, S), NEW x \in S
    PROVE  Place(x, before, S) \in 0 .. (Cardinality(S) - 1)
<1> DEFINE P == {y \in S : <<y, x>> \in before}
<1>1. IsFiniteSet(S \ {x}) /\ Cardinality(S \ {x}) = Cardinality(S) - 1
  BY FS_RemoveElement
<1>2. P \in SUBSET (S \ {x})
  BY DEF StrictOrder
<1> HIDE DEF P
<1>3. IsFiniteSet(P) /\ Cardinality(P) <= Cardinality(S) - 1
  BY <1>1, <1>2, FS_Subset
<1>4. Cardinality(P) \in Nat /\ Cardinality(S) \in Nat
  BY <1>3, FS_CardinalityType
<1> QED
  BY <1>3, <1>4 DEF Place, P

(* A later member has a greater place.                                     *)
LEMMA PlaceGrows ==
    ASSUME NEW S, IsFiniteSet(S), NEW before, StrictOrder(before, S), NEW x \in S, NEW y \in S,
           <<x, y>> \in before
    PROVE  Place(x, before, S) < Place(y, before, S)
<1> DEFINE P == {z \in S : <<z, x>> \in before}
           Q == {z \in S : <<z, y>> \in before}
<1>1. x \notin P /\ P \cup {x} \subseteq Q
  BY DEF StrictOrder
<1>2. IsFiniteSet(P) /\ IsFiniteSet(Q)
  BY FS_Subset
<1>3. Cardinality(P \cup {x}) = Cardinality(P) + 1 /\ Cardinality(P) \in Nat
  BY <1>1, <1>2, FS_AddElement, FS_CardinalityType
<1>4. Cardinality(P \cup {x}) <= Cardinality(Q) /\ Cardinality(Q) \in Nat
  BY <1>1, <1>2, FS_Subset, FS_CardinalityType
<1> QED
  BY <1>3, <1>4 DEF Place

(* Every place is taken, by one element. *)
LEMMA PlacesAreTaken ==
    ASSUME NEW S, IsFiniteSet(S), NEW before, StrictOrder(before, S)
    PROVE  [x \in S |-> Place(x, before, S)] \in Bijection(S, 0 .. (Cardinality(S) - 1))
<1> DEFINE place == [x \in S |-> Place(x, before, S)]
           N == 0 .. (Cardinality(S) - 1)
<1>1. Cardinality(S) \in Nat
  BY FS_CardinalityType
<1>2. place \in [S -> N]
  BY PlaceType
<1>3. ASSUME NEW x \in S, NEW y \in S, x # y PROVE place[x] # place[y]
  <2>1. CASE <<x, y>> \in before
    BY <1>1, <2>1, PlaceGrows, PlaceType
  <2>2. CASE <<y, x>> \in before
    BY <1>1, <2>2, PlaceGrows, PlaceType
  <2> QED
    BY <1>3, <2>1, <2>2 DEF StrictOrder
<1>4. place \in Injection(S, N)
  BY <1>2, <1>3 DEF Injection, IsInjective
<1>5. IsFiniteSet(N) /\ Cardinality(N) = Cardinality(S)
  BY <1>1, FS_Interval
<1>6. place \in Surjection(S, N)
  BY <1>4, <1>5, FS_Injection
<1> QED
  BY <1>4, <1>6 DEF Bijection

(* As many elements have a place below n as there are such places. *)
LEMMA PlacesBelow ==
    ASSUME NEW S, IsFiniteSet(S), NEW before, StrictOrder(before, S),
           NEW n \in 0 .. Cardinality(S)
    PROVE  Cardinality({x \in S : Place(x, before, S) < n}) = n
<1> DEFINE place == [x \in S |-> Place(x, before, S)]
           N == 0 .. (Cardinality(S) - 1)
           B == {x \in S : Place(x, before, S) < n}
           low == [x \in B |-> Place(x, before, S)]
<1>1. Cardinality(S) \in Nat
  BY FS_CardinalityType
<1>2. place \in Bijection(S, N)
  BY PlacesAreTaken
<1>3. \A x, y \in S : place[x] = place[y] => x = y
  BY <1>2 DEF Bijection, Injection, IsInjective
<1>4. \A k \in N : \E x \in S : place[x] = k
  BY <1>2 DEF Bijection, Surjection
<1>5. low \in [B -> 0 .. (n - 1)]
  BY <1>1, PlaceType
<1>6. \A x, y \in B : low[x] = low[y] => x = y
  BY <1>3
<1>7. ASSUME NEW k \in 0 .. (n - 1) PROVE \E x \in B : low[x] = k
  <2>1. k \in N
    BY <1>1
  <2>2. PICK x \in S : place[x] = k
    BY <1>4, <2>1
  <2>3. x \in B
    BY <1>1, <2>2
  <2> QED
    BY <2>2, <2>3
<1>8. low \in Bijection(B, 0 .. (n - 1))
  BY <1>5, <1>6, <1>7 DEF Bijection, Injection, Surjection, IsInjective
<1>9. IsFiniteSet(B)
  BY FS_Subset
<1>10. Cardinality(0 .. (n - 1)) = n
  BY <1>1, FS_Interval
<1> QED
  BY <1>8, <1>9, <1>10, FS_Bijection DEF ExistsBijection

-----------------------------------------------------------------------------
(* Division, and the equal shares of splitExpense.                         *)

(* Division that truncates, of what is not negative.                       *)
LEMMA DivisionType ==
    ASSUME NEW a \in Nat, NEW b \in Nat \ {0}
    PROVE  a \div b \in Nat
  OBVIOUS

(* The quotient is the largest that fits.                                  *)
LEMMA Division ==
    ASSUME NEW a \in Nat, NEW b \in Nat \ {0}
    PROVE  /\ b * (a \div b) <= a
           /\ a < b * (a \div b) + b
<1>1. a \div b \in Nat /\ a % b \in 0 .. (b-1) /\ a = b * (a \div b) + (a % b)
  OBVIOUS
<1> QED BY <1>1

(* What the provers need to be told of products.                           *)
LEMMA ProductType == ASSUME NEW a \in Int, NEW b \in Int PROVE a * b \in Int
  OBVIOUS
(* Products keep an order, ... *)
LEMMA ProductOrder ==
    ASSUME NEW a \in Int, NEW b \in Int, NEW k \in Nat, a <= b
    PROVE  k * a <= k * b
  OBVIOUS
(* ... and give it back, ... *)
LEMMA ProductCancel ==
    ASSUME NEW a \in Int, NEW b \in Int, NEW k \in Nat \ {0}, k * a <= k * b
    PROVE  a <= b
  OBVIOUS
(* ... the strict one too. *)
LEMMA ProductCancel2 ==
    ASSUME NEW a \in Int, NEW b \in Int, NEW k \in Nat \ {0}, k * a < k * b
    PROVE  a < b
  OBVIOUS

(* FloorDiv leaves a remainder that is not negative, whatever the sign of a. *)
LEMMA FloorDivides ==
    ASSUME NEW a \in Int, NEW b \in Nat \ {0}
    PROVE  /\ FloorDiv(a, b) \in Int
           /\ a - FloorDiv(a, b) * b \in 0 .. (b - 1)
           /\ a >= 0 => FloorDiv(a, b) >= 0
<1>1. CASE a >= 0
  <2> DEFINE q == a \div b
  <2>1. q \in Nat /\ b * q <= a /\ a < b * q + b
    BY <1>1, DivisionType, Division
  <2>2. TruncDiv(a, b) = q
    BY <1>1 DEF TruncDiv
  <2>3. b * q \in Int /\ b * q = q * b
    BY <2>1
  <2> HIDE DEF q
  <2>4. FloorDiv(a, b) = q
    BY <2>1, <2>2, <2>3 DEF FloorDiv, TruncRem
  <2> QED
    BY <2>1, <2>3, <2>4
<1>2. CASE a < 0
  <2> DEFINE q == (-a) \div b
  <2>1. q \in Nat /\ b * q <= -a /\ -a < b * q + b
    BY <1>2, DivisionType, Division
  <2>2. TruncDiv(a, b) = -q
    BY <1>2 DEF TruncDiv
  <2>3. /\ b * q \in Int /\ b * (-q) = -(b * q)
        /\ (-q) * b = -(b * q) /\ (-q - 1) * b = -(b * q) - b
    BY <2>1
  <2> HIDE DEF q
  <2>4. FloorDiv(a, b) = IF b * q < -a THEN -q - 1 ELSE -q
    BY <2>1, <2>2, <2>3 DEF FloorDiv, TruncRem
  <2> QED
    BY <1>2, <2>1, <2>3, <2>4
<1> QED
  BY <1>1, <1>2

(* The order of ids, as a set of pairs. *)
ById(S) == {p \in S \X S : p[1] < p[2]}

(* Ids sort.                                                               *)
LEMMA ByIdOrders == ASSUME NEW S \in SUBSET Int PROVE StrictOrder(ById(S), S)
  BY DEF StrictOrder, ById

(* splitExpense: the shares add up to the amount ("split sum != amount" is *)
(* never thrown), and nobody's share of a positive amount is negative.     *)
LEMMA SharesAddUp ==
    ASSUME NEW amount \in Int, NEW members \in SUBSET Int, IsFiniteSet(members), members # {}
    PROVE  /\ SplitExpense(amount, members) \in [members -> Int]
           /\ SumFunctionOnSet(SplitExpense(amount, members), members) = amount
           /\ amount >= 0 => \A m \in members : SplitExpense(amount, members)[m] >= 0
<1> DEFINE n == Cardinality(members)
           base == FloorDiv(amount, n)
           rem == amount - base * n
           luckier == {m \in members : Place(m, ById(members), members) < rem}
           one == [m \in members |-> IF m \in luckier THEN 1 ELSE 0]
           flat == [m \in members |-> base]
           split == SplitExpense(amount, members)
<1>1. n \in Nat \ {0}
  BY FS_CardinalityType, FS_EmptySet
<1>2. base \in Int /\ rem \in 0 .. (n - 1) /\ (amount >= 0 => base >= 0)
  <2> HIDE DEF n
  <2> QED BY <1>1, FloorDivides
<1>3. ASSUME NEW m \in members
      PROVE  PlaceIn(m, members, <) = Place(m, ById(members), members)
  <2>1. {x \in members : x < m} = {y \in members : <<y, m>> \in ById(members)}
    BY DEF ById
  <2> QED
    BY <2>1 DEF PlaceIn, Place
<1>4. split = [m \in members |-> base + one[m]]
  BY <1>3 DEF SplitExpense
<1>5. Cardinality(luckier) = rem
  <2>1. rem \in 0 .. Cardinality(members)
    BY <1>1, <1>2
  <2> QED
    BY <2>1, ByIdOrders, PlacesBelow
<1>6. luckier \in SUBSET members
  OBVIOUS
<1>7. SumFunctionOnSet(one, members) = rem
  <2> HIDE DEF luckier, rem
  <2> QED BY <1>5, <1>6, SumCount
<1>8. SumFunctionOnSet(flat, members) = base * n
  <2> HIDE DEF base
  <2> QED BY <1>2, SumConst
<1>9. \A m \in members : /\ flat[m] = base /\ one[m] \in {0, 1}
                         /\ split[m] = flat[m] + one[m]
  BY <1>4
<1>10. SumFunctionOnSet(split, members) = base * n + rem
  <2> HIDE DEF base, flat, one, rem, split, n
  <2>1. \A m \in members : flat[m] \in Int /\ one[m] \in Int /\ split[m] = flat[m] + one[m]
    BY <1>2, <1>9
  <2>2. SumFunctionOnSet(split, members)
          = SumFunctionOnSet(flat, members) + SumFunctionOnSet(one, members)
    BY <2>1, SumPlus
  <2> QED
    BY <1>7, <1>8, <2>2
<1>11. split \in [members -> Int] /\ (amount >= 0 => \A m \in members : split[m] >= 0)
  <2> HIDE DEF base, rem, n, luckier, split
  <2> QED BY <1>2, <1>4
<1>12. base * n + rem = amount
  <2>1. base * n \in Int
    BY <1>1, <1>2, ProductType
  <2> QED
    BY <2>1
<1> QED
  BY <1>10, <1>11, <1>12

-----------------------------------------------------------------------------
(* The refunds of apportionRefund.                                         *)

(* floor-and-remainder, of what is not negative. *)
LEMMA TruncDivides ==
    ASSUME NEW a \in Nat, NEW b \in Nat \ {0}
    PROVE  /\ TruncDiv(a, b) \in Nat
           /\ TruncRem(a, b) \in 0 .. (b - 1)
           /\ a = b * TruncDiv(a, b) + TruncRem(a, b)
<1> DEFINE q == a \div b
<1>1. q \in Nat /\ b * q <= a /\ a < b * q + b
  BY DivisionType, Division
<1>2. TruncDiv(a, b) = q
  BY DEF TruncDiv
<1>3. b * q \in Int
  BY <1>1
<1> HIDE DEF q
<1> QED
  BY <1>1, <1>2, <1>3 DEF TruncRem

(* The largest remainder first, then the smallest id. *)
ByRemainder(frac, S) ==
    {p \in S \X S : \/ frac[p[1]] > frac[p[2]]
                    \/ frac[p[1]] = frac[p[2]] /\ p[1] < p[2]}

(* Remainders sort.                                                        *)
LEMMA ByRemainderOrders ==
    ASSUME NEW S \in SUBSET Int, NEW frac, \A x \in S : frac[x] \in Int
    PROVE  StrictOrder(ByRemainder(frac, S), S)
<1>1. \A x, y \in S : <<x, y>> \in ByRemainder(frac, S) <=>
         (frac[x] > frac[y] \/ (frac[x] = frac[y] /\ x < y))
  BY DEF ByRemainder
<1> QED
  BY <1>1 DEF StrictOrder

(* apportionRefund hands back all of the refund and, unless the refund is  *)
(* larger than the original, to nobody more than their share of it; a full *)
(* refund gives everybody exactly their share.                             *)
LEMMA RefundAddsUp ==
    ASSUME NEW members \in SUBSET Int, IsFiniteSet(members),
           NEW orig, DOMAIN orig = members, \A m \in members : orig[m] \in Nat,
           NEW absOrig \in Nat \ {0}, SumFunctionOnSet(orig, members) = absOrig,
           NEW absR \in Nat
    PROVE  /\ ApportionRefund(absR, orig, absOrig) \in [members -> Int]
           /\ SumFunctionOnSet(ApportionRefund(absR, orig, absOrig), members) = -absR
           /\ absR <= absOrig => \A m \in members :
                 orig[m] + ApportionRefund(absR, orig, absOrig)[m] >= 0
           /\ absR = absOrig => \A m \in members :
                 ApportionRefund(absR, orig, absOrig)[m] = -orig[m]
<1> DEFINE back == ApportionRefund(absR, orig, absOrig)
           num == [m \in members |-> absR * orig[m]]
           base == [m \in members |-> TruncDiv(absR * orig[m], absOrig)]
           frac == [m \in members |-> TruncRem(absR * orig[m], absOrig)]
           whole == [m \in members |-> absOrig * base[m]]
           given == SumFunctionOnSet(base, members)
           rem == absR - given
           luckier == {m \in members : Place(m, ByRemainder(frac, members), members) < rem}
           one == [m \in members |-> IF m \in luckier THEN 1 ELSE 0]
           uneven == {m \in members : frac[m] > 0}
           paid == [m \in members |-> base[m] + one[m]]
<1>1. \A m \in members : /\ num[m] \in Nat /\ base[m] \in Nat
                         /\ frac[m] \in 0 .. (absOrig - 1) /\ whole[m] \in Nat
                         /\ num[m] = whole[m] + frac[m]
  <2> SUFFICES ASSUME NEW m \in members
               PROVE  /\ num[m] \in Nat /\ base[m] \in Nat
                      /\ frac[m] \in 0 .. (absOrig - 1) /\ whole[m] \in Nat
                      /\ num[m] = whole[m] + frac[m]
    OBVIOUS
  <2> DEFINE a == absR * orig[m]
  <2>1. a \in Nat
    OBVIOUS
  <2>2. /\ TruncDiv(a, absOrig) \in Nat
        /\ TruncRem(a, absOrig) \in 0 .. (absOrig - 1)
        /\ a = absOrig * TruncDiv(a, absOrig) + TruncRem(a, absOrig)
    <3> HIDE DEF a
    <3> QED BY <2>1, TruncDivides
  <2>3. absOrig * TruncDiv(a, absOrig) \in Nat
    <3> HIDE DEF a
    <3> QED BY <2>2
  <2> QED
    BY <2>1, <2>2, <2>3
<1>2. SumFunctionOnSet(num, members) = absR * absOrig
  <2>1. \A m \in members : orig[m] \in Int /\ num[m] = absR * orig[m]
    OBVIOUS
  <2>2. absR \in Int
    OBVIOUS
  <2> HIDE DEF num
  <2>3. Multiple(num, absR, orig, members)
    BY <2>1 DEF Multiple
  <2>4. SumFunctionOnSet(num, members) = absR * SumFunctionOnSet(orig, members)
    BY <2>2, <2>3, SumMultiple
  <2> QED BY <2>4
<1>3. given \in Int /\ SumFunctionOnSet(whole, members) = absOrig * given
  <2>1. \A m \in members : base[m] \in Int /\ whole[m] = absOrig * base[m]
    BY <1>1
  <2>2. absOrig \in Int
    OBVIOUS
  <2> HIDE DEF base, whole
  <2>3. Multiple(whole, absOrig, base, members)
    BY <2>1 DEF Multiple
  <2>4. SumFunctionOnSet(whole, members) = absOrig * SumFunctionOnSet(base, members)
    BY <2>2, <2>3, SumMultiple
  <2> QED BY <2>1, <2>4, SumType
<1>4. /\ SumFunctionOnSet(frac, members) \in Int
      /\ SumFunctionOnSet(num, members)
           = SumFunctionOnSet(whole, members) + SumFunctionOnSet(frac, members)
  <2>1. \A m \in members : whole[m] \in Int /\ frac[m] \in Int /\ num[m] = whole[m] + frac[m]
    BY <1>1
  <2> HIDE DEF num, whole, frac
  <2> QED BY <2>1, SumPlus, SumType
(* What the floors leave over is what the remainders add up to. *)
<1>5. rem \in Int /\ absOrig * rem = SumFunctionOnSet(frac, members)
  <2>1. absOrig * given \in Int /\ absR * absOrig \in Int
        /\ absOrig * (absR - given) = absR * absOrig - absOrig * given
    BY <1>3
  <2> HIDE DEF given
  <2> QED
    BY <1>2, <1>3, <1>4, <2>1
<1>6. IsFiniteSet(uneven) /\ Cardinality(uneven) \in Nat
      /\ Cardinality(uneven) <= Cardinality(members) /\ Cardinality(members) \in Nat
  BY FS_Subset, FS_CardinalityType
<1>7. rem \in 0 .. Cardinality(uneven)
  <2> DEFINE u == Cardinality(uneven)
             low == [m \in members |-> 0]
             high == [m \in members |-> IF m \in uneven THEN absOrig ELSE 0]
             mark == [m \in members |-> IF m \in uneven THEN 1 ELSE 0]
  <2>1. SumFunctionOnSet(low, members) = 0
    BY SumZero
  <2>2. SumFunctionOnSet(mark, members) = u
    <3>1. uneven \in SUBSET members
      OBVIOUS
    <3> HIDE DEF uneven
    <3> QED BY <3>1, SumCount
  <2>3. SumFunctionOnSet(high, members) = absOrig * u
    <3>1. \A m \in members : mark[m] \in Int /\ high[m] = absOrig * mark[m]
      OBVIOUS
    <3>2. absOrig \in Int
      OBVIOUS
    <3> HIDE DEF mark, high, u
    <3>3. Multiple(high, absOrig, mark, members)
      BY <3>1 DEF Multiple
    <3>4. SumFunctionOnSet(high, members) = absOrig * SumFunctionOnSet(mark, members)
      BY <3>2, <3>3, SumMultiple
    <3> QED BY <2>2, <3>4
  <2>4. \A m \in members : low[m] \in Int /\ frac[m] \in Int /\ high[m] \in Int
                           /\ low[m] <= frac[m] /\ frac[m] <= high[m]
    <3> SUFFICES ASSUME NEW m \in members
                 PROVE  low[m] \in Int /\ frac[m] \in Int /\ high[m] \in Int
                           /\ low[m] <= frac[m] /\ frac[m] <= high[m]
      OBVIOUS
    <3>1. m \in uneven <=> frac[m] > 0
      OBVIOUS
    <3>2. frac[m] \in 0 .. (absOrig - 1)
      BY <1>1
    <3>3. low[m] = 0 /\ high[m] = IF m \in uneven THEN absOrig ELSE 0
      OBVIOUS
    <3> HIDE DEF frac, uneven, low, high
    <3> QED BY <3>1, <3>2, <3>3
  <2>5. /\ SumFunctionOnSet(low, members) <= SumFunctionOnSet(frac, members)
        /\ SumFunctionOnSet(frac, members) <= SumFunctionOnSet(high, members)
    <3> HIDE DEF low, frac, high
    <3> QED BY <2>4, SumMonotone
  <2>6. absOrig * 0 <= absOrig * rem /\ absOrig * rem <= absOrig * u
    <3> HIDE DEF low, frac, high, u, rem
    <3>1. absOrig * 0 = 0
      OBVIOUS
    <3> QED BY <1>5, <2>1, <2>3, <2>5, <3>1
  <2> HIDE DEF rem, uneven
  <2> QED
    BY <1>5, <1>6, <2>6, ProductCancel
<1>8. StrictOrder(ByRemainder(frac, members), members)
  <2>1. \A m \in members : frac[m] \in Int
    BY <1>1
  <2> HIDE DEF frac
  <2> QED BY <2>1, ByRemainderOrders
<1>9. luckier \in SUBSET members /\ Cardinality(luckier) = rem
  <2>1. rem \in 0 .. Cardinality(members)
    <3> HIDE DEF rem, uneven
    <3> QED BY <1>6, <1>7
  <2> HIDE DEF frac, rem
  <2> QED BY <1>8, <2>1, PlacesBelow
<1>10. SumFunctionOnSet(one, members) = rem
  <2> HIDE DEF luckier, rem
  <2> QED BY <1>9, SumCount
<1>11. SumFunctionOnSet(paid, members) = absR
  <2>1. \A m \in members : base[m] \in Int /\ one[m] \in Int /\ paid[m] = base[m] + one[m]
    BY <1>1
  <2>2. SumFunctionOnSet(paid, members) = given + rem
    <3> HIDE DEF paid, base, one, rem
    <3> QED BY <1>10, <2>1, SumPlus
  <2>3. given + (absR - given) = absR
    <3> HIDE DEF given
    <3> QED BY <1>3
  <2> QED
    BY <2>2, <2>3
<1>12. back = [m \in members |-> -paid[m]]
  <2>1. ASSUME NEW m \in members
        PROVE  Cardinality({x \in members : \/ frac[x] > frac[m]
                                            \/ frac[x] = frac[m] /\ x < m})
                 = Place(m, ByRemainder(frac, members), members)
    <3>1. {x \in members : \/ frac[x] > frac[m]
                           \/ frac[x] = frac[m] /\ x < m}
            = {y \in members : <<y, m>> \in ByRemainder(frac, members)}
      <4> HIDE DEF frac
      <4> QED BY DEF ByRemainder
    <3> QED
      BY <3>1 DEF Place
  <2>2. ASSUME NEW m \in members
        PROVE  back[m] = -(base[m] + IF Cardinality({x \in members :
                                            \/ frac[x] > frac[m]
                                            \/ frac[x] = frac[m] /\ x < m}) < rem
                                     THEN 1 ELSE 0)
    BY DEF ApportionRefund, SumFunction, PlaceIn
  <2>3. back = [m \in members |-> back[m]]
    BY DEF ApportionRefund
  <2>4. ASSUME NEW m \in members PROVE back[m] = -paid[m]
    <3>1. one[m] = IF Place(m, ByRemainder(frac, members), members) < rem THEN 1 ELSE 0
      OBVIOUS
    <3>2. paid[m] = base[m] + one[m]
      OBVIOUS
    <3> HIDE DEF back, frac, base, rem, one, paid
    <3> QED BY <2>1, <2>2, <3>1, <3>2
  <2> HIDE DEF back, paid
  <2> QED
    BY <2>3, <2>4
<1>13. SumFunctionOnSet(back, members) = -absR
  <2>1. \A m \in members : paid[m] \in Int /\ back[m] = (-1) * paid[m]
    <3>1. \A m \in members : paid[m] \in Int
      BY <1>1
    <3> HIDE DEF back, paid
    <3> QED BY <1>12, <3>1
  <2>2. -1 \in Int
    OBVIOUS
  <2> HIDE DEF back, paid
  <2>3. Multiple(back, -1, paid, members)
    BY <2>1 DEF Multiple
  <2>4. SumFunctionOnSet(back, members) = (-1) * SumFunctionOnSet(paid, members)
    BY <2>2, <2>3, SumMultiple
  <2> QED BY <1>11, <2>4
(* Whoever's floor is exact comes after all the others. *)
<1>14. \A m \in luckier : frac[m] > 0
  <2> SUFFICES ASSUME NEW m \in luckier, frac[m] = 0 PROVE FALSE
    <3>1. \A m \in luckier : frac[m] \in Nat
      BY <1>1
    <3> HIDE DEF frac, luckier
    <3> QED BY <3>1
  <2>1. m \in members /\ Place(m, ByRemainder(frac, members), members) < rem
    OBVIOUS
  <2> DEFINE ahead == {y \in members : <<y, m>> \in ByRemainder(frac, members)}
  <2>2. uneven \subseteq ahead
    <3>1. \A x \in uneven : x \in members /\ frac[x] > frac[m]
      OBVIOUS
    <3> HIDE DEF frac, uneven
    <3> QED BY <2>1, <3>1 DEF ByRemainder
  <2>3. IsFiniteSet(ahead) /\ Cardinality(ahead) \in Nat
    BY FS_Subset, FS_CardinalityType
  <2>4. Cardinality(uneven) <= Cardinality(ahead)
    <3> HIDE DEF ahead, uneven
    <3> QED BY <2>2, <2>3, FS_Subset
  <2>5. Cardinality(ahead) < rem
    BY <2>1 DEF Place
  <2> HIDE DEF ahead, uneven, rem
  <2> QED
    BY <1>6, <1>7, <2>3, <2>4, <2>5
<1>15. ASSUME absR <= absOrig, NEW m \in members
       PROVE  orig[m] + back[m] >= 0 /\ (absR = absOrig => back[m] = -orig[m])
  <2>1. /\ base[m] \in Nat /\ frac[m] \in 0 .. (absOrig - 1)
        /\ absR * orig[m] = absOrig * base[m] + frac[m]
    <3>1. num[m] = absR * orig[m] /\ whole[m] = absOrig * base[m]
      OBVIOUS
    <3> HIDE DEF num, whole, base, frac
    <3> QED BY <1>1, <3>1
  <2>2. /\ back[m] = -(base[m] + one[m]) /\ one[m] \in {0, 1}
        /\ one[m] = 1 => frac[m] > 0
    <3>1. one[m] \in {0, 1} /\ (one[m] = 1 => m \in luckier) /\ paid[m] = base[m] + one[m]
      OBVIOUS
    <3> HIDE DEF back, one, paid, frac, luckier, base
    <3> QED BY <1>12, <1>14, <3>1
  <2>3. absR * orig[m] <= absOrig * orig[m]
    BY <1>15
  <2>4. orig[m] \in Nat
    OBVIOUS
  <2> HIDE DEF back, base, one, frac
  <2>5. absOrig * base[m] \in Nat /\ absOrig * orig[m] \in Nat /\ absR * orig[m] \in Nat
    BY <2>1, <2>4
  <2>6. base[m] <= orig[m]
    BY <2>1, <2>3, <2>4, <2>5, ProductCancel
  <2>7. frac[m] > 0 => base[m] < orig[m]
    <3>1. frac[m] > 0 => absOrig * base[m] < absOrig * orig[m]
      BY <2>1, <2>3, <2>5
    <3> QED BY <2>1, <2>4, <3>1, ProductCancel2
  <2>8. orig[m] + back[m] >= 0
    BY <2>1, <2>2, <2>4, <2>6, <2>7
  <2>9. ASSUME absR = absOrig PROVE back[m] = -orig[m]
    <3>1. absOrig * orig[m] = absOrig * base[m] + frac[m]
      BY <2>1, <2>9
    <3>2. orig[m] <= base[m]
      <4>1. absOrig * orig[m] < absOrig * (base[m] + 1)
        <5>1. absOrig * (base[m] + 1) = absOrig * base[m] + absOrig
          BY <2>1
        <5> QED BY <2>1, <2>5, <3>1, <5>1
      <4>2. orig[m] < base[m] + 1
        BY <2>1, <2>4, <4>1, ProductCancel2
      <4> QED BY <2>1, <2>4, <4>2
    <3>3. base[m] = orig[m] /\ frac[m] = 0
      BY <2>1, <2>4, <2>5, <2>6, <3>1, <3>2
    <3> QED
      BY <2>2, <2>4, <3>3
  <2> QED
    BY <2>8, <2>9
<1>16. back \in [members -> Int]
  <2>1. \A m \in members : paid[m] \in Int
    BY <1>1
  <2> HIDE DEF back, paid
  <2> QED BY <1>12, <2>1
<1> HIDE DEF back
<1> QED
  BY <1>13, <1>15, <1>16 DEF back

-----------------------------------------------------------------------------
(* One axis of an inventory: the amounts of its expenses in one currency.  *)
(* Each original with its refunds is a burden on its participants.         *)

(* A sum taken class by class. *)
LEMMA SumByClass ==
    ASSUME NEW S, IsFiniteSet(S), NEW R, IsFiniteSet(R), NEW f, \A r \in R : f[r] \in Int,
           NEW part, \A s \in S : part[s] \subseteq R,
           \A r \in R : \E s \in S : r \in part[s],
           \A s \in S, t \in S : \A r \in part[s] : r \in part[t] => s = t
    PROVE  SumFunctionOnSet([s \in S |-> SumFunctionOnSet(f, part[s])], S)
             = SumFunctionOnSet(f, R)
<1> DEFINE sums == [s \in S |-> SumFunctionOnSet(f, part[s])]
           class == [r \in R |-> CHOOSE s \in S : r \in part[s]]
           F == [s \in S |-> [r \in R |-> IF class[r] = s THEN f[r] ELSE 0]]
<1>0. /\ \A r \in R : class[r] \in S
      /\ \A s \in S : \A r : r \in part[s] <=> r \in R /\ class[r] = s
  <2>1. \A r \in R : class[r] \in S /\ r \in part[class[r]]
    OBVIOUS
  <2> HIDE DEF class
  <2> QED BY <2>1
<1> HIDE DEF class
<1>1. \A s \in S, r \in R : F[s][r] \in Int
  OBVIOUS
<1>2. ASSUME NEW s \in S PROVE sums[s] = SumFunctionOnSet(F[s], R)
  <2> DEFINE T == {r \in R : class[r] = s}
  <2>1. IsFiniteSet(T) /\ T \in SUBSET R
    BY FS_Subset
  <2>2. \A r \in T : F[s][r] \in Int /\ F[s][r] = f[r]
    OBVIOUS
  <2>3. \A r \in R \ T : F[s][r] = 0
    OBVIOUS
  <2>4. sums[s] = SumFunctionOnSet(f, T)
    <3>1. part[s] = T
      BY <1>0
    <3> QED
      BY <3>1
  <2> HIDE DEF F, T
  <2>5. SumFunctionOnSet(F[s], R) = SumFunctionOnSet(F[s], T)
    BY <2>1, <2>2, <2>3, SumSubset
  <2>6. SumFunctionOnSet(F[s], T) = SumFunctionOnSet(f, T)
    BY <2>1, <2>2, SumAgree
  <2> QED
    BY <2>4, <2>5, <2>6
<1>3. ASSUME NEW r \in R PROVE f[r] = SumFunctionOnSet([s \in S |-> F[s][r]], S)
  <2> DEFINE g == [s \in S |-> F[s][r]]
             c == class[r]
  <2>1. c \in S /\ {c} \in SUBSET S
    BY <1>0
  <2>2. g[c] = f[r] /\ f[r] \in Int
    BY <1>0
  <2>3. \A s \in S \ {c} : g[s] = 0
    OBVIOUS
  <2> HIDE DEF g, c
  <2>4. SumFunctionOnSet(g, S) = SumFunctionOnSet(g, {c})
    BY <2>1, <2>2, <2>3, SumSubset
  <2>5. IsFiniteSet({c}) /\ {c} \ {c} = {}
    BY FS_Singleton
  <2>6. SumFunctionOnSet(g, {c}) = g[c] + SumFunctionOnSet(g, {})
    BY <2>2, <2>5, SumRemove
  <2> QED
    BY <2>2, <2>4, <2>6, SumEmpty DEF g
<1> HIDE DEF F
<1> DEFINE rows == [s \in S |-> SumFunctionOnSet(F[s], R)]
           cols == [r \in R |-> SumFunctionOnSet([s \in S |-> F[s][r]], S)]
<1>4. SumFunctionOnSet(rows, S) = SumFunctionOnSet(cols, R)
  BY <1>1, SumSwap, SMTT(30)
<1>5. \A s \in S : rows[s] \in Int /\ rows[s] = sums[s]
  <2>1. \A s \in S : rows[s] = SumFunctionOnSet(F[s], R)
    OBVIOUS
  <2> HIDE DEF rows
  <2> QED BY <1>1, <1>2, <2>1, SumType
<1>6. \A r \in R : f[r] \in Int /\ f[r] = cols[r]
  BY <1>3
<1> HIDE DEF rows, cols, sums
<1>7. SumFunctionOnSet(rows, S) = SumFunctionOnSet(sums, S)
  BY <1>5, SumAgree
<1>8. SumFunctionOnSet(f, R) = SumFunctionOnSet(cols, R)
  BY <1>6, SumAgree
<1> QED
  BY <1>4, <1>7, <1>8 DEF sums

-----------------------------------------------------------------------------
(* The expenses of one axis. *)
Charged(bills, amt) ==
    /\ IsFiniteSet(DOMAIN bills)
    /\ NotARefund \notin DOMAIN bills
    /\ \A id \in DOMAIN bills :
          /\ bills[id].paid_by \in Int
          /\ bills[id].participants \in SUBSET Int
          /\ IsFiniteSet(bills[id].participants)
          /\ bills[id].participants # {}
          /\ amt[id] \in Int

(* What an original and its refunds leave its participants to bear. *)
SplitOf(bills, amt, id) == SplitExpense(amt[id], bills[id].participants)

BackOf(bills, amt, id) ==
    ApportionRefund(-SumFunctionOnSet(amt, RefundsOf(bills, id)),
                    SplitOf(bills, amt, id), amt[id])

Burden(bills, amt, id) ==
    [m \in bills[id].participants |->
        SplitOf(bills, amt, id)[m]
            + IF id \in Refunded(bills) THEN BackOf(bills, amt, id)[m] ELSE 0]

BorneBy(bills, m) == {id \in Originals(bills) : m \in bills[id].participants}

(* The refunds of an original are some of the expenses.                    *)
LEMMA RefundsTyped ==
    ASSUME NEW bills, NEW amt, Charged(bills, amt), NEW id
    PROVE  /\ RefundsOf(bills, id) \in SUBSET DOMAIN bills
           /\ IsFiniteSet(RefundsOf(bills, id))
           /\ \A r \in RefundsOf(bills, id) : amt[r] \in Int
           /\ SumFunctionOnSet(amt, RefundsOf(bills, id)) \in Int
<1>1. RefundsOf(bills, id) \in SUBSET DOMAIN bills
  BY DEF RefundsOf
<1>2. IsFiniteSet(RefundsOf(bills, id))
  BY <1>1, FS_Subset DEF Charged
<1>3. \A r \in RefundsOf(bills, id) : amt[r] \in Int
  BY <1>1 DEF Charged
<1> QED
  BY <1>1, <1>2, <1>3, SumType

(* The refunds of an original are bounded by it. *)
LEMMA RefundsBounded ==
    ASSUME NEW bills, NEW amt, Charged(bills, amt), ValidRefunds(bills, amt),
           NEW id \in Refunded(bills)
    PROVE  /\ amt[id] \in Nat \ {0}
           /\ -SumFunctionOnSet(amt, RefundsOf(bills, id)) \in 0 .. amt[id]
<1> DEFINE R == RefundsOf(bills, id)
           zero == [r \in R |-> 0]
<1>1. /\ R \in SUBSET DOMAIN bills /\ IsFiniteSet(R)
      /\ \A r \in R : amt[r] \in Int
      /\ SumFunctionOnSet(amt, R) \in Int
  BY RefundsTyped
<1>2. \A r \in R : r \in DOMAIN bills \ Originals(bills) /\ bills[r].refund_of = id
  BY DEF RefundsOf, Originals, Refunded, Charged
<1>3. \A r \in R : amt[r] < 0 /\ amt[id] > 0
  BY <1>2 DEF ValidRefunds
<1>4. R # {} /\ id \in DOMAIN bills /\ amt[id] \in Int
  BY DEF Refunded, Originals, Charged
<1>5. SumFunctionOnSet(amt, R) <= SumFunctionOnSet(zero, R)
  <2>1. \A r \in R : amt[r] \in Int /\ zero[r] \in Int /\ amt[r] <= zero[r]
    BY <1>1, <1>3
  <2> HIDE DEF R, zero
  <2> QED BY <1>1, <2>1, SumMonotone
<1>6. SumFunctionOnSet(zero, R) = 0
  BY <1>1, SumZero
<1>7. -SumFunctionOnSet(amt, R) <= amt[id]
  BY DEF ValidRefunds
<1> HIDE DEF R, zero
<1>8. -SumFunctionOnSet(amt, R) \in 0 .. amt[id] /\ amt[id] \in Nat \ {0}
  BY <1>1, <1>3, <1>4, <1>5, <1>6, <1>7
<1> QED
  BY <1>8 DEF R

(* The burden of an original is its amount less its refunds; nobody gains  *)
(* by an original that was not negative.                                   *)
LEMMA BurdenAddsUp ==
    ASSUME NEW bills, NEW amt, Charged(bills, amt), ValidRefunds(bills, amt),
           NEW id \in Originals(bills)
    PROVE  /\ \A m \in bills[id].participants :
                 /\ SplitOf(bills, amt, id)[m] \in Int
                 /\ id \in Refunded(bills) => BackOf(bills, amt, id)[m] \in Int
                 /\ Burden(bills, amt, id)[m] \in Int
                 /\ amt[id] >= 0 => Burden(bills, amt, id)[m] >= 0
           /\ SumFunctionOnSet(Burden(bills, amt, id), bills[id].participants)
                = amt[id] + SumFunctionOnSet(amt, RefundsOf(bills, id))
           /\ id \in Refunded(bills) /\ amt[id] + SumFunctionOnSet(amt, RefundsOf(bills, id)) = 0
              => \A m \in bills[id].participants : Burden(bills, amt, id)[m] = 0
<1> DEFINE P == bills[id].participants
           split == SplitOf(bills, amt, id)
           back == BackOf(bills, amt, id)
           burden == Burden(bills, amt, id)
           refunded == SumFunctionOnSet(amt, RefundsOf(bills, id))
<1>1. /\ id \in DOMAIN bills /\ P \in SUBSET Int /\ IsFiniteSet(P)
      /\ P # {} /\ amt[id] \in Int
  BY DEF Charged, Originals
<1>2. /\ split \in [P -> Int] /\ SumFunctionOnSet(split, P) = amt[id]
      /\ amt[id] >= 0 => \A m \in P : split[m] >= 0
  <2> HIDE DEF P
  <2> QED BY <1>1, SharesAddUp DEF SplitOf, P
<1>3. refunded \in Int
  BY RefundsTyped
<1>4. CASE id \in Refunded(bills)
  <2>1. amt[id] \in Nat \ {0} /\ -refunded \in 0 .. amt[id]
    BY <1>4, RefundsBounded
  <2>2. /\ back \in [P -> Int]
        /\ SumFunctionOnSet(back, P) = -(-refunded)
        /\ \A m \in P : split[m] + back[m] >= 0
        /\ -refunded = amt[id] => \A m \in P : back[m] = -split[m]
    <3>1. /\ DOMAIN split = P /\ \A m \in P : split[m] \in Nat
          /\ -refunded \in Nat /\ -refunded <= amt[id]
      <4> HIDE DEF split, P, refunded
      <4> QED BY <1>2, <2>1
    <3>2. back = ApportionRefund(-refunded, split, amt[id])
      BY DEF BackOf
    <3> HIDE DEF split, P, refunded, back
    <3> QED BY <1>1, <1>2, <2>1, <3>1, <3>2, RefundAddsUp
  <2>3. \A m \in P : burden[m] = split[m] + back[m]
    BY <1>4 DEF Burden
  <2> HIDE DEF split, P, refunded, back, burden
  <2>4. SumFunctionOnSet(burden, P) = SumFunctionOnSet(split, P) + SumFunctionOnSet(back, P)
    <3>1. \A m \in P : split[m] \in Int /\ back[m] \in Int /\ burden[m] = split[m] + back[m]
      BY <1>2, <2>2, <2>3
    <3> QED BY <1>1, <3>1, SumPlus
  <2>5. SumFunctionOnSet(burden, P) = amt[id] + refunded
    BY <1>2, <1>3, <2>2, <2>4
  <2>6. \A m \in P : burden[m] \in Int /\ burden[m] >= 0 /\ split[m] \in Int /\ back[m] \in Int
    BY <1>2, <2>2, <2>3
  <2>7. amt[id] + refunded = 0 => \A m \in P : burden[m] = 0
    BY <1>1, <1>2, <1>3, <2>2, <2>3
  <2> QED
    BY <2>5, <2>6, <2>7 DEF split, P, refunded, back, burden
<1>5. CASE id \notin Refunded(bills)
  <2>1. \A m \in P : burden[m] = split[m] + 0
    BY <1>5 DEF Burden
  <2>2. refunded = 0
    BY <1>5, SumEmpty DEF Refunded
  <2> HIDE DEF split, P, refunded, back, burden
  <2>3. \A m \in P : split[m] \in Int /\ burden[m] = split[m]
    BY <1>2, <2>1
  <2>4. SumFunctionOnSet(burden, P) = SumFunctionOnSet(split, P)
    BY <1>1, <2>3, SumAgree
  <2>5. SumFunctionOnSet(burden, P) = amt[id] + refunded
    BY <1>1, <1>2, <2>2, <2>4
  <2>6. \A m \in P : burden[m] \in Int /\ split[m] \in Int /\ (amt[id] >= 0 => burden[m] >= 0)
    BY <1>2, <2>3
  <2> QED
    BY <1>5, <2>5, <2>6 DEF split, P, refunded, back, burden
<1> QED
  BY <1>4, <1>5

(* What somebody owes is what they bear of each original. *)
LEMMA ShareIsBorne ==
    ASSUME NEW bills, NEW amt, Charged(bills, amt), ValidRefunds(bills, amt), NEW m
    PROVE  /\ BorneBy(bills, m) \in SUBSET DOMAIN bills
           /\ IsFiniteSet(BorneBy(bills, m))
           /\ \A id \in BorneBy(bills, m) : Burden(bills, amt, id)[m] \in Int
           /\ ShareOf(bills, amt, m)
                = SumFunctionOnSet([id \in BorneBy(bills, m) |-> Burden(bills, amt, id)[m]],
                                   BorneBy(bills, m))
<1> DEFINE A == BorneBy(bills, m)
           B == A \cap Refunded(bills)
           owed == [id \in A |-> SplitOf(bills, amt, id)[m]]
           back == [id \in B |-> BackOf(bills, amt, id)[m]]
           wide == [id \in A |-> IF id \in B THEN back[id] ELSE 0]
           borne == [id \in A |-> Burden(bills, amt, id)[m]]
<1>1. A \in SUBSET DOMAIN bills /\ IsFiniteSet(A) /\ B \in SUBSET A /\ IsFiniteSet(B)
  BY FS_Subset DEF BorneBy, Originals, Charged
<1>2. \A id \in A : /\ owed[id] \in Int /\ wide[id] \in Int /\ borne[id] \in Int
                    /\ id \in B => back[id] \in Int /\ wide[id] = back[id]
                    /\ borne[id] = owed[id] + wide[id]
  <2> SUFFICES ASSUME NEW id \in A
               PROVE  /\ owed[id] \in Int /\ wide[id] \in Int /\ borne[id] \in Int
                      /\ id \in B => back[id] \in Int /\ wide[id] = back[id]
                      /\ borne[id] = owed[id] + wide[id]
    OBVIOUS
  <2>1. id \in Originals(bills) /\ m \in bills[id].participants
    BY DEF BorneBy
  <2>2. /\ SplitOf(bills, amt, id)[m] \in Int
        /\ id \in Refunded(bills) => BackOf(bills, amt, id)[m] \in Int
        /\ Burden(bills, amt, id)[m] \in Int
    BY <2>1, BurdenAddsUp
  <2>3. Burden(bills, amt, id)[m] = SplitOf(bills, amt, id)[m]
            + IF id \in Refunded(bills) THEN BackOf(bills, amt, id)[m] ELSE 0
    BY <2>1 DEF Burden
  <2> QED
    BY <2>2, <2>3
<1>3. ShareOf(bills, amt, m) = SumFunctionOnSet(owed, A) + SumFunctionOnSet(back, B)
  BY DEF ShareOf, SumFunction, BorneBy, SplitOf, BackOf
<1>4. \A id \in A \ B : wide[id] = 0
  OBVIOUS
<1> HIDE DEF A, B, owed, back, wide, borne
<1>5. SumFunctionOnSet(wide, A) = SumFunctionOnSet(wide, B)
  BY <1>1, <1>2, <1>4, SumSubset
<1>6. SumFunctionOnSet(back, B) = SumFunctionOnSet(wide, B)
  BY <1>1, <1>2, SumAgree
<1>7. SumFunctionOnSet(borne, A) = SumFunctionOnSet(owed, A) + SumFunctionOnSet(wide, A)
  BY <1>1, <1>2, SumPlus
<1>8. ShareOf(bills, amt, m) = SumFunctionOnSet(borne, A)
  BY <1>3, <1>5, <1>6, <1>7
<1> QED
  BY <1>1, <1>2, <1>8 DEF A, borne

(* Every expense is an original or the refund of exactly one, so both may  *)
(* be added up original by original.                                       *)
LEMMA OriginalsAndRefunds ==
    ASSUME NEW bills, NEW amt, Charged(bills, amt), ValidRefunds(bills, amt),
           NEW sums,
           \A id \in Originals(bills) :
               sums[id] = amt[id] + SumFunctionOnSet(amt, RefundsOf(bills, id))
    PROVE  SumFunctionOnSet(sums, Originals(bills)) = SumFunctionOnSet(amt, DOMAIN bills)
<1> DEFINE O == Originals(bills)
           R == DOMAIN bills \ O
           class == [r \in R |-> bills[r].refund_of]
           part == [id \in O |-> RefundsOf(bills, id)]
           back == [id \in O |-> SumFunctionOnSet(amt, part[id])]
<1>1. /\ O \in SUBSET DOMAIN bills /\ IsFiniteSet(O) /\ IsFiniteSet(R)
      /\ O \cup R = DOMAIN bills /\ O \cap R = {}
  BY FS_Subset DEF Originals, Charged
<1>2. \A id \in DOMAIN bills : amt[id] \in Int
  BY DEF Charged
<1>3. \A r \in R : class[r] \in O
  BY DEF ValidRefunds
<1>4. ASSUME NEW id \in O PROVE RefundsOf(bills, id) = {r \in R : class[r] = id}
  BY DEF RefundsOf, Originals, Charged
<1>5. /\ \A id \in O : part[id] \subseteq R
      /\ \A r \in R : \E id \in O : r \in part[id]
      /\ \A id \in O, x \in O : \A r \in part[id] : r \in part[x] => id = x
  <2>1. \A id \in O : part[id] = {r \in R : class[r] = id}
    BY <1>4
  <2> HIDE DEF part, class, O, R
  <2> QED BY <1>3, <2>1
<1>6. \A id \in O : amt[id] \in Int /\ back[id] \in Int /\ sums[id] = amt[id] + back[id]
  BY <1>1, <1>2, RefundsTyped
<1> HIDE DEF O, R, class, back, part
<1>7. \A r \in R : amt[r] \in Int
  BY <1>1, <1>2
<1>8. SumFunctionOnSet(back, O) = SumFunctionOnSet(amt, R)
  <2>1. IsFiniteSet(O)
    BY <1>1
  <2>2. IsFiniteSet(R)
    BY <1>1
  <2>3. SumFunctionOnSet([id \in O |-> SumFunctionOnSet(amt, part[id])], O)
          = SumFunctionOnSet(amt, R)
    BY <2>1, <2>2, <1>5, <1>7, SumByClass, SMTT(60)
  <2> QED
    BY <2>3 DEF back
<1>9. SumFunctionOnSet(sums, O) = SumFunctionOnSet(amt, O) + SumFunctionOnSet(back, O)
  BY <1>1, <1>6, SumPlus
<1>10. SumFunctionOnSet(amt, O \cup R) = SumFunctionOnSet(amt, O) + SumFunctionOnSet(amt, R)
  BY <1>1, <1>2, SumUnion
<1> QED
  BY <1>1, <1>8, <1>9, <1>10 DEF O

(* What everybody owes adds up to what was spent, ... *)
LEMMA SharesCoverTheAxis ==
    ASSUME NEW bills, NEW amt, Charged(bills, amt), ValidRefunds(bills, amt),
           NEW members, IsFiniteSet(members), MembersOf(bills) \subseteq members
    PROVE  SumFunctionOnSet([m \in members |-> ShareOf(bills, amt, m)], members)
             = SumFunctionOnSet(amt, DOMAIN bills)
<1> DEFINE shares == [m \in members |-> ShareOf(bills, amt, m)]
           O == Originals(bills)
           F == [id \in O |-> [m \in members |->
                    IF m \in bills[id].participants THEN Burden(bills, amt, id)[m] ELSE 0]]
           sums == [id \in O |-> amt[id] + SumFunctionOnSet(amt, RefundsOf(bills, id))]
<1>1. IsFiniteSet(O) /\ \A id \in O : id \in DOMAIN bills
  BY FS_Subset DEF Originals, Charged
<1>2. \A id \in O, m \in members : F[id][m] \in Int
  BY BurdenAddsUp
<1>3. ASSUME NEW id \in O PROVE sums[id] = SumFunctionOnSet(F[id], members)
  <2> DEFINE P == bills[id].participants
             burden == Burden(bills, amt, id)
             row == F[id]
  <2>1. P \in SUBSET members /\ IsFiniteSet(P)
    BY <1>1 DEF Charged, MembersOf
  <2>2. /\ \A m \in P : burden[m] \in Int
        /\ SumFunctionOnSet(burden, P) = sums[id]
    BY BurdenAddsUp
  <2>3. /\ \A m \in P : row[m] = burden[m]
        /\ \A m \in members \ P : row[m] = 0
    BY <2>1
  <2> HIDE DEF P, burden, F, sums
  <2>4. \A m \in P : row[m] \in Int
    BY <2>2, <2>3
  <2> HIDE DEF row
  <2>5. SumFunctionOnSet(row, members) = SumFunctionOnSet(row, P)
    BY <2>1, <2>3, <2>4, SumSubset
  <2>6. SumFunctionOnSet(row, P) = SumFunctionOnSet(burden, P)
    BY <2>1, <2>3, <2>4, SumAgree
  <2> QED
    BY <2>2, <2>5, <2>6 DEF row
<1>4. ASSUME NEW m \in members
      PROVE  shares[m] = SumFunctionOnSet([id \in O |-> F[id][m]], O)
  <2> DEFINE A == BorneBy(bills, m)
             col == [id \in O |-> F[id][m]]
             borne == [id \in A |-> Burden(bills, amt, id)[m]]
  <2>1. /\ A \in SUBSET O
        /\ \A id \in O \ A : col[id] = 0
        /\ \A id \in A : col[id] = borne[id]
    BY DEF BorneBy
  <2>2. /\ IsFiniteSet(A) /\ \A id \in A : borne[id] \in Int
        /\ shares[m] = SumFunctionOnSet(borne, A)
    BY ShareIsBorne
  <2> HIDE DEF A, col, borne, O, F
  <2>3. \A id \in A : col[id] \in Int
    BY <2>1, <2>2
  <2>4. SumFunctionOnSet(col, O) = SumFunctionOnSet(col, A)
    BY <1>1, <2>1, <2>3, SumSubset
  <2>5. SumFunctionOnSet(col, A) = SumFunctionOnSet(borne, A)
    BY <2>1, <2>2, <2>3, SumAgree
  <2> QED
    BY <2>2, <2>4, <2>5 DEF col
<1>5. SumFunctionOnSet(sums, O) = SumFunctionOnSet(amt, DOMAIN bills)
  <2>1. \A id \in Originals(bills) :
           sums[id] = amt[id] + SumFunctionOnSet(amt, RefundsOf(bills, id))
    OBVIOUS
  <2> HIDE DEF sums
  <2> QED BY <2>1, OriginalsAndRefunds
<1>6. sums = [id \in O |-> SumFunctionOnSet(F[id], members)]
  <2> HIDE DEF F
  <2> QED BY <1>3
<1>7. shares = [m \in members |-> SumFunctionOnSet([id \in O |-> F[id][m]], O)]
  <2> HIDE DEF F, O
  <2> QED BY <1>4
<1> HIDE DEF O, F, sums, shares
<1>8. SumFunctionOnSet(sums, O) = SumFunctionOnSet(shares, members)
  <2>1. IsFiniteSet(O)
    BY <1>1
  <2>2. SumFunctionOnSet([id \in O |-> SumFunctionOnSet(F[id], members)], O)
          = SumFunctionOnSet([m \in members |-> SumFunctionOnSet([id \in O |-> F[id][m]], O)],
                             members)
    BY <2>1, <1>2, SumSwap, Zenon
  <2> QED
    BY <1>6, <1>7, <2>2, Zenon
<1> QED
  BY <1>5, <1>8 DEF shares

(* ... so does what everybody paid, ... *)
LEMMA PaidCoversTheAxis ==
    ASSUME NEW bills, NEW amt, Charged(bills, amt),
           NEW members, IsFiniteSet(members), MembersOf(bills) \subseteq members
    PROVE  SumFunctionOnSet([m \in members |-> PaidBy(bills, amt, m)], members)
             = SumFunctionOnSet(amt, DOMAIN bills)
<1> DEFINE paid == [m \in members |-> PaidBy(bills, amt, m)]
<1>0. IsFiniteSet(DOMAIN bills)
  BY DEF Charged
<1>1. \A id \in DOMAIN bills : amt[id] \in Int
  BY DEF Charged
<1> DEFINE part == [m \in members |-> {id \in DOMAIN bills : bills[id].paid_by = m}]
<1>2. \A m \in members : part[m] \subseteq DOMAIN bills
  OBVIOUS
<1>3. /\ \A id \in DOMAIN bills : \E m \in members : id \in part[m]
      /\ \A m \in members, x \in members : \A id \in part[m] : id \in part[x] => m = x
  BY DEF MembersOf
<1>4. paid = [m \in members |-> SumFunctionOnSet(amt, part[m])]
  BY DEF PaidBy
<1> HIDE DEF paid, part
<1>5. SumFunctionOnSet([m \in members |-> SumFunctionOnSet(amt, part[m])], members)
        = SumFunctionOnSet(amt, DOMAIN bills)
  BY <1>0, <1>1, <1>2, <1>3, SumByClass, Zenon
<1> QED
  BY <1>4, <1>5 DEF paid

(* ... and therefore the nets cancel. *)
LEMMA AxisCancels ==
    ASSUME NEW bills, NEW amt, Charged(bills, amt), ValidRefunds(bills, amt),
           NEW members, IsFiniteSet(members), MembersOf(bills) \subseteq members
    PROVE  SumFunction(Nets(bills, amt, members)) = 0
<1> DEFINE paid == [m \in members |-> PaidBy(bills, amt, m)]
           shares == [m \in members |-> ShareOf(bills, amt, m)]
           nets == Nets(bills, amt, members)
           total == SumFunctionOnSet(amt, DOMAIN bills)
<1>2. SumFunctionOnSet(paid, members) = total
  BY PaidCoversTheAxis
<1>3. SumFunctionOnSet(shares, members) = total
  BY SharesCoverTheAxis
<1>4. ASSUME NEW m \in members PROVE paid[m] \in Int /\ shares[m] \in Int
  <2>1. IsFiniteSet({id \in DOMAIN bills : bills[id].paid_by = m})
    BY FS_Subset DEF Charged
  <2>2. PaidBy(bills, amt, m) \in Int
    BY <2>1, SumType DEF PaidBy, Charged
  <2>3. ShareOf(bills, amt, m) \in Int
    <3> DEFINE A == BorneBy(bills, m)
               borne == [id \in A |-> Burden(bills, amt, id)[m]]
    <3>1. IsFiniteSet(A) /\ (\A id \in A : borne[id] \in Int)
          /\ ShareOf(bills, amt, m) = SumFunctionOnSet(borne, A)
      BY ShareIsBorne
    <3> HIDE DEF A, borne
    <3> QED BY <3>1, SumType
  <2> QED
    BY <2>2, <2>3
<1>5. \A m \in members : nets[m] \in Int /\ shares[m] \in Int /\ paid[m] = nets[m] + shares[m]
  <2>1. \A m \in members : nets[m] = paid[m] - shares[m]
    BY DEF Nets
  <2> HIDE DEF paid, shares, nets
  <2> QED BY <1>4, <2>1
<1>6. DOMAIN nets = members
  BY DEF Nets
<1>7. total \in Int
  BY SumType DEF Charged
<1> HIDE DEF paid, shares, nets, total
<1>8. SumFunctionOnSet(paid, members)
        = SumFunctionOnSet(nets, members) + SumFunctionOnSet(shares, members)
  BY <1>5, SumPlus
<1>9. SumFunctionOnSet(nets, members) \in Int
  BY <1>5, SumType
<1>10. SumFunctionOnSet(nets, members) = 0
  BY <1>2, <1>3, <1>7, <1>8, <1>9
<1> QED
  BY <1>6, <1>10 DEF SumFunction, nets

-----------------------------------------------------------------------------
(* computeSettlement up to the nets, and the inventories of CasesSpec.     *)

(* What computeSettlement is handed: a closed set of expenses with whole   *)
(* amounts, each with somebody to bear it.                                 *)
WellFormed(i) ==
    /\ IsFiniteSet(DOMAIN i)
    /\ NotARefund \notin DOMAIN i
    /\ \A id \in DOMAIN i :
          /\ i[id].paid_by \in Int
          /\ i[id].participants \in SUBSET Int
          /\ IsFiniteSet(i[id].participants)
          /\ i[id].participants # {}
          /\ i[id].local.amount \in Int
          /\ i[id].settlement.amount \in Int

(* Both axes of a well-formed inventory have amounts to add up.            *)
LEMMA SettlementCharged ==
    ASSUME NEW i, WellFormed(i) PROVE Charged(i, SettlementAmounts(i))
  BY DEF WellFormed, Charged, SettlementAmounts

(* The expenses of one local currency. *)
LEMMA LocalCharged ==
    ASSUME NEW i, WellFormed(i), NEW ccy
    PROVE  /\ Charged(LocalPart(i, ccy), LocalAmounts(LocalPart(i, ccy)))
           /\ MembersOf(LocalPart(i, ccy)) \subseteq MembersOf(i)
<1> DEFINE D == {x \in DOMAIN i : i[x].local.currency = ccy}
           part == LocalPart(i, ccy)
<1>1. DOMAIN part = D /\ D \in SUBSET DOMAIN i /\ IsFiniteSet(D)
  BY FS_Subset DEF LocalPart, WellFormed
<1>2. \A id \in D : part[id] = i[id]
  BY DEF LocalPart
<1> HIDE DEF part, D
<1>3. Charged(part, LocalAmounts(part))
  BY <1>1, <1>2 DEF WellFormed, Charged, LocalAmounts
<1>4. MembersOf(part) \subseteq MembersOf(i)
  BY <1>1, <1>2 DEF MembersOf
<1> QED
  BY <1>3, <1>4 DEF part

(* An inventory has finitely many members.                                 *)
LEMMA MembersFinite ==
    ASSUME NEW i, WellFormed(i)
    PROVE  MembersOf(i) \in SUBSET Int /\ IsFiniteSet(MembersOf(i))
<1> DEFINE payers == {i[id].paid_by : id \in DOMAIN i}
           groups == {i[id].participants : id \in DOMAIN i}
<1>1. IsFiniteSet(DOMAIN i)
  BY DEF WellFormed
<1>2. IsFiniteSet(payers) /\ IsFiniteSet(groups)
  <2> DEFINE payer == [id \in DOMAIN i |-> i[id].paid_by]
             group == [id \in DOMAIN i |-> i[id].participants]
  <2>1. payer \in Surjection(DOMAIN i, payers) /\ group \in Surjection(DOMAIN i, groups)
    BY DEF Surjection
  <2> HIDE DEF payer, group, payers, groups
  <2> QED BY <1>1, <2>1, FS_Surjection
<1>3. \A g \in groups : IsFiniteSet(g)
  BY DEF WellFormed
<1>4. IsFiniteSet(UNION groups)
  <2> HIDE DEF groups
  <2> QED BY <1>2, <1>3, FS_UNION
<1>5. MembersOf(i) = payers \cup UNION groups
  BY DEF MembersOf
<1>6. MembersOf(i) \in SUBSET Int
  BY DEF MembersOf, WellFormed
<1> HIDE DEF payers, groups
<1> QED
  BY <1>2, <1>4, <1>5, <1>6, FS_Union

(* computeSettlement never throws "net sum != 0" on what passes its checks, *)
(* whatever the expenses.                                                   *)
THEOREM SettleableNetsCancel ==
    ASSUME NEW i, WellFormed(i), Settleable(i)
    PROVE  /\ SumFunction(SettlementNets(i)) = 0
           /\ \A ccy \in LocalCurrencies(i) : SumFunction(LocalNets(i, ccy)) = 0
<1>1. IsFiniteSet(MembersOf(i))
  BY MembersFinite
<1>2. SumFunction(SettlementNets(i)) = 0
  <2>1. ValidRefunds(i, SettlementAmounts(i))
    BY DEF Settleable
  <2> QED
    BY <1>1, <2>1, SettlementCharged, AxisCancels DEF SettlementNets
<1>3. ASSUME NEW ccy \in LocalCurrencies(i) PROVE SumFunction(LocalNets(i, ccy)) = 0
  <2> DEFINE part == LocalPart(i, ccy)
  <2>1. ValidRefunds(part, LocalAmounts(part))
    BY DEF Settleable
  <2>2. Charged(part, LocalAmounts(part)) /\ MembersOf(part) \subseteq MembersOf(i)
    BY LocalCharged
  <2>3. LocalNets(i, ccy) = Nets(part, LocalAmounts(part), MembersOf(i))
    BY DEF LocalNets
  <2> HIDE DEF part
  <2> QED
    BY <1>1, <2>1, <2>2, <2>3, AxisCancels
<1> QED
  BY <1>2, <1>3

(* Nobody gains by what was spent on them, as long as what is not a refund *)
(* was not negative.                                                       *)
THEOREM SettleableSharesPositive ==
    ASSUME NEW i, WellFormed(i), Settleable(i),
           \A id \in Originals(i) : i[id].settlement.amount >= 0,
           NEW m
    PROVE  ShareOf(i, SettlementAmounts(i), m) >= 0
<1> DEFINE amt == SettlementAmounts(i)
           A == BorneBy(i, m)
           borne == [id \in A |-> Burden(i, amt, id)[m]]
           zero == [id \in A |-> 0]
<1>1. Charged(i, amt) /\ ValidRefunds(i, amt)
  BY SettlementCharged DEF Settleable
<1>2. /\ IsFiniteSet(A) /\ \A id \in A : borne[id] \in Int
      /\ ShareOf(i, amt, m) = SumFunctionOnSet(borne, A)
  <2> HIDE DEF amt
  <2> QED BY <1>1, ShareIsBorne
<1>3. ASSUME NEW id \in A PROVE borne[id] >= 0
  <2>1. id \in Originals(i) /\ m \in i[id].participants /\ amt[id] >= 0
    BY DEF BorneBy, Originals, SettlementAmounts
  <2> HIDE DEF amt
  <2>2. Burden(i, amt, id)[m] >= 0
    BY <1>1, <2>1, BurdenAddsUp
  <2> QED
    BY <2>2
<1>4. \A id \in A : zero[id] \in Int /\ zero[id] <= borne[id] /\ zero[id] = 0
  <2>1. \A id \in A : borne[id] >= 0 /\ borne[id] \in Int
    BY <1>2, <1>3
  <2> HIDE DEF borne
  <2> QED BY <2>1
<1> HIDE DEF amt, A, borne, zero
<1>5. SumFunctionOnSet(zero, A) <= SumFunctionOnSet(borne, A)
  BY <1>2, <1>4, SumMonotone
<1>6. SumFunctionOnSet(zero, A) = 0
  BY <1>2, <1>4, SumZero
<1> QED
  BY <1>2, <1>5, <1>6 DEF amt

-----------------------------------------------------------------------------
(* The inventories SettlementCases grows. *)
Recorded ==
    /\ DOMAIN inv \in SUBSET Ids /\ IsFiniteSet(DOMAIN inv)
    /\ \A id \in DOMAIN inv :
          /\ inv[id].paid_by \in Party
          /\ inv[id].participants \in Groups
          /\ inv[id].local.amount \in Int
          /\ inv[id].local.currency \in DOMAIN Rates
          /\ inv[id].settlement.amount = inv[id].local.amount * Rates[inv[id].local.currency]
          /\ inv[id].refund_of = NotARefund => inv[id].local.amount >= 0

(* What CasesSpec records is well formed, its originals not negative.      *)
LEMMA RecordedWellFormed ==
    Recorded => WellFormed(inv) /\ \A id \in Originals(inv) : inv[id].settlement.amount >= 0
<1> SUFFICES ASSUME Recorded
             PROVE  WellFormed(inv) /\ \A id \in Originals(inv) : inv[id].settlement.amount >= 0
  OBVIOUS
<1>1. ASSUME NEW id \in DOMAIN inv
      PROVE  /\ inv[id].paid_by \in Int
             /\ inv[id].participants \in SUBSET Int
             /\ IsFiniteSet(inv[id].participants)
             /\ inv[id].participants # {}
  BY CasesAssumption DEF Recorded
<1>2. ASSUME NEW id \in DOMAIN inv
      PROVE  /\ inv[id].local.amount \in Int /\ inv[id].settlement.amount \in Int
             /\ inv[id].refund_of = NotARefund => inv[id].settlement.amount >= 0
  <2> DEFINE a == inv[id].local.amount
             k == Rates[inv[id].local.currency]
  <2>1. a \in Int /\ k \in Nat /\ inv[id].settlement.amount = a * k
        /\ (inv[id].refund_of = NotARefund => a >= 0)
    BY CasesAssumption DEF Recorded
  <2> HIDE DEF k
  <2> QED BY <2>1
<1>3. NotARefund \notin DOMAIN inv
  BY CasesAssumption DEF Recorded
<1> QED
  BY <1>1, <1>2, <1>3 DEF WellFormed, Originals, Recorded

(* Recorded is an inductive invariant of CasesSpec.                        *)
LEMMA RecordedInit == CasesInit => Recorded
  BY FS_EmptySet DEF CasesInit, Recorded

(* Adding an expense or a refund records one more. *)
LEMMA RecordedNext == Recorded /\ [CasesNext]_inv => Recorded'
<1> SUFFICES ASSUME Recorded, [CasesNext]_inv PROVE Recorded'
  OBVIOUS
<1>1. CASE UNCHANGED inv
  BY <1>1 DEF Recorded
<1>2. ASSUME NEW id \in Ids \ DOMAIN inv, NEW e, inv' = With(id, e),
             e.paid_by \in Party, e.participants \in Groups, e.local.amount \in Int,
             e.local.currency \in DOMAIN Rates,
             e.settlement.amount = e.local.amount * Rates[e.local.currency],
             e.refund_of = NotARefund => e.local.amount >= 0
      PROVE  Recorded'
  <2>1. DOMAIN inv' = DOMAIN inv \cup {id} /\ inv'[id] = e
        /\ \A x \in DOMAIN inv : inv'[x] = inv[x]
    BY <1>2 DEF With
  <2>2. IsFiniteSet(DOMAIN inv')
    BY <2>1, FS_AddElement DEF Recorded
  <2> QED
    BY <1>2, <2>1, <2>2 DEF Recorded
<1>3. ASSUME NEW id \in Ids \ DOMAIN inv, AddExpense(id) PROVE Recorded'
  <2>1. PICK payer \in Party, participants \in Groups, amount \in Amounts, ccy \in DOMAIN Rates :
           inv' = With(id, Expense(payer, participants, amount, ccy, NotARefund))
    BY <1>3 DEF AddExpense
  <2> DEFINE e == Expense(payer, participants, amount, ccy, NotARefund)
  <2>2. /\ e.paid_by \in Party /\ e.participants \in Groups /\ e.local.amount \in Int
        /\ e.local.currency \in DOMAIN Rates
        /\ e.settlement.amount = e.local.amount * Rates[e.local.currency]
        /\ e.local.amount >= 0
    BY CasesAssumption DEF Expense
  <2> HIDE DEF e
  <2> QED
    BY <1>2, <2>1, <2>2 DEF e
<1>4. ASSUME NEW id \in Ids \ DOMAIN inv, AddRefund(id) PROVE Recorded'
  <2>1. PICK orig \in Originals(inv), size \in RefundSizes :
           inv' = With(id, Expense(inv[orig].paid_by, inv[orig].participants,
                                   -size, inv[orig].local.currency, orig))
    BY <1>4 DEF AddRefund
  <2> DEFINE e == Expense(inv[orig].paid_by, inv[orig].participants,
                          -size, inv[orig].local.currency, orig)
  <2>2. orig \in DOMAIN inv /\ orig # NotARefund /\ -size \in Int
    BY CasesAssumption DEF Originals, Recorded
  <2>3. /\ e.paid_by \in Party /\ e.participants \in Groups /\ e.local.amount \in Int
        /\ e.local.currency \in DOMAIN Rates
        /\ e.settlement.amount = e.local.amount * Rates[e.local.currency]
        /\ e.refund_of # NotARefund
    BY <2>2 DEF Expense, Recorded
  <2> HIDE DEF e
  <2> QED
    BY <1>2, <2>1, <2>3 DEF e
<1> QED
  BY <1>1, <1>3, <1>4 DEF CasesNext

(* The inventories of CasesSpec are recorded ones. *)
LEMMA RecordedAlways == CasesSpec => []Recorded
  BY RecordedInit, RecordedNext, PTL DEF CasesSpec

(* Every inventory of CasesSpec that computeSettlement accepts has nets    *)
(* that cancel on both axes (NetsCancel): "net sum != 0" is never thrown.  *)
THEOREM NetsAlwaysCancel == CasesSpec => []NetsCancel
<1>1. Recorded => NetsCancel
  BY RecordedWellFormed, SettleableNetsCancel DEF NetsCancel
<1> QED
  BY <1>1, RecordedAlways, PTL

(* In every inventory of CasesSpec whose settlement throws nothing, no     *)
(* member's share is negative: refunds do not turn what a participant owes *)
(* into a gain (ShareNeverNegative).                                       *)
THEOREM SharesNeverNegative == CasesSpec => []ShareNeverNegative
<1>1. Recorded => ShareNeverNegative
  BY RecordedWellFormed, SettleableSharesPositive DEF ShareNeverNegative
<1> QED
  BY <1>1, RecordedAlways, PTL

-----------------------------------------------------------------------------
(* An original refunded in full.                                           *)

(* An original refunded in full, with its refunds, taken out. *)
Without(i, id) == [x \in DOMAIN i \ (RefundsOf(i, id) \cup {id}) |-> i[x]]

(* What is left without the original and its refunds still passes the      *)
(* checks, and only the burden of that original is gone.                   *)
LEMMA RestCharged ==
    ASSUME NEW i, WellFormed(i), Settleable(i), NEW id \in Refunded(i)
    PROVE  LET rest == Without(i, id)
           IN  /\ WellFormed(rest)
               /\ ValidRefunds(rest, SettlementAmounts(rest))
               /\ DOMAIN rest = DOMAIN i \ (RefundsOf(i, id) \cup {id})
               /\ \A x \in DOMAIN rest :
                     /\ rest[x] = i[x]
                     /\ SettlementAmounts(rest)[x] = SettlementAmounts(i)[x]
               /\ Originals(rest) = Originals(i) \ {id}
               /\ \A x \in Originals(rest) : RefundsOf(rest, x) = RefundsOf(i, x)
<1> DEFINE gone == RefundsOf(i, id) \cup {id}
           rest == Without(i, id)
           amt == SettlementAmounts(i)
           left == SettlementAmounts(rest)
<1>1. DOMAIN rest = DOMAIN i \ gone /\ \A x \in DOMAIN rest : rest[x] = i[x]
  BY DEF Without
<1>2. /\ id \in DOMAIN i /\ i[id].refund_of = NotARefund /\ id # NotARefund
      /\ gone \in SUBSET DOMAIN i /\ IsFiniteSet(DOMAIN i \ gone)
      /\ NotARefund \notin DOMAIN i
  BY FS_Subset DEF Refunded, Originals, RefundsOf, WellFormed
<1>3. \A x \in DOMAIN rest : left[x] = amt[x]
  BY <1>1 DEF SettlementAmounts
<1>4. WellFormed(rest)
  <2> HIDE DEF rest, gone
  <2> QED BY <1>1, <1>2 DEF WellFormed
<1>5. Originals(rest) = Originals(i) \ {id}
  <2>1. \A r \in RefundsOf(i, id) : i[r].refund_of # NotARefund
    BY <1>2 DEF RefundsOf
  <2> HIDE DEF rest
  <2> QED
    BY <1>1, <1>2, <2>1 DEF Originals
<1>6. \A x \in Originals(rest) : RefundsOf(rest, x) = RefundsOf(i, x)
  <2> SUFFICES ASSUME NEW x \in Originals(rest) PROVE RefundsOf(rest, x) = RefundsOf(i, x)
    OBVIOUS
  <2>1. x \in DOMAIN i /\ x # id /\ x # NotARefund
    BY <1>5, <1>2 DEF Originals
  <2>2. \A r \in gone : i[r].refund_of # x
    BY <1>2, <2>1 DEF RefundsOf
  <2> HIDE DEF rest, gone
  <2> QED
    BY <1>1, <2>2 DEF RefundsOf
<1>7. ValidRefunds(i, amt)
  BY DEF Settleable
<1>8. ASSUME NEW r \in DOMAIN rest \ Originals(rest)
      PROVE  LET orig == rest[r].refund_of
             IN  /\ orig \in Originals(rest)
                 /\ rest[r].local.currency = rest[orig].local.currency
                 /\ rest[r].settlement.currency = rest[orig].settlement.currency
                 /\ rest[r].paid_by = rest[orig].paid_by
                 /\ left[r] < 0
                 /\ left[orig] > 0
  <2>1. r \in DOMAIN i \ Originals(i) /\ r \notin gone /\ rest[r] = i[r]
    BY <1>1, <1>5, <1>8
  <2> DEFINE orig == i[r].refund_of
  <2>2. orig # id
    BY <2>1 DEF RefundsOf
  <2>3. /\ orig \in Originals(i)
        /\ i[r].local.currency = i[orig].local.currency
        /\ i[r].settlement.currency = i[orig].settlement.currency
        /\ i[r].paid_by = i[orig].paid_by
        /\ amt[r] < 0
        /\ amt[orig] > 0
    BY <1>7, <2>1 DEF ValidRefunds
  <2>4. orig \in Originals(rest) /\ orig \in DOMAIN rest
    BY <1>5, <2>2, <2>3 DEF Originals
  <2> HIDE DEF rest, gone, left, amt, orig
  <2> QED
    BY <1>1, <1>3, <2>1, <2>3, <2>4 DEF orig
<1>9. ASSUME NEW x \in Refunded(rest)
      PROVE  -SumFunctionOnSet(left, RefundsOf(rest, x)) <= left[x]
  <2>1. x \in Originals(rest) /\ x \in DOMAIN rest /\ x \in Originals(i)
        /\ RefundsOf(rest, x) = RefundsOf(i, x) /\ RefundsOf(rest, x) # {}
    BY <1>5, <1>6, <1>9 DEF Refunded, Originals
  <2>2. x \in Refunded(i)
    BY <2>1 DEF Refunded
  <2>3. -SumFunctionOnSet(amt, RefundsOf(i, x)) <= amt[x]
    BY <1>7, <2>2 DEF ValidRefunds
  <2>4. SumFunctionOnSet(amt, RefundsOf(i, x)) = SumFunctionOnSet(left, RefundsOf(i, x))
    <3> DEFINE R == RefundsOf(i, x)
    <3>1. R \in SUBSET DOMAIN rest
      BY <2>1 DEF RefundsOf
    <3>2. IsFiniteSet(R)
      BY <1>1, <1>2, <3>1, FS_Subset
    <3>3. \A r \in R : amt[r] \in Int /\ amt[r] = left[r]
      <4>1. \A r \in DOMAIN i : amt[r] \in Int
        BY SettlementCharged DEF Charged
      <4> HIDE DEF amt, left, R, rest
      <4> QED BY <1>1, <1>3, <3>1, <4>1
    <3> HIDE DEF amt, left, R
    <3> QED BY <3>2, <3>3, SumAgree DEF R
  <2> HIDE DEF amt, left, rest
  <2> QED
    BY <1>3, <2>1, <2>3, <2>4
<1>10. ValidRefunds(rest, left)
  <2> HIDE DEF rest, left
  <2> QED BY <1>8, <1>9 DEF ValidRefunds
<1> HIDE DEF rest, left, amt, gone
<1>11. DOMAIN rest = DOMAIN i \ (RefundsOf(i, id) \cup {id})
  BY <1>1 DEF gone
<1> QED
  BY <1>1, <1>3, <1>4, <1>5, <1>6, <1>10, <1>11 DEF rest, left, amt

(* An expense refunded in full leaves no trace in anybody's net. *)
THEOREM FullRefundLeavesNoTrace ==
    ASSUME NEW i, WellFormed(i), Settleable(i), NEW id \in Refunded(i),
           SumFunctionOnSet(SettlementAmounts(i), RefundsOf(i, id) \cup {id}) = 0
    PROVE  SettlementNets(i)
             = Nets(Without(i, id), SettlementAmounts(Without(i, id)), MembersOf(i))
<1> DEFINE refunds == RefundsOf(i, id)
           gone == refunds \cup {id}
           rest == Without(i, id)
           amt == SettlementAmounts(i)
           left == SettlementAmounts(rest)
<1>1. /\ WellFormed(rest)
      /\ ValidRefunds(rest, left)
      /\ DOMAIN rest = DOMAIN i \ gone
      /\ \A x \in DOMAIN rest : rest[x] = i[x] /\ left[x] = amt[x]
      /\ Originals(rest) = Originals(i) \ {id}
      /\ \A x \in Originals(rest) : RefundsOf(rest, x) = RefundsOf(i, x)
  BY RestCharged
<1>2. Charged(i, amt) /\ ValidRefunds(i, amt) /\ Charged(rest, left)
  BY <1>1, SettlementCharged DEF Settleable
<1>3. /\ id \in Originals(i) /\ id \in DOMAIN i /\ refunds \in SUBSET DOMAIN i
      /\ id \notin refunds
      /\ \A r \in refunds : r \notin Originals(i) /\ i[r].refund_of = id
  BY DEF Refunded, Originals, RefundsOf, WellFormed
<1>4. IsFiniteSet(gone) /\ gone \in SUBSET DOMAIN i /\ IsFiniteSet(DOMAIN i)
      /\ \A x \in DOMAIN i : amt[x] \in Int
  BY <1>2, <1>3, FS_Subset DEF Charged
<1>5. SumFunctionOnSet(amt, gone) = 0
  OBVIOUS
(* Who refunds is who paid. *)
<1>6. ASSUME NEW m PROVE PaidBy(i, amt, m) = PaidBy(rest, left, m)
  <2> DEFINE all == {x \in DOMAIN i : i[x].paid_by = m}
             some == {x \in DOMAIN rest : rest[x].paid_by = m}
  <2>1. \A x \in gone : i[x].paid_by = i[id].paid_by
    BY <1>2, <1>3 DEF ValidRefunds
  <2>2. IsFiniteSet(some) /\ some \in SUBSET DOMAIN rest /\ some \in SUBSET DOMAIN i
        /\ some \cap gone = {}
    BY <1>1, <1>4, FS_Subset
  <2>3. SumFunctionOnSet(left, some) = SumFunctionOnSet(amt, some)
    <3>1. \A x \in some : left[x] \in Int /\ left[x] = amt[x]
      <4> HIDE DEF some, left, amt, rest
      <4> QED BY <1>1, <1>4, <2>2
    <3> HIDE DEF some, left, amt
    <3> QED BY <2>2, <3>1, SumAgree
  <2>4. all = some \/ all = some \cup gone
    <3> HIDE DEF gone, rest
    <3> QED BY <1>1, <1>3, <1>4, <2>1
  <2>5. SumFunctionOnSet(amt, some \cup gone)
          = SumFunctionOnSet(amt, some) + SumFunctionOnSet(amt, gone)
    <3>1. \A x \in some \cup gone : amt[x] \in Int
      <4> HIDE DEF some, gone, amt
      <4> QED BY <1>4, <2>2
    <3> HIDE DEF some, gone, amt
    <3> QED BY <1>4, <2>2, <3>1, SumUnion
  <2>6. SumFunctionOnSet(amt, some) \in Int
    <3>1. \A x \in some : amt[x] \in Int
      <4> HIDE DEF some, amt
      <4> QED BY <1>4, <2>2
    <3> HIDE DEF some, amt
    <3> QED BY <2>2, <3>1, SumType
  <2>7. SumFunctionOnSet(amt, all) = SumFunctionOnSet(amt, some)
    <3> HIDE DEF all, some, amt, gone
    <3>1. SumFunctionOnSet(amt, some \cup gone) = SumFunctionOnSet(amt, some)
      BY <1>5, <2>5, <2>6
    <3> QED BY <2>4, <3>1, Zenon
  <2> QED
    BY <2>3, <2>7 DEF PaidBy
(* Nobody bears anything of it. *)
<1>7. \A m \in i[id].participants : Burden(i, amt, id)[m] = 0
  <2>1. SumFunctionOnSet(amt, gone) = amt[id] + SumFunctionOnSet(amt, refunds)
    <3>1. gone \ {id} = refunds /\ id \in gone
      BY <1>3
    <3>2. \A x \in gone : amt[x] \in Int
      <4> HIDE DEF gone, amt
      <4> QED BY <1>4
    <3> HIDE DEF gone, amt, refunds
    <3>3. SumFunctionOnSet(amt, gone) = amt[id] + SumFunctionOnSet(amt, gone \ {id})
      BY <1>4, <3>1, <3>2, SumRemove
    <3> QED BY <3>1, <3>3
  <2>2. amt[id] + SumFunctionOnSet(amt, RefundsOf(i, id)) = 0
    BY <1>5, <2>1
  <2> HIDE DEF amt
  <2> QED
    BY <1>2, <1>3, <2>2, BurdenAddsUp
<1>8. ASSUME NEW x \in Originals(rest) PROVE Burden(rest, left, x) = Burden(i, amt, x)
  <2>1. x \in DOMAIN rest /\ rest[x] = i[x] /\ left[x] = amt[x] /\ x \in Originals(i)
        /\ RefundsOf(rest, x) = RefundsOf(i, x)
    BY <1>1 DEF Originals
  <2>2. SumFunctionOnSet(left, RefundsOf(i, x)) = SumFunctionOnSet(amt, RefundsOf(i, x))
    <3>1. IsFiniteSet(RefundsOf(i, x)) /\ RefundsOf(i, x) \in SUBSET DOMAIN rest
      BY <1>2, <2>1, RefundsTyped
    <3>2. \A r \in RefundsOf(i, x) : left[r] \in Int /\ left[r] = amt[r]
      <4> HIDE DEF left, amt, rest
      <4> QED BY <1>1, <1>2, <3>1 DEF Charged
    <3> HIDE DEF left, amt
    <3> QED BY <3>1, <3>2, SumAgree
  <2>3. x \in Refunded(rest) <=> x \in Refunded(i)
    BY <2>1 DEF Refunded
  <2> HIDE DEF left, amt, rest
  <2>4. SplitOf(rest, left, x) = SplitOf(i, amt, x)
    BY <2>1 DEF SplitOf
  <2>5. BackOf(rest, left, x) = BackOf(i, amt, x)
    BY <2>1, <2>2, <2>4 DEF BackOf
  <2> QED
    BY <2>1, <2>3, <2>4, <2>5 DEF Burden
<1>9. ASSUME NEW m PROVE ShareOf(i, amt, m) = ShareOf(rest, left, m)
  <2> DEFINE A == BorneBy(i, m)
             B == BorneBy(rest, m)
             borne == [x \in A |-> Burden(i, amt, x)[m]]
             still == [x \in B |-> Burden(rest, left, x)[m]]
  <2>1. /\ IsFiniteSet(A) /\ \A x \in A : borne[x] \in Int
        /\ ShareOf(i, amt, m) = SumFunctionOnSet(borne, A)
    <3> HIDE DEF amt
    <3> QED BY <1>2, ShareIsBorne
  <2>2. /\ IsFiniteSet(B) /\ \A x \in B : still[x] \in Int
        /\ ShareOf(rest, left, m) = SumFunctionOnSet(still, B)
    <3> HIDE DEF left, rest
    <3> QED BY <1>1, <1>2, ShareIsBorne
  <2>3. B \in SUBSET A /\ A \ B \subseteq {id}
    <3> HIDE DEF rest
    <3> QED BY <1>1 DEF BorneBy, Originals
  <2>4. ASSUME NEW x \in A \ B PROVE borne[x] = 0
    BY <1>7, <2>3 DEF BorneBy
  <2>5. ASSUME NEW x \in B PROVE still[x] = borne[x]
    <3>1. x \in Originals(rest) /\ x \in A
      BY <2>3 DEF BorneBy
    <3> QED
      BY <1>8, <3>1
  <2> HIDE DEF A, B, borne, still, amt, left, rest
  <2>6. SumFunctionOnSet(borne, A) = SumFunctionOnSet(borne, B)
    BY <2>1, <2>3, <2>4, SumSubset
  <2>7. SumFunctionOnSet(still, B) = SumFunctionOnSet(borne, B)
    BY <2>2, <2>5, SumAgree
  <2> QED
    BY <2>1, <2>2, <2>6, <2>7
<1> HIDE DEF amt, left, rest
<1>10. \A m \in MembersOf(i) : PaidBy(i, amt, m) - ShareOf(i, amt, m)
                                = PaidBy(rest, left, m) - ShareOf(rest, left, m)
  BY <1>6, <1>9
<1>11. Nets(i, amt, MembersOf(i)) = Nets(rest, left, MembersOf(i))
  BY <1>10 DEF Nets
<1> QED
  BY <1>11 DEF SettlementNets, amt, left, rest

(* In every inventory of CasesSpec, an expense refunded in full leaves the *)
(* nets of everybody as if it had never been there (FullRefundCancels).    *)
THEOREM FullRefundsAlwaysCancel == CasesSpec => []FullRefundCancels
<1>1. Recorded => FullRefundCancels
  <2> SUFFICES ASSUME Recorded, NEW id \in Refunded(inv), Settleable(inv),
                      SumFunctionOnSet(SettlementAmounts(inv), RefundsOf(inv, id) \cup {id}) = 0
               PROVE  SettlementNets(inv)
                        = Nets(Without(inv, id), SettlementAmounts(Without(inv, id)),
                               MembersOf(inv))
    BY DEF FullRefundCancels, Without
  <2> QED
    BY RecordedWellFormed, FullRefundLeavesNoTrace
<1> QED
  BY <1>1, RecordedAlways, PTL

-----------------------------------------------------------------------------
(* The queues of minTransfers.                                             *)

(* The largest amount first, then the smallest id. *)
ByAmount(amt) ==
    {p \in (DOMAIN amt) \X (DOMAIN amt) :
        \/ amt[p[1]] > amt[p[2]]
        \/ amt[p[1]] = amt[p[2]] /\ p[1] < p[2]}

(* Amounts sort.                                                           *)
LEMMA ByAmountOrders ==
    ASSUME NEW amt, DOMAIN amt \in SUBSET Int, \A m \in DOMAIN amt : amt[m] \in Int
    PROVE  StrictOrder(ByAmount(amt), DOMAIN amt)
<1>1. \A x, y \in DOMAIN amt : <<x, y>> \in ByAmount(amt) <=>
         (amt[x] > amt[y] \/ (amt[x] = amt[y] /\ x < y))
  BY DEF ByAmount
<1> QED
  BY <1>1 DEF StrictOrder

(* Ranked lists everybody once, the larger amounts first. *)
LEMMA RankedLists ==
    ASSUME NEW amt, DOMAIN amt \in SUBSET Int, IsFiniteSet(DOMAIN amt),
           \A m \in DOMAIN amt : amt[m] \in Int
    PROVE  LET n == Cardinality(DOMAIN amt)
               list == Ranked(amt)
           IN  /\ n \in Nat
               /\ list \in Seq([id : DOMAIN amt, amt : Int])
               /\ Len(list) = n
               /\ \A i \in 1 .. n : list[i].amt = amt[list[i].id]
               /\ \A i, j \in 1 .. n : list[i].id = list[j].id => i = j
               /\ \A m \in DOMAIN amt : \E i \in 1 .. n : list[i].id = m
<1> DEFINE D == DOMAIN amt
           n == Cardinality(D)
           place == [m \in D |-> Place(m, ByAmount(amt), D)]
           nth == [i \in 1 .. n |-> CHOOSE m \in D : place[m] = i - 1]
           list == Ranked(amt)
<1>1. n \in Nat
  BY FS_CardinalityType
<1>2. place \in Bijection(D, 0 .. (n - 1))
  <2>1. StrictOrder(ByAmount(amt), D)
    BY ByAmountOrders
  <2> HIDE DEF D
  <2> QED BY <2>1, PlacesAreTaken DEF D
<1>3. \A x, y \in D : place[x] = place[y] => x = y
  <2> HIDE DEF place, D, n
  <2> QED BY <1>2 DEF Bijection, Injection, IsInjective
<1>4. \A k \in 0 .. (n - 1) : \E x \in D : place[x] = k
  <2> HIDE DEF place, D, n
  <2> QED BY <1>2 DEF Bijection, Surjection
<1>5. \A x \in D : place[x] \in 0 .. (n - 1)
  <2> HIDE DEF place, D, n
  <2> QED BY <1>2 DEF Bijection, Injection
<1>6. ASSUME NEW i \in 1 .. n PROVE nth[i] \in D /\ place[nth[i]] = i - 1
  <2>1. \E m \in D : place[m] = i - 1
    <3>1. i - 1 \in 0 .. (n - 1)
      BY <1>1
    <3> HIDE DEF place, D, n
    <3> QED BY <1>4, <3>1
  <2> HIDE DEF place, D, n
  <2> QED BY <2>1
<1>7. ASSUME NEW m \in D
      PROVE  place[m] = Cardinality({x \in D : amt[x] > amt[m] \/ (amt[x] = amt[m] /\ x < m)})
  <2>1. {x \in D : amt[x] > amt[m] \/ (amt[x] = amt[m] /\ x < m)}
          = {y \in D : <<y, m>> \in ByAmount(amt)}
    BY DEF ByAmount
  <2> QED
    BY <2>1 DEF Place
<1>8. list = [i \in 1 .. n |-> [id |-> nth[i], amt |-> amt[nth[i]]]]
  <2> DEFINE ahead(m) == {x \in D : amt[x] > amt[m] \/ (amt[x] = amt[m] /\ x < m)}
  <2>1. list = [i \in 1 .. n |->
                  [id |-> CHOOSE m \in D : Cardinality(ahead(m)) = i - 1,
                   amt |-> amt[CHOOSE m \in D : Cardinality(ahead(m)) = i - 1]]]
    BY DEF Ranked, PlaceIn
  <2>2. ASSUME NEW i \in 1 .. n
        PROVE  (CHOOSE m \in D : Cardinality(ahead(m)) = i - 1) = nth[i]
    <3>1. \A m \in D : (Cardinality(ahead(m)) = i - 1) <=> (place[m] = i - 1)
      BY <1>7
    <3>2. (CHOOSE m \in D : Cardinality(ahead(m)) = i - 1) = (CHOOSE m \in D : place[m] = i - 1)
      <4> HIDE DEF ahead, place, D
      <4> QED BY <3>1
    <3> QED
      BY <3>2
  <2> HIDE DEF ahead, nth, n, D, list
  <2> QED
    BY <2>1, <2>2
<1>9. list \in Seq([id : D, amt : Int]) /\ Len(list) = n
  <2>1. list \in [1 .. n -> [id : D, amt : Int]]
    <3> HIDE DEF n, D, nth, list
    <3> QED BY <1>6, <1>8 DEF D
  <2> DEFINE X == [id : D, amt : Int]
  <2> HIDE DEF n, D, nth, list, X
  <2>2. list \in Seq(X)
    <3>1. list \in UNION {[1 .. k -> X] : k \in Nat}
      BY <1>1, <2>1 DEF X
    <3> QED
      BY <3>1, SeqDef, Zenon
  <2>3. Len(list) \in Nat /\ 1 .. n = 1 .. Len(list)
    BY <2>1, <2>2, LenProperties
  <2>4. Len(list) = n
    BY <1>1, <2>3
  <2> QED BY <2>2, <2>4 DEF X
<1>10. \A i \in 1 .. n : list[i].id = nth[i] /\ list[i].amt = amt[nth[i]]
  <2> HIDE DEF n, D, nth, list
  <2> QED BY <1>8
<1>11. ASSUME NEW i \in 1 .. n, NEW j \in 1 .. n, nth[i] = nth[j] PROVE i = j
  <2>1. i - 1 = j - 1
    <3> HIDE DEF n, D, nth, place
    <3> QED BY <1>6, <1>11
  <2> HIDE DEF n
  <2> QED BY <1>1, <2>1
<1>12. ASSUME NEW m \in D PROVE \E i \in 1 .. n : nth[i] = m
  <2>1. place[m] \in 0 .. (n - 1)
    BY <1>5
  <2> DEFINE i == place[m] + 1
  <2> HIDE DEF place, n, nth, D
  <2>2. i \in 1 .. n /\ i - 1 = place[m]
    BY <1>1, <2>1
  <2> HIDE DEF i
  <2>3. nth[i] = m
    BY <1>3, <1>6, <2>2
  <2> QED
    BY <2>2, <2>3
<1> HIDE DEF n, D, nth, list, place
<1>13. /\ \A i \in 1 .. n : list[i].amt = amt[list[i].id]
       /\ \A i, j \in 1 .. n : list[i].id = list[j].id => i = j
       /\ \A m \in D : \E i \in 1 .. n : list[i].id = m
  BY <1>10, <1>11, <1>12
<1> QED
  BY <1>1, <1>9, <1>13 DEF n, D, list

(* The amounts of a list add up to what they are amounts of. *)
LEMMA ListAddsUp ==
    ASSUME NEW D, IsFiniteSet(D), NEW amt, \A m \in D : amt[m] \in Int,
           NEW n \in Nat, NEW list,
           \A i \in 1 .. n : list[i].id \in D /\ list[i].amt = amt[list[i].id],
           \A i, j \in 1 .. n : list[i].id = list[j].id => i = j,
           \A m \in D : \E i \in 1 .. n : list[i].id = m
    PROVE  SumFunctionOnSet([i \in 1 .. n |-> list[i].amt], 1 .. n) = SumFunctionOnSet(amt, D)
<1> DEFINE I == 1 .. n
           part == [i \in I |-> {list[i].id}]
           sums == [i \in I |-> list[i].amt]
<1>1. ASSUME NEW i \in I PROVE sums[i] = SumFunctionOnSet(amt, part[i])
  <2> DEFINE m == list[i].id
  <2>1. m \in D /\ part[i] = {m} /\ sums[i] = amt[m]
    OBVIOUS
  <2>2. IsFiniteSet({m}) /\ {m} \ {m} = {}
    BY FS_Singleton
  <2> HIDE DEF m, part, sums
  <2>3. SumFunctionOnSet(amt, {m}) = amt[m] + SumFunctionOnSet(amt, {})
    BY <2>1, <2>2, SumRemove
  <2> QED
    BY <2>1, <2>3, SumEmpty
<1>2. \A i \in I : part[i] \subseteq D
  OBVIOUS
<1>3. /\ \A m \in D : \E i \in I : m \in part[i]
      /\ \A i \in I, j \in I : \A m \in part[i] : m \in part[j] => i = j
  OBVIOUS
<1>4. IsFiniteSet(I)
  BY FS_Interval
<1>5. SumFunctionOnSet(sums, I) = SumFunctionOnSet(amt, D)
  <2>1. sums = [i \in I |-> SumFunctionOnSet(amt, part[i])]
    <3> HIDE DEF part, I
    <3> QED BY <1>1
  <2> HIDE DEF part, I, sums
  <2>2. SumFunctionOnSet([i \in I |-> SumFunctionOnSet(amt, part[i])], I) = SumFunctionOnSet(amt, D)
    BY <1>2, <1>3, <1>4, SumByClass, SMTT(60)
  <2> QED
    BY <2>1, <2>2, Zenon
<1> QED
  BY <1>5 DEF sums, I

Creditors(f) == {m \in DOMAIN f : f[m] > 0}
Debtors(f) == {m \in DOMAIN f : f[m] < 0}

Rows(f) == [from : Debtors(f), to : Creditors(f), amount : Nat \ {0}]

ReceivedIn(out, m) ==
    SumFunction([i \in {k \in DOMAIN out : out[k].to = m} |-> out[i].amount])

SentIn(out, m) ==
    SumFunction([i \in {k \in DOMAIN out : out[k].from = m} |-> out[i].amount])

(* A row more is received by one member and sent by one. *)
LEMMA RowCounts ==
    ASSUME NEW f, NEW out \in Seq(Rows(f)), NEW row \in Rows(f), NEW m
    PROVE  /\ ReceivedIn(out, m) \in Int /\ SentIn(out, m) \in Int
           /\ ReceivedIn(Append(out, row), m)
                = ReceivedIn(out, m) + IF row.to = m THEN row.amount ELSE 0
           /\ SentIn(Append(out, row), m)
                = SentIn(out, m) + IF row.from = m THEN row.amount ELSE 0
<1> DEFINE n == Len(out)
           more == Append(out, row)
<1>1. /\ n \in Nat /\ DOMAIN out = 1 .. n /\ \A k \in 1 .. n : out[k] \in Rows(f)
      /\ DOMAIN more = 1 .. (n + 1) /\ more[n + 1] = row
      /\ \A k \in 1 .. n : more[k] = out[k]
  <2>1. n \in Nat /\ DOMAIN out = 1 .. n /\ \A k \in 1 .. n : out[k] \in Rows(f)
    BY LenProperties, ElementOfSeq
  <2>2. more \in Seq(Rows(f)) /\ Len(more) = n + 1
        /\ more[n + 1] = row /\ \A k \in 1 .. n : more[k] = out[k]
    OBVIOUS
  <2>3. DOMAIN more = 1 .. (n + 1)
    BY <2>2
  <2> QED
    BY <2>1, <2>2, <2>3
<1>2. ASSUME NEW A \in SUBSET (1 .. n), NEW B, B = A \/ B = A \cup {n + 1},
             NEW x \in Int, x = IF B = A THEN 0 ELSE row.amount
      PROVE  /\ SumFunction([i \in A |-> out[i].amount]) \in Int
             /\ SumFunction([i \in B |-> more[i].amount])
                  = SumFunction([i \in A |-> out[i].amount]) + x
  <2> DEFINE old == [i \in A |-> out[i].amount]
             new == [i \in B |-> more[i].amount]
  <2>1. IsFiniteSet(A) /\ n + 1 \notin A /\ IsFiniteSet(B)
    <3>1. IsFiniteSet(1 .. n)
      BY FS_Interval
    <3>2. IsFiniteSet(A)
      BY <3>1, FS_Subset
    <3> QED
      BY <1>1, <1>2, <3>2, FS_AddElement
  <2>2. \A i \in A : old[i] \in Int /\ new[i] = old[i]
    <3> SUFFICES ASSUME NEW i \in A PROVE old[i] \in Int /\ new[i] = old[i]
      OBVIOUS
    <3>1. out[i] \in Rows(f) /\ more[i] = out[i] /\ i \in B
      BY <1>1, <1>2
    <3>2. out[i].amount \in Int
      BY <3>1 DEF Rows
    <3> HIDE DEF more
    <3> QED BY <3>1, <3>2
  <2>3. /\ SumFunctionOnSet(new, A) = SumFunctionOnSet(old, A)
        /\ SumFunctionOnSet(old, A) \in Int
    <3> HIDE DEF old, new
    <3> QED BY <2>1, <2>2, SumAgree, SumType
  <2>4. CASE B = A
    <3>1. DOMAIN new = A /\ DOMAIN old = A
      BY <2>4
    <3> HIDE DEF old, new
    <3>2. /\ SumFunction(new) = SumFunctionOnSet(new, A)
          /\ SumFunction(old) = SumFunctionOnSet(old, A)
      BY <3>1 DEF SumFunction
    <3>3. x = 0
      BY <1>2, <2>4
    <3>4. SumFunction(old) \in Int /\ SumFunction(new) = SumFunction(old) + x
      BY <2>3, <3>2, <3>3
    <3> QED
      BY <3>4 DEF old, new
  <2>5. CASE B = A \cup {n + 1} /\ B # A
    <3>1. DOMAIN new = B /\ DOMAIN old = A /\ n + 1 \in B /\ B \ {n + 1} = A
      BY <2>1, <2>5
    <3>2. new[n + 1] = row.amount /\ row.amount \in Int /\ x = row.amount
      BY <1>1, <2>5, <1>2, <3>1 DEF Rows
    <3>3. \A i \in B : new[i] \in Int
      <4>1. \A i \in A : new[i] \in Int
        BY <2>2
      <4> HIDE DEF new
      <4> QED BY <3>1, <3>2, <4>1
    <3> HIDE DEF old, new
    <3>4. SumFunctionOnSet(new, B) = new[n + 1] + SumFunctionOnSet(new, B \ {n + 1})
      BY <2>1, <3>1, <3>3, SumRemove
    <3>5. SumFunctionOnSet(new, B) = SumFunctionOnSet(old, A) + x
      <4>1. SumFunctionOnSet(new, B) = row.amount + SumFunctionOnSet(new, A)
        BY <3>1, <3>2, <3>4
      <4> HIDE DEF more, n
      <4> QED BY <2>3, <3>2, <4>1
    <3>6. SumFunction(old) \in Int /\ SumFunction(new) = SumFunction(old) + x
      BY <2>3, <3>1, <3>5 DEF SumFunction
    <3> QED
      BY <3>6 DEF old, new
  <2> QED
    BY <1>2, <2>4, <2>5
<1>3. row.amount \in Int
  BY DEF Rows
<1>4. /\ ReceivedIn(out, m) \in Int
      /\ ReceivedIn(more, m) = ReceivedIn(out, m) + IF row.to = m THEN row.amount ELSE 0
  <2> DEFINE A == {k \in DOMAIN out : out[k].to = m}
             B == {k \in DOMAIN more : more[k].to = m}
             x == IF B = A THEN 0 ELSE row.amount
  <2>1. A \in SUBSET (1 .. n) /\ n + 1 \notin A
    BY <1>1
  <2>2. B = IF row.to = m THEN A \cup {n + 1} ELSE A
    <3> HIDE DEF more, n
    <3> QED BY <1>1
  <2>3. x = IF row.to = m THEN row.amount ELSE 0
    <3> HIDE DEF A, B
    <3> QED BY <2>1, <2>2
  <2>4. x \in Int /\ (B = A \/ B = A \cup {n + 1})
    <3> HIDE DEF A, B
    <3> QED BY <1>3, <2>2
  <2>5. /\ SumFunction([i \in A |-> out[i].amount]) \in Int
        /\ SumFunction([i \in B |-> more[i].amount]) = SumFunction([i \in A |-> out[i].amount]) + x
    <3> HIDE DEF A, B, more, n
    <3> QED BY <1>2, <2>1, <2>4
  <2> QED
    BY <2>3, <2>5 DEF ReceivedIn
<1>5. /\ SentIn(out, m) \in Int
      /\ SentIn(more, m) = SentIn(out, m) + IF row.from = m THEN row.amount ELSE 0
  <2> DEFINE A == {k \in DOMAIN out : out[k].from = m}
             B == {k \in DOMAIN more : more[k].from = m}
             x == IF B = A THEN 0 ELSE row.amount
  <2>1. A \in SUBSET (1 .. n) /\ n + 1 \notin A
    BY <1>1
  <2>2. B = IF row.from = m THEN A \cup {n + 1} ELSE A
    <3> HIDE DEF more, n
    <3> QED BY <1>1
  <2>3. x = IF row.from = m THEN row.amount ELSE 0
    <3> HIDE DEF A, B
    <3> QED BY <2>1, <2>2
  <2>4. x \in Int /\ (B = A \/ B = A \cup {n + 1})
    <3> HIDE DEF A, B
    <3> QED BY <1>3, <2>2
  <2>5. /\ SumFunction([i \in A |-> out[i].amount]) \in Int
        /\ SumFunction([i \in B |-> more[i].amount]) = SumFunction([i \in A |-> out[i].amount]) + x
    <3> HIDE DEF A, B, more, n
    <3> QED BY <1>2, <2>1, <2>4
  <2> QED
    BY <2>3, <2>5 DEF SentIn
<1> QED
  BY <1>4, <1>5

-----------------------------------------------------------------------------
(* A list the loop has worked off up to at: nothing is due before.         *)
Queue(list, at, ids) ==
    /\ list \in Seq([id : ids, amt : Nat]) /\ Len(list) = Cardinality(ids)
    /\ at \in 1 .. (Len(list) + 1)
    /\ \A i, j \in 1 .. Len(list) : list[i].id = list[j].id => i = j
    /\ \A m \in ids : \E i \in 1 .. Len(list) : list[i].id = m
    /\ \A i \in 1 .. Len(list) : IF i < at THEN list[i].amt = 0 ELSE list[i].amt > 0

Total(list) == SumFunctionOnSet([i \in 1 .. Len(list) |-> list[i].amt], 1 .. Len(list))

(* A payment from the head of a queue leaves a queue, and less by what was *)
(* paid.                                                                   *)
LEMMA QueueMoves ==
    ASSUME NEW list, NEW at, NEW ids, Queue(list, at, ids), at <= Len(list),
           NEW give \in Nat, give <= list[at].amt,
           NEW next, next = [list EXCEPT ![at].amt = list[at].amt - give],
           NEW to, to = IF list[at].amt = give THEN at + 1 ELSE at
    PROVE  /\ Queue(next, to, ids)
           /\ Total(list) \in Int
           /\ Total(next) = Total(list) - give
           /\ Len(next) = Len(list)
           /\ \A i \in 1 .. Len(list) :
                 /\ next[i].id = list[i].id
                 /\ next[i].amt = IF i = at THEN list[i].amt - give ELSE list[i].amt
<1> DEFINE n == Len(list)
           I == 1 .. n
           old == [i \in I |-> list[i].amt]
           new == [i \in I |-> next[i].amt]
           E == [id : ids, amt : Nat]
<1>1. /\ list \in Seq(E) /\ n \in Nat /\ at \in I
      /\ DOMAIN list = I
      /\ \A i \in I : list[i] \in E
  <2>1. list \in Seq(E)
    BY DEF Queue
  <2>2. n \in Nat /\ DOMAIN list = I /\ \A i \in I : list[i] \in E
    <3> HIDE DEF E
    <3> QED BY <2>1, LenProperties, ElementOfSeq
  <2>3. at \in I
    BY <2>2 DEF Queue
  <2> QED
    BY <2>1, <2>2, <2>3
<1>2. list[at].amt - give \in Nat
  BY <1>1
<1>3. /\ next \in Seq(E) /\ Len(next) = n
      /\ \A i \in I : /\ next[i].id = list[i].id
                      /\ next[i].amt = IF i = at THEN list[i].amt - give ELSE list[i].amt
  <2> DEFINE e == [list[at] EXCEPT !.amt = list[at].amt - give]
  <2>1. e \in E /\ e.id = list[at].id /\ e.amt = list[at].amt - give
    BY <1>1, <1>2
  <2>2. next = [list EXCEPT ![at] = e]
    BY <1>1
  <2> HIDE DEF e, E
  <2>3. next \in Seq(E) /\ Len(next) = n /\ \A i \in I : next[i] = IF i = at THEN e ELSE list[i]
    <3>1. at \in 1 .. Len(list) /\ list \in Seq(E) /\ e \in E
      BY <1>1, <2>1
    <3>2. /\ [list EXCEPT ![at] = e] \in Seq(E)
          /\ Len([list EXCEPT ![at] = e]) = Len(list)
          /\ \A i \in 1 .. Len(list) :
                [list EXCEPT ![at] = e][i] = IF i = at THEN e ELSE list[i]
      BY <3>1, ExceptSeq
    <3> QED BY <2>2, <3>2
  <2> QED
    BY <2>1, <2>3
<1>4. Queue(next, to, ids)
  <2>1. \A i, j \in I : next[i].id = next[j].id => i = j
    BY <1>3 DEF Queue
  <2>2. \A m \in ids : \E i \in I : next[i].id = m
    BY <1>3 DEF Queue
  <2>3. \A i \in I : IF i < (IF list[at].amt = give THEN at + 1 ELSE at)
                     THEN next[i].amt = 0 ELSE next[i].amt > 0
    <3> SUFFICES ASSUME NEW i \in I
                 PROVE  IF i < (IF list[at].amt = give THEN at + 1 ELSE at)
                        THEN next[i].amt = 0 ELSE next[i].amt > 0
      OBVIOUS
    <3>1. IF i < at THEN list[i].amt = 0 ELSE list[i].amt > 0
      BY DEF Queue
    <3>2. list[i].amt \in Nat /\ list[at].amt \in Nat
      BY <1>1
    <3>3. next[i].amt = IF i = at THEN list[i].amt - give ELSE list[i].amt
      BY <1>3
    <3>4. i \in Nat /\ at \in Nat
      BY <1>1
    <3> HIDE DEF I, n
    <3>5. CASE i = at
      BY <1>2, <3>1, <3>2, <3>3, <3>4, <3>5
    <3>6. CASE i # at
      BY <3>1, <3>2, <3>3, <3>4, <3>6
    <3> QED BY <3>5, <3>6
  <2>4. (IF list[at].amt = give THEN at + 1 ELSE at) \in 1 .. (Len(next) + 1)
    BY <1>1, <1>3
  <2> QED
    BY <1>3, <2>1, <2>2, <2>3, <2>4 DEF Queue
<1>5. SumFunctionOnSet(old, I) \in Int
      /\ SumFunctionOnSet(new, I) = SumFunctionOnSet(old, I) - give
  <2>0. IsFiniteSet(I)
    BY <1>1, FS_Interval
  <2>1. IsFiniteSet(I) /\ IsFiniteSet(I \ {at})
    <3> HIDE DEF I
    <3> QED BY <2>0, FS_RemoveElement
  <2>2. \A i \in I : old[i] \in Int /\ new[i] \in Int
                     /\ new[i] = IF i = at THEN old[i] - give ELSE old[i]
    <3>1. \A i \in I : list[i].amt \in Int
      BY <1>1
    <3> HIDE DEF I
    <3> QED BY <1>3, <3>1
  <2> HIDE DEF old, new, I
  <2>3. SumFunctionOnSet(old, I) = old[at] + SumFunctionOnSet(old, I \ {at})
    BY <1>1, <2>1, <2>2, SumRemove
  <2>4. SumFunctionOnSet(new, I) = new[at] + SumFunctionOnSet(new, I \ {at})
    BY <1>1, <2>1, <2>2, SumRemove
  <2>5. SumFunctionOnSet(new, I \ {at}) = SumFunctionOnSet(old, I \ {at})
    BY <2>1, <2>2, SumAgree
  <2>6. SumFunctionOnSet(old, I \ {at}) \in Int
    BY <2>1, <2>2, SumType
  <2> QED
    BY <1>1, <2>2, <2>3, <2>4, <2>5, <2>6
<1>6. Total(list) = SumFunctionOnSet(old, I) /\ Total(next) = SumFunctionOnSet(new, I)
  BY <1>3 DEF Total
<1> QED
  BY <1>3, <1>4, <1>5, <1>6

(* An exhausted list is due nothing, any other one something. *)
LEMMA QueueTotal ==
    ASSUME NEW list, NEW at, NEW ids, Queue(list, at, ids)
    PROVE  Total(list) = 0 <=> at > Len(list)
<1> DEFINE n == Len(list)
           I == 1 .. n
           a == [i \in I |-> list[i].amt]
           zero == [i \in I |-> 0]
           rest == I \ {at}
<1>1. n \in Nat /\ at \in 1 .. (n + 1) /\ \A i \in I : list[i].amt \in Nat
  <2> DEFINE E == [id : ids, amt : Nat]
  <2>1. list \in Seq(E) /\ at \in 1 .. (n + 1)
    BY DEF Queue
  <2>2. n \in Nat /\ \A i \in I : list[i] \in E
    <3> HIDE DEF E
    <3> QED BY <2>1, LenProperties, ElementOfSeq
  <2> QED
    BY <2>1, <2>2
<1>2. IsFiniteSet(I) /\ IsFiniteSet(rest)
  <2>1. IsFiniteSet(I)
    BY <1>1, FS_Interval
  <2> HIDE DEF I
  <2> QED BY <2>1, FS_RemoveElement
<1>3. \A i \in I : a[i] \in Nat /\ zero[i] = 0 /\ a[i] = list[i].amt
  BY <1>1
<1>4. Total(list) = SumFunctionOnSet(a, I)
  BY DEF Total
<1>5. CASE at > n
  <2>1. \A i \in I : a[i] = 0
    BY <1>1, <1>5 DEF Queue
  <2> HIDE DEF a, I
  <2> QED BY <1>2, <1>4, <1>5, <2>1, SumZero
<1>6. CASE at <= n
  <2>1. at \in I /\ a[at] > 0
    BY <1>1, <1>6 DEF Queue
  <2>2. SumFunctionOnSet(zero, rest) = 0
    BY <1>2, SumZero
  <2> HIDE DEF a, zero, I
  <2>3. SumFunctionOnSet(zero, rest) <= SumFunctionOnSet(a, rest)
    BY <1>2, <1>3, SumMonotone
  <2>4. SumFunctionOnSet(a, I) = a[at] + SumFunctionOnSet(a, rest)
    BY <1>2, <1>3, <2>1, SumRemove
  <2>5. SumFunctionOnSet(a, rest) \in Int
    BY <1>2, <1>3, SumType
  <2> QED
    BY <1>1, <1>3, <1>4, <1>6, <2>1, <2>2, <2>3, <2>4, <2>5
<1> QED
  BY <1>1, <1>5, <1>6

-----------------------------------------------------------------------------
(* The loop of minTransfers.                                               *)

(* What every turn of the loop leaves true, the nets being f.              *)
QueuesMatch(f, s) ==
    /\ Queue(s.cred, s.c, Creditors(f))
    /\ Queue(s.debt, s.d, Debtors(f))
    /\ Total(s.cred) = Total(s.debt)

(* Each row stands for a creditor and a debtor of whom one has been dealt  *)
(* with by now.                                                            *)
RowsBehind(f, s) ==
    /\ s.out \in Seq(Rows(f))
    /\ \A k \in 1 .. Len(s.out) :
          \E i \in 1 .. Len(s.cred), j \in 1 .. Len(s.debt) :
              /\ s.out[k].to = s.cred[i].id
              /\ s.out[k].from = s.debt[j].id
              /\ i <= s.c /\ j <= s.d
              /\ i < s.c \/ j < s.d
    /\ \A k, l \in 1 .. Len(s.out) :
          s.out[k].from = s.out[l].from /\ s.out[k].to = s.out[l].to => k = l

(* What a member is still due, and what they have received, is their net.  *)
DuesTallied(f, s) ==
    /\ \A i \in 1 .. Len(s.cred) :
          ReceivedIn(s.out, s.cred[i].id) = f[s.cred[i].id] - s.cred[i].amt
    /\ \A j \in 1 .. Len(s.debt) :
          SentIn(s.out, s.debt[j].id) = -f[s.debt[j].id] - s.debt[j].amt

(* Every turn finishes a creditor or a debtor, and the last one both.      *)
FewRows(s) ==
    /\ Len(s.out) <= s.c + s.d - 2
    /\ s.c > Len(s.cred) /\ s.d > Len(s.debt) /\ Len(s.cred) > 0
          => Len(s.out) <= s.c + s.d - 3

Matched(f, s) ==
    QueuesMatch(f, s) /\ RowsBehind(f, s) /\ DuesTallied(f, s) /\ FewRows(s)

Netted(f) ==
    /\ DOMAIN f \in SUBSET Int /\ IsFiniteSet(DOMAIN f)
    /\ \A m \in DOMAIN f : f[m] \in Int
    /\ SumFunction(f) = 0

(* Ranked starts a queue of those it ranks. *)
LEMMA RankedQueue ==
    ASSUME NEW amt, DOMAIN amt \in SUBSET Int, IsFiniteSet(DOMAIN amt),
           \A m \in DOMAIN amt : amt[m] \in Nat \ {0}
    PROVE  /\ Queue(Ranked(amt), 1, DOMAIN amt)
           /\ Total(Ranked(amt)) = SumFunctionOnSet(amt, DOMAIN amt)
           /\ \A i \in 1 .. Len(Ranked(amt)) :
                 /\ Ranked(amt)[i].amt = amt[Ranked(amt)[i].id]
                 /\ Ranked(amt)[i].id \in DOMAIN amt
<1> DEFINE S == DOMAIN amt
           list == Ranked(amt)
           n == Cardinality(S)
           E == [id : S, amt : Int]
<1>1. /\ n \in Nat
      /\ list \in Seq(E)
      /\ Len(list) = n
      /\ \A i \in 1 .. n : list[i].amt = amt[list[i].id]
      /\ \A i, j \in 1 .. n : list[i].id = list[j].id => i = j
      /\ \A m \in S : \E i \in 1 .. n : list[i].id = m
  <2>1. \A m \in DOMAIN amt : amt[m] \in Int
    OBVIOUS
  <2> QED BY <2>1, RankedLists
<1> HIDE DEF list, n, S
<1>2. \A i \in 1 .. n : list[i] \in E
  <2> HIDE DEF E
  <2> QED BY <1>1, ElementOfSeq
<1>3. \A i \in 1 .. n : list[i].id \in S /\ list[i].amt \in Nat \ {0}
                        /\ list[i] \in [id : S, amt : Nat]
  <2> SUFFICES ASSUME NEW i \in 1 .. n
               PROVE  list[i].id \in S /\ list[i].amt \in Nat \ {0}
                        /\ list[i] \in [id : S, amt : Nat]
    OBVIOUS
  <2>1. list[i] \in E /\ list[i].id \in S
    BY <1>2
  <2>2. list[i].amt \in Nat \ {0}
    BY <1>1, <2>1 DEF S
  <2> QED
    BY <2>1, <2>2
<1>4. list \in Seq([id : S, amt : Nat])
  <2> DEFINE N == [id : S, amt : Nat]
  <2>1. DOMAIN list = 1 .. n /\ list \in [1 .. n -> E]
    BY <1>1, LenProperties
  <2>2. list \in [1 .. n -> N]
    BY <1>3, <2>1
  <2>3. list \in UNION {[1 .. k -> N] : k \in Nat}
    BY <1>1, <2>2
  <2> HIDE DEF N
  <2>4. list \in Seq(N)
    BY <2>3, SeqDef, Zenon
  <2> QED
    BY <2>4 DEF N
<1>5. Queue(list, 1, S)
  <2>1. 1 \in 1 .. (Len(list) + 1) /\ \A i \in 1 .. n : list[i].amt > 0
    BY <1>1, <1>3
  <2>2. \A i \in 1 .. n : ~(i < 1)
    OBVIOUS
  <2> QED
    BY <1>1, <1>4, <2>1, <2>2 DEF Queue, n
<1>6. Total(list) = SumFunctionOnSet(amt, S)
  <2>1. IsFiniteSet(S) /\ \A m \in S : amt[m] \in Int
    BY DEF S
  <2>2. \A i \in 1 .. n : list[i].id \in S /\ list[i].amt = amt[list[i].id]
    BY <1>1, <1>3
  <2>3. SumFunctionOnSet([i \in 1 .. n |-> list[i].amt], 1 .. n) = SumFunctionOnSet(amt, S)
    <3>1. \A i, j \in 1 .. n : list[i].id = list[j].id => i = j
      BY <1>1
    <3>2. \A m \in S : \E i \in 1 .. n : list[i].id = m
      BY <1>1
    <3>3. n \in Nat
      BY <1>1
    <3> HIDE DEF E
    <3> QED BY <2>1, <2>2, <3>1, <3>2, <3>3, ListAddsUp, SMTT(60)
  <2> QED
    BY <1>1, <2>3 DEF Total
<1>7. \A i \in 1 .. Len(list) : list[i].amt = amt[list[i].id] /\ list[i].id \in S
  BY <1>1, <1>3
<1> QED
  BY <1>5, <1>6, <1>7 DEF list, S

(* The queues minTransfers starts with.                                    *)
LEMMA StartMatched ==
    ASSUME NEW f, Netted(f) PROVE Matched(f, StartMatching(f))
<1> DEFINE s == StartMatching(f)
           C == Creditors(f)
           D == Debtors(f)
           due == [m \in C |-> f[m]]
           owed == [m \in D |-> -f[m]]
<1>1. /\ C \in SUBSET DOMAIN f /\ D \in SUBSET DOMAIN f /\ C \cap D = {}
      /\ IsFiniteSet(C) /\ IsFiniteSet(D) /\ C \in SUBSET Int /\ D \in SUBSET Int
      /\ \A m \in C : due[m] \in Nat \ {0} /\ due[m] = f[m]
      /\ \A m \in D : owed[m] \in Nat \ {0} /\ owed[m] = -f[m]
  BY FS_Subset DEF Creditors, Debtors, Netted
<1>2. /\ s.cred = Ranked(due) /\ s.debt = Ranked(owed)
      /\ s.c = 1 /\ s.d = 1 /\ s.out = <<>>
  BY DEF StartMatching, Creditors, Debtors
<1> HIDE DEF s, C, D, due, owed
<1>4. /\ Queue(s.cred, 1, C) /\ Total(s.cred) = SumFunctionOnSet(due, C)
      /\ \A i \in 1 .. Len(s.cred) : s.cred[i].amt = due[s.cred[i].id] /\ s.cred[i].id \in C
  <2>1. DOMAIN due = C
    BY DEF due
  <2> QED BY <1>1, <1>2, <2>1, RankedQueue
<1>5. /\ Queue(s.debt, 1, D) /\ Total(s.debt) = SumFunctionOnSet(owed, D)
      /\ \A i \in 1 .. Len(s.debt) : s.debt[i].amt = owed[s.debt[i].id] /\ s.debt[i].id \in D
  <2>1. DOMAIN owed = D
    BY DEF owed
  <2> QED BY <1>1, <1>2, <2>1, RankedQueue
(* What is due to the creditors is what the debtors owe. *)
<1>6. SumFunctionOnSet(due, C) = SumFunctionOnSet(owed, D)
  <2>1. \A m \in DOMAIN f : f[m] \in Int
    BY DEF Netted
  <2>2. C \cup D \in SUBSET DOMAIN f /\ IsFiniteSet(DOMAIN f)
        /\ \A m \in DOMAIN f \ (C \cup D) : f[m] = 0
    BY <1>1, <2>1 DEF C, D, Creditors, Debtors, Netted
  <2>3. SumFunctionOnSet(f, DOMAIN f) = 0
    BY DEF Netted, SumFunction
  <2>4. SumFunctionOnSet(f, DOMAIN f) = SumFunctionOnSet(f, C \cup D)
    <3>1. \A m \in C \cup D : f[m] \in Int
      BY <2>1, <2>2
    <3> QED BY <2>2, <3>1, SumSubset
  <2>5. SumFunctionOnSet(f, C \cup D) = SumFunctionOnSet(f, C) + SumFunctionOnSet(f, D)
    <3>1. \A m \in C \cup D : f[m] \in Int
      BY <2>1, <2>2
    <3> QED BY <1>1, <3>1, SumUnion
  <2>6. SumFunctionOnSet(due, C) = SumFunctionOnSet(f, C)
    <3>1. \A m \in C : due[m] \in Int /\ due[m] = f[m]
      BY <1>1
    <3> QED BY <1>1, <3>1, SumAgree
  <2>7. SumFunctionOnSet(owed, D) = (-1) * SumFunctionOnSet(f, D)
    <3>1. \A m \in D : f[m] \in Int /\ owed[m] = (-1) * f[m]
      BY <1>1, <2>1
    <3>2. -1 \in Int
      OBVIOUS
    <3>3. IsFiniteSet(D)
      BY <1>1
    <3>4. Multiple(owed, -1, f, D)
      BY <3>1 DEF Multiple
    <3> QED BY <3>2, <3>3, <3>4, SumMultiple
  <2>8. SumFunctionOnSet(f, C) \in Int /\ SumFunctionOnSet(f, D) \in Int
    <3>1. \A m \in C \cup D : f[m] \in Int
      BY <2>1, <2>2
    <3> QED BY <1>1, <3>1, SumType
  <2> QED
    BY <2>3, <2>4, <2>5, <2>6, <2>7, <2>8
<1>7. QueuesMatch(f, s)
  BY <1>2, <1>4, <1>5, <1>6 DEF QueuesMatch, C, D
<1>8. RowsBehind(f, s) /\ Len(s.out) = 0
  <2>1. s.out \in Seq(Rows(f)) /\ Len(s.out) = 0
    BY <1>2, EmptySeq
  <2> QED
    BY <2>1 DEF RowsBehind
<1>9. DuesTallied(f, s)
  <2>1. ASSUME NEW m PROVE ReceivedIn(s.out, m) = 0 /\ SentIn(s.out, m) = 0
    <3>1. DOMAIN s.out = {}
      BY <1>2
    <3>2. /\ {k \in DOMAIN s.out : s.out[k].to = m} = {}
          /\ {k \in DOMAIN s.out : s.out[k].from = m} = {}
      BY <3>1
    <3>3. /\ ReceivedIn(s.out, m) = SumFunctionOnSet([i \in {} |-> s.out[i].amount], {})
          /\ SentIn(s.out, m) = SumFunctionOnSet([i \in {} |-> s.out[i].amount], {})
      BY <3>2 DEF ReceivedIn, SentIn, SumFunction
    <3> QED
      BY <3>3, SumEmpty
  <2>2. \A i \in 1 .. Len(s.cred) : s.cred[i].amt = f[s.cred[i].id] /\ f[s.cred[i].id] \in Int
    BY <1>1, <1>4
  <2>3. \A j \in 1 .. Len(s.debt) : s.debt[j].amt = -f[s.debt[j].id] /\ f[s.debt[j].id] \in Int
    BY <1>1, <1>5 DEF Netted
  <2> QED
    BY <2>1, <2>2, <2>3 DEF DuesTallied
<1>10. FewRows(s)
  <2>1. Len(s.cred) \in Nat
    BY <1>4, LenProperties DEF Queue
  <2> QED
    BY <1>2, <1>8, <2>1 DEF FewRows
<1> QED
  BY <1>7, <1>8, <1>9, <1>10 DEF Matched, s

(* What is at the head of a queue. *)
LEMMA QueueHead ==
    ASSUME NEW list, NEW at, NEW ids, Queue(list, at, ids)
    PROVE  /\ Len(list) \in Nat /\ at \in 1 .. (Len(list) + 1)
           /\ \A i \in 1 .. Len(list) : list[i].id \in ids /\ list[i].amt \in Nat
           /\ at <= Len(list) => at \in 1 .. Len(list) /\ list[at].amt \in Nat \ {0}
           /\ \A i, j \in 1 .. Len(list) : list[i].id = list[j].id => i = j
<1> DEFINE n == Len(list)
           E == [id : ids, amt : Nat]
<1>1. list \in Seq(E) /\ at \in 1 .. (n + 1)
  BY DEF Queue
<1>2. n \in Nat /\ \A i \in 1 .. n : list[i] \in E
  <2> HIDE DEF E
  <2> QED BY <1>1, LenProperties, ElementOfSeq
<1>3. \A i \in 1 .. n : list[i].id \in ids /\ list[i].amt \in Nat
  BY <1>2
<1>4. \A i \in 1 .. n : IF i < at THEN list[i].amt = 0 ELSE list[i].amt > 0
  BY DEF Queue
<1>5. \A i, j \in 1 .. n : list[i].id = list[j].id => i = j
  BY DEF Queue
<1> HIDE DEF n
<1>6. at <= n => at \in 1 .. n /\ list[at].amt \in Nat \ {0}
  <2>1. SUFFICES ASSUME at <= n PROVE at \in 1 .. n /\ list[at].amt \in Nat \ {0}
    OBVIOUS
  <2>2. at \in 1 .. n
    BY <1>1, <1>2, <2>1
  <2>3. list[at].amt > 0 /\ list[at].amt \in Nat
    BY <1>3, <1>4, <2>2
  <2> QED BY <2>2, <2>3
<1> QED
  BY <1>1, <1>2, <1>3, <1>5, <1>6 DEF n

(* A turn of the loop keeps Matched, and writes one row.                   *)
LEMMA GiveMatched ==
    ASSUME NEW f, NEW s, Netted(f), Matched(f, s), Matching(s)
    PROVE  Matched(f, Give(s)) /\ Len(Give(s).out) = Len(s.out) + 1
<1> DEFINE C == Creditors(f)
           D == Debtors(f)
           c == s.c
           d == s.d
           due == s.cred[s.c].amt
           owed == s.debt[s.d].amt
           give == IF due < owed THEN due ELSE owed
           row == [from |-> s.debt[s.d].id, to |-> s.cred[s.c].id, amount |-> give]
           g == Give(s)
           nC == Len(s.cred)
           nD == Len(s.debt)
           n == Len(s.out)
<1>1. /\ Queue(s.cred, c, C) /\ Queue(s.debt, d, D) /\ Total(s.cred) = Total(s.debt)
      /\ c <= nC /\ d <= nD
  BY DEF Matched, QueuesMatch, Matching
<1>2. /\ nC \in Nat /\ c \in 1 .. nC /\ nD \in Nat /\ d \in 1 .. nD
      /\ due \in Nat \ {0} /\ owed \in Nat \ {0}
      /\ s.cred[c].id \in C /\ s.debt[d].id \in D
      /\ \A i, j \in 1 .. nC : s.cred[i].id = s.cred[j].id => i = j
      /\ \A i, j \in 1 .. nD : s.debt[i].id = s.debt[j].id => i = j
      /\ \A i \in 1 .. nC : s.cred[i].amt \in Nat
      /\ \A i \in 1 .. nD : s.debt[i].amt \in Nat
  BY <1>1, QueueHead
<1>3. /\ g.cred = [s.cred EXCEPT ![c].amt = due - give]
      /\ g.debt = [s.debt EXCEPT ![d].amt = owed - give]
      /\ g.c = (IF due = give THEN c + 1 ELSE c)
      /\ g.d = (IF owed = give THEN d + 1 ELSE d)
      /\ g.out = Append(s.out, row)
  BY DEF Give
<1>4. /\ give \in Nat \ {0} /\ give <= due /\ give <= owed
      /\ due = give \/ owed = give
  BY <1>2
<1>5. /\ row.from = s.debt[d].id /\ row.to = s.cred[c].id /\ row.amount = give
      /\ row \in Rows(f)
  <2> HIDE DEF give
  <2> QED BY <1>2, <1>4 DEF Rows
<1> HIDE DEF give, row, g
<1>6. /\ Queue(g.cred, g.c, C)
      /\ Total(s.cred) \in Int /\ Total(g.cred) = Total(s.cred) - give
      /\ Len(g.cred) = nC
      /\ \A i \in 1 .. nC :
            /\ g.cred[i].id = s.cred[i].id
            /\ g.cred[i].amt = IF i = c THEN s.cred[i].amt - give ELSE s.cred[i].amt
  <2>1. /\ g.cred = [s.cred EXCEPT ![c].amt = s.cred[c].amt - give]
        /\ g.c = (IF s.cred[c].amt = give THEN c + 1 ELSE c)
        /\ give \in Nat /\ give <= s.cred[c].amt
    BY <1>3, <1>4
  <2>2. Queue(s.cred, c, C) /\ c <= Len(s.cred) /\ nC = Len(s.cred)
    BY <1>1
  <2> HIDE DEF C, c, nC, due, owed
  <2> QED BY <2>1, <2>2, QueueMoves
<1>7. /\ Queue(g.debt, g.d, D)
      /\ Total(s.debt) \in Int /\ Total(g.debt) = Total(s.debt) - give
      /\ Len(g.debt) = nD
      /\ \A i \in 1 .. nD :
            /\ g.debt[i].id = s.debt[i].id
            /\ g.debt[i].amt = IF i = d THEN s.debt[i].amt - give ELSE s.debt[i].amt
  <2>1. /\ g.debt = [s.debt EXCEPT ![d].amt = s.debt[d].amt - give]
        /\ g.d = (IF s.debt[d].amt = give THEN d + 1 ELSE d)
        /\ give \in Nat /\ give <= s.debt[d].amt
    BY <1>3, <1>4
  <2>2. Queue(s.debt, d, D) /\ d <= Len(s.debt) /\ nD = Len(s.debt)
    BY <1>1
  <2> HIDE DEF D, d, nD, due, owed
  <2> QED BY <2>1, <2>2, QueueMoves
<1>8. QueuesMatch(f, g)
  BY <1>1, <1>6, <1>7 DEF QueuesMatch
<1>9. /\ s.out \in Seq(Rows(f)) /\ n \in Nat
      /\ g.out \in Seq(Rows(f)) /\ Len(g.out) = n + 1
      /\ g.out[n + 1] = row /\ \A k \in 1 .. n : g.out[k] = s.out[k]
  <2> DEFINE R == Rows(f)
  <2>1. s.out \in Seq(R) /\ row \in R
    BY <1>5 DEF Matched, RowsBehind
  <2> HIDE DEF R
  <2>2. /\ n \in Nat /\ Append(s.out, row) \in Seq(R) /\ Len(Append(s.out, row)) = n + 1
        /\ Append(s.out, row)[n + 1] = row
        /\ \A k \in 1 .. n : Append(s.out, row)[k] = s.out[k]
    BY <2>1, LenProperties, AppendProperties
  <2> QED BY <1>3, <2>1, <2>2 DEF R
<1>10. /\ \A k \in 1 .. n :
             \E i \in 1 .. nC, j \in 1 .. nD :
                 /\ s.out[k].to = s.cred[i].id /\ s.out[k].from = s.debt[j].id
                 /\ i <= c /\ j <= d
                 /\ i < c \/ j < d
       /\ \A k, l \in 1 .. n :
             s.out[k].from = s.out[l].from /\ s.out[k].to = s.out[l].to => k = l
  BY DEF Matched, RowsBehind
<1>11. /\ g.c \in Nat /\ g.d \in Nat /\ c <= g.c /\ d <= g.d
       /\ c < g.c \/ d < g.d
       /\ c + d + 1 <= g.c + g.d /\ g.c <= c + 1 /\ g.d <= d + 1
  <2>1. c \in Nat /\ d \in Nat
    BY <1>2
  <2>2. /\ g.c = (IF due = give THEN c + 1 ELSE c)
        /\ g.d = (IF owed = give THEN d + 1 ELSE d)
        /\ due = give \/ owed = give
    BY <1>3, <1>4
  <2> HIDE DEF c, d, due, owed
  <2> QED BY <2>1, <2>2
<1> HIDE DEF c, d, due, owed, nC, nD, n, C, D
<1>12. ASSUME NEW k \in 1 .. (n + 1)
       PROVE  \E i \in 1 .. nC, j \in 1 .. nD :
                 /\ g.out[k].to = g.cred[i].id /\ g.out[k].from = g.debt[j].id
                 /\ i <= g.c /\ j <= g.d
                 /\ i < g.c \/ j < g.d
  <2>1. CASE k = n + 1
    <3>1. /\ g.out[k].to = g.cred[c].id /\ g.out[k].from = g.debt[d].id
          /\ c \in 1 .. nC /\ d \in 1 .. nD
      BY <1>2, <1>5, <1>6, <1>7, <1>9, <2>1
    <3> QED BY <1>11, <3>1
  <2>2. CASE k \in 1 .. n
    <3>1. PICK i \in 1 .. nC, j \in 1 .. nD :
             /\ s.out[k].to = s.cred[i].id /\ s.out[k].from = s.debt[j].id
             /\ i <= c /\ j <= d
             /\ i < c \/ j < d
      BY <1>10, <2>2
    <3>2. g.out[k].to = g.cred[i].id /\ g.out[k].from = g.debt[j].id
      BY <1>6, <1>7, <1>9, <2>2, <3>1
    <3>3. i \in Nat /\ j \in Nat /\ c \in Nat /\ d \in Nat
      BY <1>2
    <3>4. i <= g.c /\ j <= g.d /\ (i < g.c \/ j < g.d)
      BY <1>11, <3>1, <3>3
    <3> QED BY <3>2, <3>4
  <2> QED
    BY <1>9, <2>1, <2>2
<1>13. ASSUME NEW k \in 1 .. n
       PROVE  ~(s.out[k].from = row.from /\ s.out[k].to = row.to)
  <2>1. PICK i \in 1 .. nC, j \in 1 .. nD :
           /\ s.out[k].to = s.cred[i].id /\ s.out[k].from = s.debt[j].id
           /\ i < c \/ j < d
    BY <1>10
  <2>2. c \in 1 .. nC /\ d \in 1 .. nD
    BY <1>2
  <2>3. s.out[k].from = row.from /\ s.out[k].to = row.to => i = c /\ j = d
    BY <1>2, <1>5, <2>1
  <2> QED BY <2>1, <2>2, <2>3
<1>14. \A k, l \in 1 .. (n + 1) :
          g.out[k].from = g.out[l].from /\ g.out[k].to = g.out[l].to => k = l
  <2> SUFFICES ASSUME NEW k \in 1 .. (n + 1), NEW l \in 1 .. (n + 1),
                      g.out[k].from = g.out[l].from, g.out[k].to = g.out[l].to
               PROVE  k = l
    OBVIOUS
  <2>1. (k \in 1 .. n \/ k = n + 1) /\ (l \in 1 .. n \/ l = n + 1)
    BY <1>9
  <2> QED
    BY <1>9, <1>10, <1>13, <2>1
<1>15. RowsBehind(f, g)
  BY <1>6, <1>7, <1>9, <1>12, <1>14 DEF RowsBehind, nC, nD
<1>16. ASSUME NEW i \in 1 .. nC
       PROVE  ReceivedIn(g.out, g.cred[i].id) = f[g.cred[i].id] - g.cred[i].amt
  <2> DEFINE m == s.cred[i].id
  <2>1. /\ ReceivedIn(s.out, m) \in Int
        /\ ReceivedIn(g.out, m) = ReceivedIn(s.out, m) + IF row.to = m THEN row.amount ELSE 0
    BY <1>3, <1>5, <1>9, RowCounts
  <2>2. row.to = m <=> i = c
    BY <1>2, <1>5
  <2>3. ReceivedIn(s.out, m) = f[m] - s.cred[i].amt
    BY DEF Matched, DuesTallied, nC
  <2>4. m \in DOMAIN f /\ f[m] \in Int
    <3>1. m \in C
      BY <1>1, QueueHead DEF nC
    <3>2. C \subseteq DOMAIN f
      BY DEF C, Creditors
    <3> QED BY <3>1, <3>2 DEF Netted
  <2>5. /\ g.cred[i].id = m
        /\ g.cred[i].amt = IF i = c THEN s.cred[i].amt - give ELSE s.cred[i].amt
    BY <1>6
  <2>6. s.cred[i].amt \in Nat /\ give \in Nat /\ row.amount = give
    BY <1>2, <1>4, <1>5
  <2> HIDE DEF m
  <2>7. ReceivedIn(g.out, m) = f[m] - g.cred[i].amt
    BY <2>1, <2>2, <2>3, <2>4, <2>5, <2>6
  <2> QED BY <2>5, <2>7
<1>17. ASSUME NEW j \in 1 .. nD
       PROVE  SentIn(g.out, g.debt[j].id) = -f[g.debt[j].id] - g.debt[j].amt
  <2> DEFINE m == s.debt[j].id
  <2>1. /\ SentIn(s.out, m) \in Int
        /\ SentIn(g.out, m) = SentIn(s.out, m) + IF row.from = m THEN row.amount ELSE 0
    BY <1>3, <1>5, <1>9, RowCounts
  <2>2. row.from = m <=> j = d
    BY <1>2, <1>5
  <2>3. SentIn(s.out, m) = -f[m] - s.debt[j].amt
    BY DEF Matched, DuesTallied, nD
  <2>4. m \in DOMAIN f /\ f[m] \in Int
    <3>1. m \in D
      BY <1>1, QueueHead DEF nD
    <3>2. D \subseteq DOMAIN f
      BY DEF D, Debtors
    <3> QED BY <3>1, <3>2 DEF Netted
  <2>5. /\ g.debt[j].id = m
        /\ g.debt[j].amt = IF j = d THEN s.debt[j].amt - give ELSE s.debt[j].amt
    BY <1>7
  <2>6. s.debt[j].amt \in Nat /\ give \in Nat /\ row.amount = give
    BY <1>2, <1>4, <1>5
  <2> HIDE DEF m
  <2>7. SentIn(g.out, m) = -f[m] - g.debt[j].amt
    BY <2>1, <2>2, <2>3, <2>4, <2>5, <2>6
  <2> QED BY <2>5, <2>7
<1>18. DuesTallied(f, g)
  BY <1>6, <1>7, <1>16, <1>17 DEF DuesTallied, nC, nD
<1>19. FewRows(g)
  <2>1. n <= c + d - 2
    BY DEF Matched, FewRows, n, c, d
  <2>1a. c <= nC /\ d <= nD
    BY <1>1
  <2>2. /\ Len(g.out) <= g.c + g.d - 2
        /\ g.c > nC /\ g.d > nD => Len(g.out) <= g.c + g.d - 3
    <3>1. /\ n \in Nat /\ c \in Nat /\ d \in Nat /\ nC \in Nat /\ nD \in Nat
          /\ Len(g.out) = n + 1
      BY <1>2, <1>9
    <3>2. /\ g.c \in Nat /\ g.d \in Nat /\ c + d + 1 <= g.c + g.d
          /\ g.c > nC => g.c = c + 1
          /\ g.d > nD => g.d = d + 1
      BY <1>11, <2>1a, <3>1
    <3> DEFINE gc == g.c
               gd == g.d
    <3> HIDE DEF gc, gd
    <3>3. /\ n + 1 <= gc + gd - 2
          /\ gc > nC /\ gd > nD => n + 1 <= gc + gd - 3
      <4>1. /\ gc \in Nat /\ gd \in Nat /\ c + d + 1 <= gc + gd
            /\ gc > nC => gc = c + 1
            /\ gd > nD => gd = d + 1
        BY <3>2 DEF gc, gd
      <4>2. /\ n <= c + d - 2 /\ n \in Nat /\ c \in Nat
            /\ d \in Nat /\ nC \in Nat /\ nD \in Nat
        BY <2>1, <3>1
      <4>3. n + 1 <= gc + gd - 2
        BY <4>1, <4>2
      <4>4. gc > nC /\ gd > nD => n + 1 <= gc + gd - 3
        BY <4>1, <4>2
      <4> QED BY <4>3, <4>4
    <3> QED BY <3>1, <3>3 DEF gc, gd
  <2> QED
    BY <1>6, <1>7, <2>2 DEF FewRows
<1> QED
  BY <1>8, <1>9, <1>15, <1>18, <1>19 DEF Matched, g, n

(* Nobody but a creditor receives, nobody but a debtor sends.              *)
LEMMA OneSided ==
    ASSUME NEW f, NEW out \in Seq(Rows(f)), NEW m
    PROVE  /\ m \notin Creditors(f) => ReceivedIn(out, m) = 0
           /\ m \notin Debtors(f) => SentIn(out, m) = 0
<1>1. \A k \in DOMAIN out : out[k].from \in Debtors(f) /\ out[k].to \in Creditors(f)
  <2> DEFINE R == Rows(f)
  <2>1. \A k \in DOMAIN out : out[k] \in R
    <3>1. out \in Seq(R)
      OBVIOUS
    <3> HIDE DEF R
    <3> QED BY <3>1, LenProperties, ElementOfSeq
  <2> QED
    BY <2>1 DEF Rows
<1>2. ASSUME m \notin Creditors(f) PROVE ReceivedIn(out, m) = 0
  <2>1. {k \in DOMAIN out : out[k].to = m} = {}
    BY <1>1, <1>2
  <2>2. ReceivedIn(out, m) = SumFunctionOnSet([i \in {} |-> out[i].amount], {})
    BY <2>1 DEF ReceivedIn, SumFunction
  <2> QED BY <2>2, SumEmpty
<1>3. ASSUME m \notin Debtors(f) PROVE SentIn(out, m) = 0
  <2>1. {k \in DOMAIN out : out[k].from = m} = {}
    BY <1>1, <1>3
  <2>2. SentIn(out, m) = SumFunctionOnSet([i \in {} |-> out[i].amount], {})
    BY <2>1 DEF SentIn, SumFunction
  <2> QED BY <2>2, SumEmpty
<1> QED
  BY <1>2, <1>3

(* What the loop has written is a plan, a complete one when it stops.      *)
LEMMA MatchedSettles ==
    ASSUME NEW f, NEW s, Netted(f), Matched(f, s)
    PROVE  /\ s.out \in Seq(Rows(f))
           /\ \A k \in DOMAIN s.out : s.out[k].amount > 0 /\ s.out[k].from # s.out[k].to
           /\ \A k, l \in DOMAIN s.out :
                 s.out[k].from = s.out[l].from /\ s.out[k].to = s.out[l].to => k = l
           /\ {m \in DOMAIN f : f[m] # 0} # {}
                 => Len(s.out) < Cardinality({m \in DOMAIN f : f[m] # 0})
           /\ Len(s.out) <= Cardinality(DOMAIN f)
           /\ Matching(s) => Len(s.out) < Cardinality(DOMAIN f)
           /\ ~Matching(s) =>
                 \A m \in DOMAIN f :
                     /\ ReceivedIn(s.out, m) - SentIn(s.out, m) = f[m]
                     /\ ReceivedIn(s.out, m) = 0 \/ SentIn(s.out, m) = 0
<1> DEFINE C == Creditors(f)
           D == Debtors(f)
           U == {m \in DOMAIN f : f[m] # 0}
           c == s.c
           d == s.d
           nC == Len(s.cred)
           nD == Len(s.debt)
           n == Len(s.out)
<1>1. /\ Queue(s.cred, c, C) /\ Queue(s.debt, d, D) /\ Total(s.cred) = Total(s.debt)
      /\ nC = Cardinality(C) /\ nD = Cardinality(D)
  BY DEF Matched, QueuesMatch, Queue
<1>2. /\ nC \in Nat /\ c \in 1 .. (nC + 1) /\ nD \in Nat /\ d \in 1 .. (nD + 1)
  BY <1>1, QueueHead
<1>3. s.out \in Seq(Rows(f)) /\ n \in Nat /\ DOMAIN s.out = 1 .. n
  <2>1. s.out \in Seq(Rows(f))
    BY DEF Matched, RowsBehind
  <2> QED BY <2>1, LenProperties
<1>4. C \in SUBSET DOMAIN f /\ D \in SUBSET DOMAIN f /\ C \cap D = {} /\ U = C \cup D
  BY DEF Netted, Creditors, Debtors
<1>5. \A k \in DOMAIN s.out : s.out[k].amount > 0 /\ s.out[k].from # s.out[k].to
  <2> SUFFICES ASSUME NEW k \in 1 .. n
               PROVE  s.out[k].amount > 0 /\ s.out[k].from # s.out[k].to
    BY <1>3
  <2>1. s.out[k] \in Rows(f)
    <3> DEFINE R == Rows(f)
    <3>1. s.out \in Seq(R)
      BY <1>3
    <3> HIDE DEF R
    <3>2. s.out[k] \in R
      BY <3>1, ElementOfSeq
    <3> QED BY <3>2 DEF R
  <2> QED
    BY <1>4, <2>1 DEF Rows
<1>6. \A k, l \in DOMAIN s.out :
         s.out[k].from = s.out[l].from /\ s.out[k].to = s.out[l].to => k = l
  BY <1>3 DEF Matched, RowsBehind
<1>7. /\ IsFiniteSet(DOMAIN f) /\ IsFiniteSet(C) /\ IsFiniteSet(D) /\ IsFiniteSet(U)
      /\ Cardinality(U) = nC + nD /\ nC + nD <= Cardinality(DOMAIN f)
      /\ Cardinality(DOMAIN f) \in Nat
  <2>1. IsFiniteSet(DOMAIN f)
    BY DEF Netted
  <2> HIDE DEF C, D, U
  <2>2. /\ IsFiniteSet(C) /\ IsFiniteSet(D) /\ IsFiniteSet(U)
        /\ Cardinality(U) <= Cardinality(DOMAIN f)
    <3>1. U \in SUBSET DOMAIN f
      BY <1>4
    <3> QED BY <1>4, <2>1, <3>1, FS_Subset
  <2>3. Cardinality(C \cup D) = Cardinality(C) + Cardinality(D) - Cardinality(C \cap D)
    BY <2>2, FS_Union
  <2>4. Cardinality(C \cap D) = 0
    BY <1>4, FS_EmptySet
  <2>5. Cardinality(U) = Cardinality(C) + Cardinality(D) - 0
    BY <1>4, <2>3, <2>4, Zenon
  <2>6. Cardinality(DOMAIN f) \in Nat
    BY <2>1, FS_CardinalityType
  <2> HIDE DEF nC, nD
  <2>7. Cardinality(U) = nC + nD
    BY <1>1, <1>2, <2>5
  <2> QED
    BY <2>1, <2>2, <2>6, <2>7
<1>8. /\ n <= c + d - 2
      /\ c > nC /\ d > nD /\ nC > 0 => n <= c + d - 3
      /\ n > 0 => nC > 0
  <2>1. n <= c + d - 2 /\ (c > nC /\ d > nD /\ nC > 0 => n <= c + d - 3)
    BY DEF Matched, FewRows
  <2>2. \A k \in 1 .. n : \E i \in 1 .. nC : TRUE
    BY DEF Matched, RowsBehind
  <2> HIDE DEF n, nC, nD, c, d
  <2>3. n > 0 => nC > 0
    BY <1>2, <1>3, <2>2
  <2> QED
    BY <2>1, <2>3
<1>9. /\ nC + nD > 0 => n < nC + nD
      /\ n <= nC + nD
  <2> HIDE DEF n, nC, nD, c, d
  <2>1. CASE n = 0
    BY <1>2, <2>1
  <2>2. CASE n > 0 /\ c > nC /\ d > nD
    BY <1>2, <1>3, <1>8, <2>2
  <2>3. CASE c <= nC \/ d <= nD
    BY <1>2, <1>3, <1>8, <2>3
  <2> QED
    BY <1>2, <1>3, <2>1, <2>2, <2>3
<1>10. U # {} => n < Cardinality(U)
  <2>1. U # {} => Cardinality(U) # 0
    BY <1>7, FS_EmptySet
  <2> HIDE DEF U, n, nC, nD
  <2> QED
    BY <1>2, <1>7, <1>9, <2>1
<1>11. n <= Cardinality(DOMAIN f) /\ (Matching(s) => n < Cardinality(DOMAIN f))
  <2>1. Matching(s) => nC + nD > 0
    <3>1. Matching(s) => c <= nC
      BY DEF Matching
    <3> HIDE DEF nC, nD, c
    <3> QED BY <1>2, <3>1
  <2> HIDE DEF n, nC, nD
  <2> QED
    BY <1>2, <1>3, <1>7, <1>9, <2>1
<1>12. ASSUME ~Matching(s), NEW m \in DOMAIN f
       PROVE  /\ ReceivedIn(s.out, m) - SentIn(s.out, m) = f[m]
              /\ ReceivedIn(s.out, m) = 0 \/ SentIn(s.out, m) = 0
  <2>1. c > nC /\ d > nD
    <3>1. (Total(s.cred) = 0 <=> c > nC) /\ (Total(s.debt) = 0 <=> d > nD)
      BY <1>1, QueueTotal
    <3>2. c > nC \/ d > nD
      <4>1. ~(c <= nC /\ d <= nD)
        BY <1>12 DEF Matching
      <4> HIDE DEF c, d, nC, nD
      <4> QED BY <1>2, <4>1
    <3> QED BY <1>1, <3>1, <3>2
  <2>2. f[m] \in Int
    BY DEF Netted
  <2>3. CASE m \in C
    <3>1. PICK i \in 1 .. nC : s.cred[i].id = m
      BY <1>1, <2>3 DEF Queue
    <3>2. s.cred[i].amt = 0
      <4>1. IF i < c THEN s.cred[i].amt = 0 ELSE s.cred[i].amt > 0
        BY <1>1 DEF Queue
      <4> QED BY <1>2, <2>1, <4>1
    <3>3. ReceivedIn(s.out, m) = f[m] - s.cred[i].amt
      BY <3>1 DEF Matched, DuesTallied
    <3>4. SentIn(s.out, m) = 0
      BY <1>3, <1>4, <2>3, OneSided
    <3> QED
      BY <2>2, <3>2, <3>3, <3>4
  <2>4. CASE m \in D
    <3>1. PICK j \in 1 .. nD : s.debt[j].id = m
      BY <1>1, <2>4 DEF Queue
    <3>2. s.debt[j].amt = 0
      <4>1. IF j < d THEN s.debt[j].amt = 0 ELSE s.debt[j].amt > 0
        BY <1>1 DEF Queue
      <4> QED BY <1>2, <2>1, <4>1
    <3>3. SentIn(s.out, m) = -f[m] - s.debt[j].amt
      BY <3>1 DEF Matched, DuesTallied
    <3>4. ReceivedIn(s.out, m) = 0
      BY <1>3, <1>4, <2>4, OneSided
    <3> QED
      BY <2>2, <3>2, <3>3, <3>4
  <2>5. CASE m \notin C /\ m \notin D
    <3>1. f[m] = 0
      BY <2>2, <2>5 DEF Creditors, Debtors
    <3>2. ReceivedIn(s.out, m) = 0 /\ SentIn(s.out, m) = 0
      BY <1>3, <2>5, OneSided
    <3> QED
      BY <3>1, <3>2
  <2> QED
    BY <2>3, <2>4, <2>5
<1> QED
  BY <1>3, <1>5, <1>6, <1>10, <1>11, <1>12

-----------------------------------------------------------------------------
(* The nets LoopSpec starts from are nets that cancel.                     *)
LEMMA NetsNetted ==
    ASSUME LoopInit PROVE Netted(net) /\ DOMAIN net = Parties
<1>1. net \in [Parties -> -MaxAmount .. MaxAmount] /\ SumFunction(net) = 0
  BY DEF LoopInit
<1>2. \A m \in Parties : net[m] \in Int
  <2>1. \A x \in -MaxAmount .. MaxAmount : x \in Int
    BY PartiesAssumption
  <2> QED BY <1>1, <2>1
<1> QED
  BY <1>1, <1>2, PartiesAssumption DEF Netted

LoopInv == /\ DOMAIN net = Parties
           /\ Netted(net)
           /\ Matched(net, loop)

(* From any nets that cancel, every turn of the loop of minTransfers leaves *)
(* the queues and the rows written so far Matched, the inductive invariant. *)
THEOREM LoopMatches == LoopSpec => []LoopInv
<1>1. LoopInit => LoopInv
  <2> SUFFICES ASSUME LoopInit PROVE LoopInv
    OBVIOUS
  <2>1. Netted(net) /\ DOMAIN net = Parties
    BY NetsNetted
  <2>2. Matched(net, StartMatching(net))
    BY <2>1, StartMatched
  <2> QED
    BY <2>1, <2>2 DEF LoopInit, LoopInv
<1>2. LoopInv /\ [LoopNext]_<<net, loop>> => LoopInv'
  <2> SUFFICES ASSUME LoopInv, [LoopNext]_<<net, loop>> PROVE LoopInv'
    OBVIOUS
  <2>1. CASE LoopNext
    <3>1. Matched(net, Give(loop))
      BY <2>1, GiveMatched DEF LoopInv, LoopNext
    <3> QED
      BY <2>1, <3>1 DEF LoopInv, LoopNext
  <2>2. CASE UNCHANGED <<net, loop>>
    BY <2>2 DEF LoopInv
  <2> QED
    BY <2>1, <2>2
<1> QED
  BY <1>1, <1>2, PTL DEF LoopSpec

(* Every plan the loop of minTransfers writes, for any number of members   *)
(* and any nets that cancel, is accepted by settlement_transfers, has fewer *)
(* rows than members to settle, and when the loop stops leaves everybody   *)
(* even (PlanSettlesEverybody).                                            *)
THEOREM PlanAlwaysSettlesEverybody == LoopSpec => []PlanSettlesEverybody
<1>1. LoopInv => PlanSettlesEverybody
  <2> SUFFICES ASSUME LoopInv PROVE PlanSettlesEverybody
    OBVIOUS
  <2>1. \A m : Sent(m) = SentIn(loop.out, m) /\ Received(m) = ReceivedIn(loop.out, m)
    BY DEF Sent, Received, SentIn, ReceivedIn
  <2>2. Netted(net) /\ Matched(net, loop) /\ DOMAIN net = Parties
    BY DEF LoopInv
  <2> HIDE DEF LoopInv
  <2>3. /\ \A k \in DOMAIN loop.out : loop.out[k].amount > 0 /\ loop.out[k].from # loop.out[k].to
        /\ \A k, l \in DOMAIN loop.out :
              loop.out[k].from = loop.out[l].from /\ loop.out[k].to = loop.out[l].to => k = l
        /\ {m \in DOMAIN net : net[m] # 0} # {}
              => Len(loop.out) < Cardinality({m \in DOMAIN net : net[m] # 0})
        /\ ~Matching(loop) =>
              \A m \in DOMAIN net :
                  /\ ReceivedIn(loop.out, m) - SentIn(loop.out, m) = net[m]
                  /\ ReceivedIn(loop.out, m) = 0 \/ SentIn(loop.out, m) = 0
    BY <2>2, MatchedSettles, Zenon
  <2>4. {m \in DOMAIN net : net[m] # 0} = {m \in Parties : net[m] # 0}
    BY <2>2
  <2> QED
    BY <2>1, <2>2, <2>3, <2>4 DEF PlanSettlesEverybody
<1> QED
  BY <1>1, LoopMatches, PTL

-----------------------------------------------------------------------------
(* MinTransfers, the loop as a whole, and the rows of computeSettlement.   *)

(* The loop after each number of turns. *)
Turned(s) == IF Matching(s) THEN Give(s) ELSE s
Turns(f, n, t) ==
    t = [k \in 0 .. n |-> IF k = 0 THEN StartMatching(f)
                          ELSE LET s == t[k - 1] IN IF Matching(s) THEN Give(s) ELSE s]

(* The turns MinTransfers counts are there to be counted.                  *)
LEMMA TurnsExist ==
    ASSUME NEW f, NEW N \in Nat PROVE \E t : Turns(f, N, t)
<1> DEFINE G == {n \in Nat : \E t : Turns(f, n, t)}
<1>1. 0 \in G
  <2> DEFINE t == [k \in 0 .. 0 |-> StartMatching(f)]
  <2>1. \A k \in 0 .. 0 : k = 0
    OBVIOUS
  <2>2. t = [k \in 0 .. 0 |-> IF k = 0 THEN StartMatching(f)
                               ELSE IF Matching(t[k - 1]) THEN Give(t[k - 1]) ELSE t[k - 1]]
    BY <2>1, Zenon
  <2> HIDE DEF t
  <2>3. Turns(f, 0, t)
    BY <2>2 DEF Turns
  <2> QED BY <2>3
<1>2. ASSUME NEW n \in Nat, n \in G PROVE n + 1 \in G
  <2>1. PICK t : Turns(f, n, t)
    BY <1>2
  <2> DEFINE u == [k \in 0 .. (n + 1) |-> IF k = n + 1 THEN Turned(t[n]) ELSE t[k]]
  <2>2. ASSUME NEW k \in 0 .. (n + 1)
        PROVE  u[k] = IF k = 0 THEN StartMatching(f)
                      ELSE IF Matching(u[k - 1]) THEN Give(u[k - 1]) ELSE u[k - 1]
    <3>1. CASE k = n + 1
      <4>1. k # 0 /\ k - 1 = n /\ n # n + 1 /\ n \in 0 .. (n + 1)
        BY <3>1
      <4>2. u[n] = t[n] /\ u[k] = Turned(t[n])
        BY <3>1, <4>1
      <4> HIDE DEF u
      <4> QED BY <4>1, <4>2 DEF Turned
    <3>2. CASE k = 0
      <4>1. u[k] = t[0] /\ 0 \in 0 .. n
        BY <3>2
      <4> HIDE DEF u
      <4>2. t[0] = StartMatching(f)
        BY <2>1, <4>1 DEF Turns
      <4> QED BY <3>2, <4>1, <4>2
    <3>3. CASE k # 0 /\ k # n + 1
      <4>1. k \in 0 .. n /\ k - 1 \in 0 .. n /\ k - 1 # n + 1 /\ k - 1 \in 0 .. (n + 1)
        BY <3>3
      <4>2. u[k] = t[k] /\ u[k - 1] = t[k - 1]
        BY <3>3, <4>1
      <4> HIDE DEF u
      <4>3. t[k] = IF k = 0 THEN StartMatching(f)
                   ELSE IF Matching(t[k - 1]) THEN Give(t[k - 1]) ELSE t[k - 1]
        BY <2>1, <4>1 DEF Turns
      <4> QED BY <3>3, <4>2, <4>3
    <3> QED BY <3>1, <3>2, <3>3
  <2>3. u = [k \in 0 .. (n + 1) |-> u[k]]
    OBVIOUS
  <2> HIDE DEF u
  <2>4. u = [k \in 0 .. (n + 1) |->
               IF k = 0 THEN StartMatching(f)
               ELSE IF Matching(u[k - 1]) THEN Give(u[k - 1]) ELSE u[k - 1]]
    BY <2>2, <2>3, Zenon
  <2>5. Turns(f, n + 1, u)
    BY <2>4 DEF Turns
  <2> QED BY <2>5
<1>3. Nat \subseteq G
  <2> HIDE DEF G
  <2> QED BY <1>1, <1>2, SetOfNatInduction
<1> QED
  BY <1>3

(* MinTransfers is what a loop that has stopped has written. *)
LEMMA MinTransfersMatches ==
    ASSUME NEW f, Netted(f)
    PROVE  \E s : Matched(f, s) /\ ~Matching(s) /\ MinTransfers(f) = s.out
<1> DEFINE N == Cardinality(DOMAIN f)
           t == CHOOSE t : Turns(f, N, t)
<1>1. N \in Nat
  BY FS_CardinalityType DEF Netted
<1>2. MinTransfers(f) = t[N].out
  BY DEF MinTransfers, Turns
<1>3. Turns(f, N, t)
  <2>1. \E x : Turns(f, N, x)
    BY <1>1, TurnsExist
  <2> QED BY <2>1
<1> HIDE DEF N, t
<1> DEFINE G == {n \in Nat : n <= N => /\ Matched(f, t[n])
                                       /\ Matching(t[n]) => Len(t[n].out) = n}
<1>4. 0 \in G
  <2>1. t[0] = StartMatching(f)
    BY <1>1, <1>3 DEF Turns
  <2>2. Matched(f, t[0])
    BY <2>1, StartMatched
  <2>3. Len(t[0].out) = 0
    BY <2>1 DEF StartMatching
  <2> QED BY <2>2, <2>3
<1>5. ASSUME NEW n \in Nat, n \in G PROVE n + 1 \in G
  <2> SUFFICES ASSUME n + 1 <= N
               PROVE  Matched(f, t[n + 1]) /\ (Matching(t[n + 1]) => Len(t[n + 1].out) = n + 1)
    OBVIOUS
  <2>1. t[n + 1] = IF Matching(t[n]) THEN Give(t[n]) ELSE t[n]
    <3>1. n + 1 \in 0 .. N /\ n + 1 # 0 /\ (n + 1) - 1 = n
      BY <1>1
    <3>2. t[n + 1] = IF n + 1 = 0 THEN StartMatching(f)
                     ELSE IF Matching(t[(n + 1) - 1]) THEN Give(t[(n + 1) - 1])
                     ELSE t[(n + 1) - 1]
      BY <1>3, <3>1 DEF Turns
    <3> QED BY <3>1, <3>2
  <2>2. Matched(f, t[n]) /\ (Matching(t[n]) => Len(t[n].out) = n)
    BY <1>1, <1>5
  <2>3. CASE Matching(t[n])
    BY <2>1, <2>2, <2>3, GiveMatched
  <2>4. CASE ~Matching(t[n])
    BY <2>1, <2>2, <2>4
  <2> QED BY <2>3, <2>4
<1>6. N \in G
  <2>1. Nat \subseteq G
    <3> HIDE DEF G
    <3> QED BY <1>4, <1>5, SetOfNatInduction
  <2> QED BY <1>1, <2>1
<1>7. Matched(f, t[N]) /\ (Matching(t[N]) => Len(t[N].out) = N)
  BY <1>1, <1>6
<1>8. Matching(t[N]) => Len(t[N].out) < N
  BY <1>7, MatchedSettles DEF N
<1>9. ~Matching(t[N])
  BY <1>1, <1>7, <1>8
<1> QED
  BY <1>2, <1>7, <1>9

(* What a plan for nets f has to be: rows settlement_transfers accepts,    *)
(* fewer than the members to settle, which leave everybody even, nobody    *)
(* having both sent and received.                                          *)
SettlesNets(f, out) ==
    /\ out \in Seq(Rows(f))
    /\ \A k \in DOMAIN out : out[k].amount > 0 /\ out[k].from # out[k].to
    /\ \A k, l \in DOMAIN out :
          out[k].from = out[l].from /\ out[k].to = out[l].to => k = l
    /\ {m \in DOMAIN f : f[m] # 0} # {}
          => Len(out) < Cardinality({m \in DOMAIN f : f[m] # 0})
    /\ \A m \in DOMAIN f :
          /\ ReceivedIn(out, m) - SentIn(out, m) = f[m]
          /\ ReceivedIn(out, m) = 0 \/ SentIn(out, m) = 0

(* minTransfers, called with nets that cancel, returns such a plan.        *)
THEOREM MinTransfersSettles ==
    ASSUME NEW f, Netted(f) PROVE SettlesNets(f, MinTransfers(f))
<1>1. PICK s : Matched(f, s) /\ ~Matching(s) /\ MinTransfers(f) = s.out
  BY MinTransfersMatches
<1>2. SettlesNets(f, s.out)
  BY <1>1, MatchedSettles DEF SettlesNets
<1> QED
  BY <1>1, <1>2

(* Nets are integers, one for each member.                                 *)
LEMMA NetsTyped ==
    ASSUME NEW i, NEW amt, Charged(i, amt), ValidRefunds(i, amt), NEW members
    PROVE  DOMAIN Nets(i, amt, members) = members
           /\ \A m \in members : Nets(i, amt, members)[m] \in Int
<1> SUFFICES ASSUME NEW m \in members PROVE PaidBy(i, amt, m) - ShareOf(i, amt, m) \in Int
  BY DEF Nets
<1>1. PaidBy(i, amt, m) \in Int
  <2> DEFINE P == {id \in DOMAIN i : i[id].paid_by = m}
  <2>1. IsFiniteSet(P) /\ \A id \in P : amt[id] \in Int
    BY FS_Subset DEF Charged
  <2> HIDE DEF P
  <2>2. SumFunctionOnSet(amt, P) \in Int
    BY <2>1, SumType
  <2> QED
    BY <2>2 DEF PaidBy, P
<1>2. ShareOf(i, amt, m) \in Int
  <2> DEFINE A == BorneBy(i, m)
             borne == [id \in A |-> Burden(i, amt, id)[m]]
  <2>1. /\ IsFiniteSet(A) /\ \A id \in A : Burden(i, amt, id)[m] \in Int
        /\ ShareOf(i, amt, m) = SumFunctionOnSet(borne, A)
    BY ShareIsBorne
  <2>2. \A id \in A : borne[id] \in Int
    BY <2>1
  <2> HIDE DEF A, borne
  <2> QED BY <2>1, <2>2, SumType
<1> QED
  BY <1>1, <1>2

(* Both axes hand minTransfers nets that cancel.                           *)
LEMMA AxesNetted ==
    ASSUME NEW i, WellFormed(i), Settleable(i)
    PROVE  /\ Netted(SettlementNets(i)) /\ DOMAIN SettlementNets(i) = MembersOf(i)
           /\ \A ccy \in LocalCurrencies(i) :
                 Netted(LocalNets(i, ccy)) /\ DOMAIN LocalNets(i, ccy) = MembersOf(i)
<1>1. IsFiniteSet(MembersOf(i)) /\ MembersOf(i) \in SUBSET Int
  BY MembersFinite
<1>2. Netted(SettlementNets(i)) /\ DOMAIN SettlementNets(i) = MembersOf(i)
  <2>1. ValidRefunds(i, SettlementAmounts(i))
    BY DEF Settleable
  <2>2. /\ DOMAIN SettlementNets(i) = MembersOf(i)
        /\ \A m \in MembersOf(i) : SettlementNets(i)[m] \in Int
    BY <2>1, SettlementCharged, NetsTyped DEF SettlementNets
  <2> QED
    BY <1>1, <2>2, SettleableNetsCancel DEF Netted
<1>3. ASSUME NEW ccy \in LocalCurrencies(i)
      PROVE  Netted(LocalNets(i, ccy)) /\ DOMAIN LocalNets(i, ccy) = MembersOf(i)
  <2> DEFINE part == LocalPart(i, ccy)
  <2>1. ValidRefunds(part, LocalAmounts(part))
    BY DEF Settleable
  <2>2. Charged(part, LocalAmounts(part))
    BY LocalCharged
  <2>3. LocalNets(i, ccy) = Nets(part, LocalAmounts(part), MembersOf(i))
    BY DEF LocalNets
  <2> HIDE DEF part
  <2>4. /\ DOMAIN LocalNets(i, ccy) = MembersOf(i)
        /\ \A m \in MembersOf(i) : LocalNets(i, ccy)[m] \in Int
    BY <2>1, <2>2, <2>3, NetsTyped
  <2>5. SumFunction(LocalNets(i, ccy)) = 0
    BY SettleableNetsCancel
  <2> QED
    BY <1>1, <2>4, <2>5 DEF Netted
<1> QED
  BY <1>2, <1>3

(* Both axes of a settlement. *)
THEOREM SettlementSettles ==
    ASSUME NEW i, WellFormed(i), Settleable(i)
    PROVE  /\ SettlesNets(SettlementNets(i), MinTransfers(SettlementNets(i)))
           /\ \A ccy \in LocalCurrencies(i) :
                 SettlesNets(LocalNets(i, ccy), MinTransfers(LocalNets(i, ccy)))
  BY AxesNetted, MinTransfersSettles

(* The rows of one axis.                                                   *)
LEMMA AxisRows ==
    ASSUME NEW f, NEW out, SettlesNets(f, out), NEW basis, NEW ccy
    PROVE  /\ \A row \in OnAxis(basis, ccy, out) :
                 /\ row.basis = basis /\ row.currency = ccy
                 /\ row.from \in DOMAIN f /\ row.to \in DOMAIN f /\ row.from # row.to
                 /\ row.amount \in Nat \ {0}
           /\ \A r, s \in OnAxis(basis, ccy, out) : r.from = s.from /\ r.to = s.to => r = s
<1>1. \A k \in DOMAIN out : out[k] \in Rows(f)
  <2> DEFINE R == Rows(f)
  <2>1. out \in Seq(R)
    BY DEF SettlesNets
  <2> HIDE DEF R
  <2>2. \A k \in DOMAIN out : out[k] \in R
    BY <2>1, LenProperties, ElementOfSeq
  <2> QED BY <2>2 DEF R
<1>2. \A k \in DOMAIN out : /\ out[k].from \in DOMAIN f /\ out[k].to \in DOMAIN f
                            /\ out[k].from # out[k].to /\ out[k].amount \in Nat \ {0}
  BY <1>1 DEF SettlesNets, Rows, Debtors, Creditors
<1>3. ASSUME NEW row \in OnAxis(basis, ccy, out)
      PROVE  \E k \in DOMAIN out :
                row = [basis |-> basis, currency |-> ccy, from |-> out[k].from,
                       to |-> out[k].to, amount |-> out[k].amount]
  BY DEF OnAxis, Range
<1>4. ASSUME NEW row \in OnAxis(basis, ccy, out)
      PROVE  /\ row.basis = basis /\ row.currency = ccy
             /\ row.from \in DOMAIN f /\ row.to \in DOMAIN f /\ row.from # row.to
             /\ row.amount \in Nat \ {0}
  <2>1. PICK k \in DOMAIN out :
              row = [basis |-> basis, currency |-> ccy, from |-> out[k].from,
                     to |-> out[k].to, amount |-> out[k].amount]
    BY <1>3
  <2> QED
    BY <1>2, <2>1
<1>5. ASSUME NEW r \in OnAxis(basis, ccy, out), NEW s \in OnAxis(basis, ccy, out),
             r.from = s.from, r.to = s.to
      PROVE  r = s
  <2>1. PICK k \in DOMAIN out :
              r = [basis |-> basis, currency |-> ccy, from |-> out[k].from,
                   to |-> out[k].to, amount |-> out[k].amount]
    BY <1>3
  <2>2. PICK l \in DOMAIN out :
              s = [basis |-> basis, currency |-> ccy, from |-> out[l].from,
                   to |-> out[l].to, amount |-> out[l].amount]
    BY <1>3
  <2>3. k = l
    BY <1>5, <2>1, <2>2 DEF SettlesNets
  <2> QED
    BY <2>1, <2>2, <2>3
<1> QED
  BY <1>4, <1>5

(* The rows finalize inserts pass the checks of settlement_transfers.      *)
THEOREM ComputedRowsAccepted ==
    ASSUME NEW i, WellFormed(i), Settleable(i)
    PROVE  /\ \A row \in ComputeSettlement(i) :
                 /\ row.from \in MembersOf(i) /\ row.to \in MembersOf(i)
                 /\ row.from # row.to /\ row.amount \in Nat \ {0}
           /\ \A r, s \in ComputeSettlement(i) :
                 /\ r.basis = s.basis /\ r.currency = s.currency
                 /\ r.from = s.from /\ r.to = s.to
                 => r = s
<1> DEFINE M == MembersOf(i)
           onSettlement ==
               [id \in DOMAIN i |->
                  OnAxis("settlement", i[id].settlement.currency,
                         MinTransfers(SettlementNets(i)))]
           onLocal == [ccy \in LocalCurrencies(i) |->
                         OnAxis("local", ccy, MinTransfers(LocalNets(i, ccy)))]
<1>1. ASSUME NEW id \in DOMAIN i
      PROVE  /\ \A row \in onSettlement[id] :
                   /\ row.basis = "settlement" /\ row.from \in M /\ row.to \in M
                   /\ row.from # row.to /\ row.amount \in Nat \ {0}
             /\ \A r, s \in onSettlement[id] : r.from = s.from /\ r.to = s.to => r = s
  <2>1. SettlesNets(SettlementNets(i), MinTransfers(SettlementNets(i)))
        /\ DOMAIN SettlementNets(i) = M
    BY SettlementSettles, AxesNetted
  <2> QED
    BY <2>1, AxisRows
<1>2. ASSUME NEW ccy \in LocalCurrencies(i)
      PROVE  /\ \A row \in onLocal[ccy] :
                   /\ row.basis = "local" /\ row.currency = ccy
                   /\ row.from \in M /\ row.to \in M
                   /\ row.from # row.to /\ row.amount \in Nat \ {0}
             /\ \A r, s \in onLocal[ccy] : r.from = s.from /\ r.to = s.to => r = s
  <2>1. SettlesNets(LocalNets(i, ccy), MinTransfers(LocalNets(i, ccy)))
        /\ DOMAIN LocalNets(i, ccy) = M
    BY SettlementSettles, AxesNetted
  <2> QED
    BY <2>1, AxisRows
<1>3. \A a, b \in DOMAIN i : onSettlement[a] = onSettlement[b]
  BY DEF Settleable
<1>4. \A row \in ComputeSettlement(i) :
         \/ \E id \in DOMAIN i : row \in onSettlement[id]
         \/ \E ccy \in LocalCurrencies(i) : row \in onLocal[ccy]
  <2> SUFFICES ASSUME NEW row \in ComputeSettlement(i)
               PROVE  \/ \E id \in DOMAIN i : row \in onSettlement[id]
                      \/ \E ccy \in LocalCurrencies(i) : row \in onLocal[ccy]
    OBVIOUS
  <2>1. \/ \E id \in DOMAIN i : row \in OnAxis("settlement", i[id].settlement.currency,
                                             MinTransfers(SettlementNets(i)))
        \/ \E ccy \in LocalCurrencies(i) :
              row \in OnAxis("local", ccy, MinTransfers(LocalNets(i, ccy)))
    BY DEF ComputeSettlement
  <2> QED BY <2>1
<1> HIDE DEF onSettlement, onLocal, M
<1>5. ASSUME NEW row \in ComputeSettlement(i)
      PROVE  row.from \in M /\ row.to \in M /\ row.from # row.to /\ row.amount \in Nat \ {0}
  <2>1. CASE \E id \in DOMAIN i : row \in onSettlement[id]
    BY <1>1, <2>1
  <2>2. CASE \E ccy \in LocalCurrencies(i) : row \in onLocal[ccy]
    BY <1>2, <2>2
  <2> QED BY <1>4, <2>1, <2>2
<1>6. ASSUME NEW r \in ComputeSettlement(i), NEW s \in ComputeSettlement(i),
             r.basis = s.basis, r.currency = s.currency, r.from = s.from, r.to = s.to
      PROVE  r = s
  <2>1. CASE \E id \in DOMAIN i : r \in onSettlement[id]
    <3>1. PICK id \in DOMAIN i : r \in onSettlement[id]
      BY <2>1
    <3>2. r.basis = "settlement"
      BY <1>1, <3>1
    <3>3. ~ \E ccy \in LocalCurrencies(i) : s \in onLocal[ccy]
      <4>1. s.basis # "local"
        BY <1>6, <3>2
      <4> QED BY <1>2, <4>1
    <3>4. s \in onSettlement[id]
      BY <1>3, <1>4, <3>1, <3>3
    <3> QED
      BY <1>1, <1>6, <3>1, <3>4
  <2>2. CASE \E ccy \in LocalCurrencies(i) : r \in onLocal[ccy]
    <3>1. PICK ccy \in LocalCurrencies(i) : r \in onLocal[ccy]
      BY <2>2
    <3>2. r.basis = "local" /\ r.currency = ccy
      BY <1>2, <3>1
    <3>3. ~ \E id \in DOMAIN i : s \in onSettlement[id]
      <4>1. s.basis # "settlement"
        BY <1>6, <3>2
      <4> QED BY <1>1, <4>1
    <3>4. PICK other \in LocalCurrencies(i) : s \in onLocal[other]
      BY <1>4, <3>3
    <3>5. other = ccy
      BY <1>2, <1>6, <3>2, <3>4
    <3> QED
      BY <1>2, <1>6, <3>1, <3>4, <3>5
  <2> QED BY <1>4, <2>1, <2>2
<1> QED
  BY <1>5, <1>6 DEF M
=============================================================================
