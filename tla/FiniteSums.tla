----------------------------- MODULE FiniteSums -----------------------------
(***************************************************************************)
(* Sums over finite sets, as MapThenSumSet of the community modules takes  *)
(* them: an element after the other, in the order CHOOSE picks them.       *)
(*                                                                         *)
(* The facts below are inductions over the size of the set.  Each is led   *)
(* by a least counterexample (LeastSubset): the induction theorems of the  *)
(* library take an operator as a parameter, this one is first-order.       *)
(***************************************************************************)
EXTENDS Integers, FiniteSetsExt, FiniteSetTheorems, WellFoundedInduction, TLAPS

Pick(s) == CHOOSE x \in s : TRUE

\* g sums f over every subset of S.
Sums(g, f, S) ==
    g = [s \in SUBSET S |-> IF s = {} THEN 0 ELSE f[Pick(s)] + g[s \ {Pick(s)}]]

SumOn(f, S) == (CHOOSE g : Sums(g, f, S))[S]

\* The element picked from a set is one of its own.
LEMMA PickIn == \A s : s # {} => Pick(s) \in s
BY DEF Pick

\* Among subsets of a finite set that go wrong, one is least.
LEMMA LeastSubset ==
    ASSUME NEW S, IsFiniteSet(S), NEW B \in SUBSET (SUBSET S), B # {}
    PROVE  \E T \in B : \A U \in B : ~(U \subseteq T /\ U # T)
<1>1. IsWellFoundedOn(StrictSubsetOrdering(S), SUBSET S)
    BY FS_StrictSubsetOrderingWellFounded, FS_FiniteSubsetsOfFinite
<1>2. PICK T \in B : \A U \in B : ~(<<U, T>> \in StrictSubsetOrdering(S))
    BY <1>1, WFMin
<1> QED
    BY <1>2 DEF StrictSubsetOrdering

\* What is summed decides the sum, whatever larger set the summation is part of.
LEMMA SumsAgree ==
    ASSUME NEW S, NEW V, NEW f, NEW h, NEW g, NEW k, Sums(g, f, S), Sums(k, h, V),
           NEW T \in SUBSET S, T \in SUBSET V, IsFiniteSet(T), \A x \in T : f[x] = h[x]
    PROVE  g[T] = k[T]
<1>0. PICK B : B = {U \in SUBSET T : g[U] # k[U]}
    OBVIOUS
<1>1. SUFFICES ASSUME B # {} PROVE FALSE
    BY <1>0
<1>2. PICK U \in B : \A W \in B : ~(W \subseteq U /\ W # U)
    <2>1. B \in SUBSET (SUBSET T)
        BY <1>0
    <2> QED
        BY <1>1, <2>1, LeastSubset
<1>3. U \in SUBSET T /\ U \in SUBSET S /\ U \in SUBSET V /\ g[U] # k[U]
    BY <1>0
<1>4. g[U] = IF U = {} THEN 0 ELSE f[Pick(U)] + g[U \ {Pick(U)}]
    BY <1>3 DEF Sums
<1>5. k[U] = IF U = {} THEN 0 ELSE h[Pick(U)] + k[U \ {Pick(U)}]
    BY <1>3 DEF Sums
<1>6. CASE U = {}
    BY <1>3, <1>4, <1>5, <1>6
<1>7. CASE U # {}
    <2>1. PICK x \in U : x = Pick(U)
        BY <1>7, PickIn
    <2>2. f[x] = h[x]
        BY <1>3, <2>1
    <2>3. U \ {x} \notin B
        BY <1>2, <2>1
    <2>4. g[U \ {x}] = k[U \ {x}]
        BY <1>0, <1>3, <2>3
    <2> QED
        BY <1>3, <1>4, <1>5, <1>7, <2>1, <2>2, <2>4
<1> QED
    BY <1>6, <1>7

\* Every finite set can be summed over.
LEMMA SumsExist ==
    ASSUME NEW S, NEW f, IsFiniteSet(S)
    PROVE  \E g : Sums(g, f, S)
<1>0. PICK B : B = {T \in SUBSET S : ~\E g : Sums(g, f, T)}
    OBVIOUS
<1>1. SUFFICES ASSUME B # {} PROVE FALSE
    BY <1>0
<1>2. PICK T \in B : \A U \in B : ~(U \subseteq T /\ U # T)
    <2>1. B \in SUBSET (SUBSET S)
        BY <1>0
    <2> QED
        BY <1>1, <2>1, LeastSubset
<1>3. T \in SUBSET S /\ \A U \in SUBSET T : U # T => \E g : Sums(g, f, U)
    <2>1. T \in SUBSET S
        BY <1>0
    <2>2. ASSUME NEW U \in SUBSET T, U # T PROVE \E g : Sums(g, f, U)
        <3>1. U \in SUBSET S /\ U \notin B
            BY <1>2, <2>1, <2>2
        <3> QED
            BY <1>0, <3>1
    <2> QED
        BY <2>1, <2>2
<1> DEFINE G(U) == CHOOSE g : Sums(g, f, U)
           g == [s \in SUBSET T |->
                   IF s = {} THEN 0 ELSE f[Pick(s)] + G(s \ {Pick(s)})[s \ {Pick(s)}]]
<1>4. \A U \in SUBSET T : U # T => Sums(G(U), f, U)
    BY <1>3
<1> HIDE DEF G
<1>5. ASSUME NEW s \in SUBSET T, s # {} PROVE g[s \ {Pick(s)}] = G(s \ {Pick(s)})[s \ {Pick(s)}]
    <2>1. PICK u : u = s \ {Pick(s)}
        OBVIOUS
    <2>2. u \in SUBSET T /\ u # T
        BY <1>5, <2>1, PickIn
    <2>3. Sums(G(u), f, u)
        BY <1>4, <2>2
    <2>4. CASE u = {}
        <3>1. G(u)[u] = 0
            BY <2>3, <2>4 DEF Sums
        <3> QED
            BY <2>1, <2>2, <2>4, <3>1
    <2>5. CASE u # {}
        <3>1. PICK w, x : x = Pick(u) /\ w = u \ {x}
            OBVIOUS
        <3>2. w \in SUBSET T /\ w # T /\ w \in SUBSET u
            BY <2>2, <2>5, <3>1, PickIn
        <3>3. Sums(G(w), f, w)
            BY <1>4, <3>2
        <3>4. IsFiniteSet(w)
            BY <1>3, <3>2, FS_Subset
        <3>5. G(u)[w] = G(w)[w]
            BY <2>3, <3>2, <3>3, <3>4, SumsAgree
        <3>6. G(u)[u] = f[x] + G(u)[w]
            BY <2>3, <2>5, <3>1 DEF Sums
        <3>7. g[u] = f[x] + G(w)[w]
            BY <2>2, <2>5, <3>1
        <3> QED
            BY <2>1, <3>5, <3>6, <3>7
    <2> QED
        BY <2>4, <2>5
<1>6. Sums(g, f, T)
    <2>1. [s \in SUBSET T |-> IF s = {} THEN 0 ELSE f[Pick(s)] + g[s \ {Pick(s)}]]
            = [s \in SUBSET T |->
                 IF s = {} THEN 0 ELSE f[Pick(s)] + G(s \ {Pick(s)})[s \ {Pick(s)}]]
        BY <1>5
    <2> QED
        BY <2>1 DEF Sums
<1>7. ~\E k : Sums(k, f, T)
    BY <1>0
<1> HIDE DEF g
<1> QED
    BY <1>6, <1>7

\* The sum over a finite set is what any summation that reaches it says.
LEMMA SumIs ==
    ASSUME NEW S, NEW f, NEW V, NEW h, NEW g, IsFiniteSet(S),
           Sums(g, h, V), S \in SUBSET V, \A x \in S : f[x] = h[x]
    PROVE  SumOn(f, S) = g[S]
<1>1. Sums(CHOOSE k : Sums(k, f, S), f, S)
    BY SumsExist
<1> QED
    BY <1>1, SumsAgree DEF SumOn

\* A sum depends on the values at the elements only.
LEMMA SumEqual ==
    ASSUME NEW S, NEW f, NEW h, IsFiniteSet(S), \A x \in S : f[x] = h[x]
    PROVE  SumOn(f, S) = SumOn(h, S)
<1>1. Sums(CHOOSE k : Sums(k, h, S), h, S)
    BY SumsExist
<1> QED
    BY <1>1, SumIs DEF SumOn

\* Nothing sums to zero.
LEMMA SumEmpty == ASSUME NEW f PROVE SumOn(f, {}) = 0
<1>1. PICK g : Sums(g, f, {})
    BY SumsExist, FS_EmptySet
<1>2. g[{}] = 0
    BY <1>1 DEF Sums
<1> QED
    BY <1>1, <1>2, SumIs, FS_EmptySet

\* The element picked first.
LEMMA SumPick ==
    ASSUME NEW S, NEW f, IsFiniteSet(S), S # {}
    PROVE  SumOn(f, S) = f[Pick(S)] + SumOn(f, S \ {Pick(S)})
<1>1. PICK g : Sums(g, f, S)
    BY SumsExist
<1>2. IsFiniteSet(S \ {Pick(S)})
    BY FS_RemoveElement
<1>3. SumOn(f, S) = g[S] /\ SumOn(f, S \ {Pick(S)}) = g[S \ {Pick(S)}]
    BY <1>1, <1>2, SumIs
<1>4. g[S] = f[Pick(S)] + g[S \ {Pick(S)}]
    BY <1>1 DEF Sums
<1> QED
    BY <1>3, <1>4

\* Integers sum to an integer.
LEMMA SumInt ==
    ASSUME NEW S, NEW f, IsFiniteSet(S), \A x \in S : f[x] \in Int
    PROVE  SumOn(f, S) \in Int
<1>0. PICK B : B = {T \in SUBSET S : SumOn(f, T) \notin Int}
    OBVIOUS
<1>1. SUFFICES ASSUME B # {} PROVE FALSE
    BY <1>0
<1>2. PICK T \in B : \A U \in B : ~(U \subseteq T /\ U # T)
    <2>1. B \in SUBSET (SUBSET S)
        BY <1>0
    <2> QED
        BY <1>1, <2>1, LeastSubset
<1>3. IsFiniteSet(T) /\ T # {} /\ T \in SUBSET S
    <2>1. T \in SUBSET S /\ SumOn(f, T) \notin Int
        BY <1>0
    <2>2. T # {}
        BY <2>1, SumEmpty
    <2> QED
        BY <2>1, <2>2, FS_Subset
<1>4. Pick(T) \in T
    BY <1>3, PickIn
<1>5. SumOn(f, T \ {Pick(T)}) \in Int /\ f[Pick(T)] \in Int
    <2>1. T \ {Pick(T)} \notin B
        BY <1>2, <1>4
    <2> QED
        BY <1>0, <1>3, <1>4, <2>1
<1>6. SumOn(f, T) \in Int
    <2>1. SumOn(f, T) = f[Pick(T)] + SumOn(f, T \ {Pick(T)})
        BY <1>3, SumPick
    <2> QED
        BY <1>5, <2>1
<1> QED
    BY <1>0, <1>6

\* Any element may be taken first.
LEMMA SumTake ==
    ASSUME NEW S, NEW f, IsFiniteSet(S), \A x \in S : f[x] \in Int, NEW y \in S
    PROVE  SumOn(f, S) = f[y] + SumOn(f, S \ {y})
<1>0. PICK B : B = {T \in SUBSET S : \E x \in T : SumOn(f, T) # f[x] + SumOn(f, T \ {x})}
    OBVIOUS
<1>1. SUFFICES ASSUME B # {} PROVE FALSE
    BY <1>0
<1>2. PICK T \in B : \A U \in B : ~(U \subseteq T /\ U # T)
    <2>1. B \in SUBSET (SUBSET S)
        BY <1>0
    <2> QED
        BY <1>1, <2>1, LeastSubset
<1>3. PICK x \in T : SumOn(f, T) # f[x] + SumOn(f, T \ {x})
    BY <1>0
<1>4. IsFiniteSet(T) /\ T \in SUBSET S
    BY <1>0, FS_Subset
<1>5. PICK p \in T : p = Pick(T)
    BY <1>3, PickIn
<1>6. SumOn(f, T) = f[p] + SumOn(f, T \ {p})
    BY <1>3, <1>4, <1>5, SumPick
<1>7. x # p
    BY <1>3, <1>6
<1>8. ASSUME NEW a \in T, NEW b \in T, a # b
      PROVE  SumOn(f, T \ {a}) = f[b] + SumOn(f, (T \ {a}) \ {b})
    <2>1. T \ {a} \notin B /\ T \ {a} \in SUBSET S /\ b \in T \ {a}
        BY <1>2, <1>4, <1>8
    <2> QED
        BY <1>0, <2>1
<1>9. PICK c : c = SumOn(f, (T \ {x}) \ {p})
    OBVIOUS
<1>10. c \in Int /\ f[x] \in Int /\ f[p] \in Int
    <2>1. IsFiniteSet((T \ {x}) \ {p})
        BY <1>4, FS_Subset
    <2> QED
        BY <1>4, <1>9, <2>1, SumInt
<1>11. (T \ {p}) \ {x} = (T \ {x}) \ {p}
    OBVIOUS
<1>12. SumOn(f, T \ {p}) = f[x] + c /\ SumOn(f, T \ {x}) = f[p] + c
    BY <1>7, <1>8, <1>9, <1>11
<1> QED
    BY <1>3, <1>6, <1>10, <1>12

\* Elements that count for nothing may be left out.
LEMMA SumZeros ==
    ASSUME NEW S, NEW f, IsFiniteSet(S), \A x \in S : f[x] \in Int, NEW T \in SUBSET S,
           \A x \in S \ T : f[x] = 0
    PROVE  SumOn(f, S) = SumOn(f, T)
<1>0. PICK B : B = {U \in SUBSET S : T \subseteq U /\ SumOn(f, U) # SumOn(f, T)}
    OBVIOUS
<1>1. SUFFICES ASSUME B # {} PROVE FALSE
    BY <1>0
<1>2. PICK U \in B : \A V \in B : ~(V \subseteq U /\ V # U)
    <2>1. B \in SUBSET (SUBSET S)
        BY <1>0
    <2> QED
        BY <1>1, <2>1, LeastSubset
<1>3. IsFiniteSet(U) /\ U \in SUBSET S /\ T \subseteq U /\ SumOn(f, U) # SumOn(f, T)
    BY <1>0, FS_Subset
<1>4. PICK x \in U : x \notin T
    BY <1>3
<1>5. SumOn(f, U \ {x}) = SumOn(f, T)
    <2>1. U \ {x} \notin B
        BY <1>2, <1>4
    <2> QED
        BY <1>0, <1>3, <1>4, <2>1
<1>6. SumOn(f, U) = f[x] + SumOn(f, U \ {x})
    BY <1>3, SumTake
<1>7. SumOn(f, U \ {x}) \in Int
    <2>1. IsFiniteSet(U \ {x})
        BY <1>3, FS_Subset
    <2> QED
        BY <1>3, <2>1, SumInt
<1>8. f[x] = 0
    BY <1>3, <1>4
<1> QED
    BY <1>3, <1>5, <1>6, <1>7, <1>8

\* Disjoint sets together have as many elements as all of them have.
LEMMA SumCards ==
    ASSUME NEW S, NEW D, IsFiniteSet(S), \A p \in S : IsFiniteSet(D[p]),
           \A p, q \in S : p # q => D[p] \cap D[q] = {}, NEW c, \A p \in S : c[p] = Cardinality(D[p]),
           NEW V, V = UNION {D[p] : p \in S}
    PROVE  IsFiniteSet(V) /\ SumOn(c, S) = Cardinality(V)
<1> DEFINE All(T) == UNION {D[p] : p \in T}
           Fine(T) == IsFiniteSet(All(T)) /\ SumOn(c, T) = Cardinality(All(T))
<1>0. PICK B : B = {T \in SUBSET S : ~Fine(T)}
    OBVIOUS
<1>1. SUFFICES ASSUME B # {} PROVE FALSE
    BY <1>0
<1>2. PICK T \in B : \A U \in B : ~(U \subseteq T /\ U # T)
    <2>1. B \in SUBSET (SUBSET S)
        BY <1>0
    <2> QED
        BY <1>1, <2>1, LeastSubset
<1>3. T \in SUBSET S /\ IsFiniteSet(T) /\ ~Fine(T)
    <2>1. T \in SUBSET S /\ ~Fine(T)
        BY <1>0
    <2> QED
        BY <2>1, FS_Subset
<1>4. PICK p : p \in T
    <2>1. CASE T = {}
        <3>1. All(T) = {}
            BY <2>1
        <3>2. SumOn(c, T) = 0
            BY <2>1, SumEmpty
        <3> QED
            BY <1>3, <3>1, <3>2, FS_EmptySet
    <2> QED
        BY <2>1
<1>5. PICK U : U = T \ {p}
    OBVIOUS
<1>6. U \in SUBSET S /\ IsFiniteSet(U) /\ Fine(U)
    <2>1. U \in SUBSET S /\ U \notin B
        BY <1>2, <1>3, <1>4, <1>5
    <2>2. IsFiniteSet(U)
        BY <1>3, <1>5, FS_Subset
    <2> QED
        BY <1>0, <2>1, <2>2
<1>7. IsFiniteSet(D[p]) /\ c[p] = Cardinality(D[p]) /\ \A q \in S : c[q] \in Int
    <2>1. \A q \in S : Cardinality(D[q]) \in Nat
        BY FS_CardinalityType
    <2> QED
        BY <1>3, <1>4, <2>1
<1>8. All(T) = All(U) \cup D[p] /\ All(U) \cap D[p] = {}
    BY <1>3, <1>4, <1>5
<1>9. SumOn(c, T) = c[p] + SumOn(c, U)
    <2>1. \A q \in T : c[q] \in Int
        BY <1>3, <1>7
    <2> QED
        BY <1>3, <1>4, <1>5, <2>1, SumTake
<1>10. IsFiniteSet(All(T)) /\ Cardinality(All(T)) = Cardinality(All(U)) + Cardinality(D[p])
    <2>1. PICK A, C : A = All(U) /\ C = D[p]
        OBVIOUS
    <2>2. IsFiniteSet(A) /\ IsFiniteSet(C) /\ A \cap C = {} /\ All(T) = A \cup C
        BY <1>6, <1>7, <1>8, <2>1
    <2>3. IsFiniteSet(A \cup C) /\ Cardinality(A \cup C) = Cardinality(A) + Cardinality(C)
        <3>1. Cardinality(A \cap C) = 0 /\ Cardinality(A) \in Nat /\ Cardinality(C) \in Nat
            BY <2>2, FS_EmptySet, FS_CardinalityType
        <3>2. /\ IsFiniteSet(A \cup C)
              /\ Cardinality(A \cup C) = Cardinality(A) + Cardinality(C) - Cardinality(A \cap C)
            BY <2>2, FS_Union, Zenon
        <3> QED
            BY <3>1, <3>2
    <2> QED
        BY <2>1, <2>2, <2>3
<1>11. Cardinality(All(U)) \in Nat /\ Cardinality(D[p]) \in Nat
    BY <1>6, <1>7, FS_CardinalityType
<1> HIDE DEF All
<1> QED
    BY <1>3, <1>6, <1>7, <1>9, <1>10, <1>11
=============================================================================
