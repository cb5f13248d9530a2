---------------------------- MODULE SumTheorems ----------------------------
(***************************************************************************)
(* What SumFunctionOnSet of module Functions computes: the sum over a set  *)
(* is the value of any one element plus the sum over the others.  The      *)
(* operator is a recursive function on the subsets of the set; that it     *)
(* exists, is unique and does not depend on the order is shown by least    *)
(* counterexamples among the sizes of the subsets.                         *)
(***************************************************************************)
EXTENDS FiniteSetsExt, FiniteSetTheorems, TLAPS

\* A set of natural numbers that is not empty has a least element.
LEMMA LeastNat ==
    ASSUME NEW T \in SUBSET Nat, T # {}
    PROVE  \E m \in T : \A n \in T : m <= n
<1>1. PICK x \in T : \A y \in T : ~(<<y, x>> \in OpToRel(<, Nat))
  BY NatLessThanWellFounded, WFMin, Zenon
<1>2. \A y \in T : ~(y < x)
  BY <1>1, Zenon DEF OpToRel
<1> QED
  BY <1>2

\* The recursion: what it picks, one unrolling, and the function it defines.
Picked(s) == CHOOSE y \in s : TRUE

Unrolling(g, F, s) == IF s = {} THEN 0 ELSE g[Picked(s)] + F[s \ {Picked(s)}]

Sums(g, S, F) == F = [s \in SUBSET S |-> Unrolling(g, F, s)]

Iter(g, S) == CHOOSE F : Sums(g, S, F)

LEMMA SumIsIter ==
    ASSUME NEW g, NEW S
    PROVE  SumFunctionOnSet(g, S) = Iter(g, S)[S]
BY DEF SumFunctionOnSet, FoldFunctionOnSet, MapThenFoldSet, Iter, Sums, Unrolling, Picked

\* The subsets of a finite set, and what is left of one without its picked element.
LEMMA Smaller ==
    ASSUME NEW S, IsFiniteSet(S), NEW s \in SUBSET S
    PROVE  /\ IsFiniteSet(s) /\ Cardinality(s) \in Nat
           /\ s = {} <=> Cardinality(s) = 0
           /\ s # {} => Picked(s) \in s
           /\ \A x \in s : /\ s \ {x} \in SUBSET S
                           /\ Cardinality(s \ {x}) = Cardinality(s) - 1
<1>1. IsFiniteSet(s) /\ Cardinality(s) \in Nat
  BY FS_Subset, FS_CardinalityType
<1>2. s = {} <=> Cardinality(s) = 0
  BY <1>1, FS_EmptySet
<1>3. s # {} => Picked(s) \in s
  BY DEF Picked
<1>4. ASSUME NEW x \in s PROVE Cardinality(s \ {x}) = Cardinality(s) - 1
  BY <1>1, FS_RemoveElement
<1> QED
  BY <1>1, <1>2, <1>3, <1>4

\* The subsets of S with at most n elements.
UpTo(S, n) == {s \in SUBSET S : Cardinality(s) <= n}

SumsUpTo(g, S, n, F) ==
    F \in [UpTo(S, n) -> Int] /\ \A s \in UpTo(S, n) : F[s] = Unrolling(g, F, s)

LEMMA SumsGrow ==
    ASSUME NEW S, IsFiniteSet(S), NEW g, \A x \in S : g[x] \in Int, NEW n \in Nat, NEW F,
           SumsUpTo(g, S, n, F)
    PROVE  \E G : SumsUpTo(g, S, n + 1, G)
<1> DEFINE G == [s \in UpTo(S, n + 1) |-> Unrolling(g, F, s)]
<1>1. ASSUME NEW s \in UpTo(S, n + 1), s # {}
      PROVE  /\ g[Picked(s)] \in Int
             /\ s \ {Picked(s)} \in UpTo(S, n) /\ s \ {Picked(s)} \in UpTo(S, n + 1)
  <2>1. s \in SUBSET S /\ Cardinality(s) <= n + 1
    BY DEF UpTo
  <2>2. /\ Picked(s) \in s /\ Cardinality(s) \in Nat
        /\ s \ {Picked(s)} \in SUBSET S
        /\ Cardinality(s \ {Picked(s)}) = Cardinality(s) - 1
    BY <1>1, <2>1, Smaller
  <2> QED
    BY <2>1, <2>2 DEF UpTo
<1>2. ASSUME NEW s \in UpTo(S, n + 1) PROVE Unrolling(g, F, s) \in Int
  <2>1. CASE s = {}
    BY <2>1 DEF Unrolling
  <2>2. CASE s # {}
    <3>1. F[s \ {Picked(s)}] \in Int /\ g[Picked(s)] \in Int
      BY <1>1, <2>2 DEF SumsUpTo
    <3> QED
      BY <2>2, <3>1 DEF Unrolling
  <2> QED
    BY <2>1, <2>2
<1>3. G \in [UpTo(S, n + 1) -> Int]
  BY <1>2
<1>4. ASSUME NEW s \in UpTo(S, n) PROVE G[s] = F[s]
  <2>1. s \in UpTo(S, n + 1)
    <3>1. s \in SUBSET S /\ Cardinality(s) <= n
      BY DEF UpTo
    <3>2. Cardinality(s) \in Nat
      BY <3>1, Smaller
    <3> QED
      BY <3>1, <3>2 DEF UpTo
  <2> QED
    BY <2>1 DEF SumsUpTo
<1>5. ASSUME NEW s \in UpTo(S, n + 1) PROVE G[s] = Unrolling(g, G, s)
  <2>1. CASE s = {}
    BY <2>1 DEF Unrolling
  <2>2. CASE s # {}
    <3>1. G[s \ {Picked(s)}] = F[s \ {Picked(s)}]
      BY <1>1, <1>4, <2>2
    <3>2. G[s] = Unrolling(g, F, s)
      OBVIOUS
    <3> HIDE DEF G
    <3> QED
      BY <2>2, <3>1, <3>2 DEF Unrolling
  <2> QED
    BY <2>1, <2>2
<1> HIDE DEF G
<1> QED
  BY <1>3, <1>5 DEF SumsUpTo

\* So the recursive function exists, and its values are integers.
LEMMA SumsExist ==
    ASSUME NEW S, IsFiniteSet(S), NEW g, \A x \in S : g[x] \in Int
    PROVE  Sums(g, S, Iter(g, S)) /\ Iter(g, S) \in [SUBSET S -> Int]
<1> DEFINE Missing == {n \in Nat : ~\E F : SumsUpTo(g, S, n, F)}
<1>1. 0 \notin Missing
  <2> DEFINE F == [s \in UpTo(S, 0) |-> 0]
  <2>1. ASSUME NEW s \in UpTo(S, 0) PROVE s = {}
    <3>1. s \in SUBSET S /\ Cardinality(s) <= 0
      BY DEF UpTo
    <3> QED
      BY <3>1, Smaller
  <2>2. SumsUpTo(g, S, 0, F)
    BY <2>1 DEF SumsUpTo, Unrolling
  <2> QED
    BY <2>2
<1>2. Missing = {}
  <2> SUFFICES ASSUME Missing # {} PROVE FALSE
    OBVIOUS
  <2>1. PICK m \in Missing : \A n \in Missing : m <= n
    BY LeastNat
  <2>2. m \in Nat /\ m # 0
    BY <1>1
  <2>3. m - 1 \in Nat /\ m - 1 \notin Missing
    BY <2>1, <2>2
  <2>4. PICK F : SumsUpTo(g, S, m - 1, F)
    BY <2>3
  <2>5. \E G : SumsUpTo(g, S, (m - 1) + 1, G)
    BY <2>3, <2>4, SumsGrow
  <2>6. (m - 1) + 1 = m
    BY <2>2
  <2> QED
    BY <2>5, <2>6
<1>3. Cardinality(S) \in Nat
  BY FS_CardinalityType
<1>4. UpTo(S, Cardinality(S)) = SUBSET S
  <2>1. ASSUME NEW s \in SUBSET S PROVE Cardinality(s) <= Cardinality(S)
    BY FS_Subset
  <2> QED
    BY <2>1 DEF UpTo
<1>5. PICK F : SumsUpTo(g, S, Cardinality(S), F)
  BY <1>2, <1>3
<1>6. F \in [SUBSET S -> Int] /\ \A s \in SUBSET S : F[s] = Unrolling(g, F, s)
  BY <1>4, <1>5 DEF SumsUpTo
<1>7. Sums(g, S, F)
  BY <1>6 DEF Sums
<1>8. Sums(g, S, Iter(g, S))
  BY <1>7 DEF Iter
<1>9. ASSUME NEW G, Sums(g, S, G) PROVE G = F
  <2> DEFINE Differ == {n \in Nat : \E s \in SUBSET S : Cardinality(s) = n /\ G[s] # F[s]}
  <2>0. \A s \in SUBSET S : G[s] = Unrolling(g, G, s)
    BY <1>9 DEF Sums
  <2>1. Differ = {}
    <3> SUFFICES ASSUME Differ # {} PROVE FALSE
      OBVIOUS
    <3>1. PICK m \in Differ : \A n \in Differ : m <= n
      BY LeastNat
    <3>2. PICK s \in SUBSET S : Cardinality(s) = m /\ G[s] # F[s]
      BY <3>1
    <3>3. s # {}
      BY <1>6, <2>0, <3>2 DEF Unrolling
    <3>4. /\ s \ {Picked(s)} \in SUBSET S /\ m \in Nat
          /\ Cardinality(s \ {Picked(s)}) = m - 1 /\ m # 0
      BY <3>2, <3>3, Smaller
    <3>5. m - 1 \notin Differ /\ m - 1 \in Nat
      BY <3>1, <3>4
    <3>6. G[s \ {Picked(s)}] = F[s \ {Picked(s)}]
      BY <3>4, <3>5
    <3> QED
      BY <1>6, <2>0, <3>2, <3>3, <3>6 DEF Unrolling
  <2>2. \A s \in SUBSET S : G[s] = F[s]
    BY <2>1, Smaller
  <2> HIDE DEF Differ
  <2>3. G = [s \in SUBSET S |-> Unrolling(g, G, s)]
    BY <1>9 DEF Sums
  <2>4. F = [s \in SUBSET S |-> F[s]]
    BY <1>6
  <2> QED
    BY <2>0, <2>2, <2>3, <2>4
<1> QED
  BY <1>6, <1>8, <1>9

\* Two such functions agree where their terms do.
LEMMA SumsAgree ==
    ASSUME NEW S, IsFiniteSet(S), NEW g, \A x \in S : g[x] \in Int,
           NEW T, IsFiniteSet(T), NEW h, \A x \in T : h[x] \in Int,
           \A x \in S \cap T : g[x] = h[x]
    PROVE  \A s \in SUBSET (S \cap T) : Iter(g, S)[s] = Iter(h, T)[s]
<1> DEFINE F == Iter(g, S)
           G == Iter(h, T)
           Differ == {n \in Nat : \E s \in SUBSET (S \cap T) :
                                     Cardinality(s) = n /\ F[s] # G[s]}
<1>1. /\ \A s \in SUBSET S : F[s] = Unrolling(g, F, s)
      /\ \A s \in SUBSET T : G[s] = Unrolling(h, G, s)
  <2>1. Sums(g, S, F) /\ Sums(h, T, G)
    BY SumsExist
  <2> HIDE DEF F, G
  <2> QED
    BY <2>1 DEF Sums
<1> HIDE DEF F, G
<1>2. Differ = {}
  <2> SUFFICES ASSUME Differ # {} PROVE FALSE
    OBVIOUS
  <2>1. PICK m \in Differ : \A n \in Differ : m <= n
    BY LeastNat
  <2>2. PICK s \in SUBSET (S \cap T) : Cardinality(s) = m /\ F[s] # G[s]
    BY <2>1
  <2>3. s \in SUBSET S /\ s \in SUBSET T
    OBVIOUS
  <2>4. s # {}
    BY <1>1, <2>2, <2>3 DEF Unrolling
  <2>5. /\ s \ {Picked(s)} \in SUBSET S /\ m \in Nat /\ Picked(s) \in s
        /\ Cardinality(s \ {Picked(s)}) = m - 1 /\ m # 0
    BY <2>2, <2>3, <2>4, Smaller
  <2>6. m - 1 \notin Differ /\ m - 1 \in Nat
    BY <2>1, <2>5
  <2>7. F[s \ {Picked(s)}] = G[s \ {Picked(s)}]
    BY <2>5, <2>6
  <2>8. g[Picked(s)] = h[Picked(s)]
    BY <2>5
  <2> QED
    BY <1>1, <2>2, <2>3, <2>4, <2>7, <2>8 DEF Unrolling
<1>3. ASSUME NEW s \in SUBSET (S \cap T) PROVE Cardinality(s) \in Nat
  BY Smaller
<1> QED
  BY <1>2, <1>3 DEF F, G

-----------------------------------------------------------------------------
(***************************************************************************)
(* The facts the proofs about the contracts use.                           *)
(***************************************************************************)
LEMMA SumType ==
    ASSUME NEW S, IsFiniteSet(S), NEW g, \A x \in S : g[x] \in Int
    PROVE  SumFunctionOnSet(g, S) \in Int
BY SumIsIter, SumsExist

LEMMA SumEmpty ==
    ASSUME NEW g
    PROVE  SumFunctionOnSet(g, {}) = 0
<1>1. Sums(g, {}, Iter(g, {}))
  BY SumsExist, FS_EmptySet
<1> QED
  BY <1>1, SumIsIter DEF Sums, Unrolling

\* The sum depends on the values in the set only.
LEMMA SumSame ==
    ASSUME NEW S, IsFiniteSet(S), NEW g, NEW h, \A x \in S : g[x] \in Int /\ h[x] = g[x]
    PROVE  SumFunctionOnSet(g, S) = SumFunctionOnSet(h, S)
<1>1. Iter(g, S)[S] = Iter(h, S)[S]
  BY SumsAgree
<1> QED
  BY <1>1, SumIsIter

\* Any element may be taken out first.
LEMMA SumRemove ==
    ASSUME NEW S, IsFiniteSet(S), NEW g, \A x \in S : g[x] \in Int, NEW e \in S
    PROVE  SumFunctionOnSet(g, S) = g[e] + SumFunctionOnSet(g, S \ {e})
<1> DEFINE F == Iter(g, S)
           Wrong == {n \in Nat : \E s \in SUBSET S :
                        Cardinality(s) = n /\ \E x \in s : F[s] # g[x] + F[s \ {x}]}
<1>1. \A s \in SUBSET S : F[s] = Unrolling(g, F, s) /\ F[s] \in Int
  <2>1. Sums(g, S, F) /\ F \in [SUBSET S -> Int]
    BY SumsExist
  <2> HIDE DEF F
  <2> QED
    BY <2>1 DEF Sums
<1> HIDE DEF F
<1>2. Wrong = {}
  <2> SUFFICES ASSUME Wrong # {} PROVE FALSE
    OBVIOUS
  <2>1. PICK m \in Wrong : \A n \in Wrong : m <= n
    BY LeastNat
  <2>2. PICK s \in SUBSET S : Cardinality(s) = m /\ \E x \in s : F[s] # g[x] + F[s \ {x}]
    BY <2>1
  <2>3. PICK x \in s : F[s] # g[x] + F[s \ {x}]
    BY <2>2
  <2> DEFINE y == Picked(s)
  <2>4. /\ y \in s /\ m \in Nat /\ m # 0
        /\ s \ {x} \in SUBSET S /\ Cardinality(s \ {x}) = m - 1
        /\ s \ {y} \in SUBSET S /\ Cardinality(s \ {y}) = m - 1
    BY <2>2, Smaller
  <2>5. F[s] = g[y] + F[s \ {y}]
    BY <1>1 DEF Unrolling
  <2> HIDE DEF y
  <2>6. x # y
    BY <2>3, <2>5
  <2>7. m - 1 \notin Wrong /\ m - 1 \in Nat
    BY <2>1, <2>4
  <2>8. F[s \ {y}] = g[x] + F[(s \ {y}) \ {x}]
    BY <2>4, <2>6, <2>7
  <2>9. F[s \ {x}] = g[y] + F[(s \ {x}) \ {y}]
    BY <2>4, <2>6, <2>7
  <2>10. (s \ {y}) \ {x} = (s \ {x}) \ {y} /\ (s \ {x}) \ {y} \in SUBSET S
    OBVIOUS
  <2>11. g[x] \in Int /\ g[y] \in Int /\ F[(s \ {x}) \ {y}] \in Int
    BY <1>1, <2>4, <2>10
  <2>12. \A a, b, c \in Int : a + (b + c) = b + (a + c)
    OBVIOUS
  <2>13. g[y] + (g[x] + F[(s \ {x}) \ {y}]) = g[x] + (g[y] + F[(s \ {x}) \ {y}])
    BY <2>11, <2>12
  <2> QED
    BY <2>3, <2>5, <2>8, <2>9, <2>10, <2>13, Zenon
<1>3. F[S] = g[e] + F[S \ {e}]
  <2>1. Cardinality(S) \in Nat
    BY FS_CardinalityType
  <2>2. S \in SUBSET S
    OBVIOUS
  <2> QED
    BY <1>2, <2>1, <2>2
<1>4. F[S \ {e}] = SumFunctionOnSet(g, S \ {e})
  <2> DEFINE T == S \ {e}
  <2>1. IsFiniteSet(T)
    BY FS_Subset
  <2>2. T \in SUBSET (S \cap T)
    OBVIOUS
  <2>3. Iter(g, S)[T] = Iter(g, T)[T]
    BY <2>1, <2>2, SumsAgree
  <2> QED
    BY <2>3, SumIsIter DEF F
<1> QED
  BY <1>3, <1>4, SumIsIter DEF F

LEMMA SumAdd ==
    ASSUME NEW S, IsFiniteSet(S), NEW e, e \notin S,
           NEW g, \A x \in S \cup {e} : g[x] \in Int
    PROVE  SumFunctionOnSet(g, S \cup {e}) = g[e] + SumFunctionOnSet(g, S)
<1>1. IsFiniteSet(S \cup {e})
  BY FS_AddElement
<1>2. (S \cup {e}) \ {e} = S
  OBVIOUS
<1> QED
  BY <1>1, <1>2, SumRemove

\* A change of one term changes the sum by the same amount.
LEMMA SumChange ==
    ASSUME NEW S, IsFiniteSet(S), NEW e \in S, NEW g, NEW h,
           \A x \in S : g[x] \in Int /\ h[x] \in Int,
           \A x \in S \ {e} : h[x] = g[x]
    PROVE  SumFunctionOnSet(h, S) = SumFunctionOnSet(g, S) + (h[e] - g[e])
<1> DEFINE T == S \ {e}
<1>1. IsFiniteSet(T)
  BY FS_Subset
<1>2. SumFunctionOnSet(g, T) = SumFunctionOnSet(h, T) /\ SumFunctionOnSet(g, T) \in Int
  BY <1>1, SumSame, SumType
<1>3. /\ SumFunctionOnSet(g, S) = g[e] + SumFunctionOnSet(g, T)
      /\ SumFunctionOnSet(h, S) = h[e] + SumFunctionOnSet(h, T)
  BY SumRemove
<1>4. g[e] \in Int /\ h[e] \in Int
  OBVIOUS
<1> QED
  BY <1>2, <1>3, <1>4

\* Terms that are at most as large have a sum that is at most as large.
LEMMA SumMonotone ==
    ASSUME NEW S, IsFiniteSet(S), NEW g, NEW h,
           \A x \in S : g[x] \in Int /\ h[x] \in Int /\ g[x] <= h[x]
    PROVE  SumFunctionOnSet(g, S) <= SumFunctionOnSet(h, S)
<1> DEFINE G(s) == SumFunctionOnSet(g, s)
           H(s) == SumFunctionOnSet(h, s)
           Wrong == {n \in Nat : \E s \in SUBSET S : Cardinality(s) = n /\ ~(G(s) <= H(s))}
<1>1. Wrong = {}
  <2> SUFFICES ASSUME Wrong # {} PROVE FALSE
    OBVIOUS
  <2>1. PICK m \in Wrong : \A n \in Wrong : m <= n
    BY LeastNat
  <2>2. PICK s \in SUBSET S : Cardinality(s) = m /\ ~(G(s) <= H(s))
    BY <2>1
  <2>3. s # {}
    BY <2>2, SumEmpty
  <2>4. PICK x \in s : TRUE
    BY <2>3
  <2>5. /\ s \ {x} \in SUBSET S /\ m \in Nat /\ IsFiniteSet(s)
        /\ Cardinality(s \ {x}) = m - 1 /\ m # 0
    BY <2>2, <2>3, Smaller
  <2>6. m - 1 \notin Wrong /\ m - 1 \in Nat
    BY <2>1, <2>5
  <2>7. G(s \ {x}) <= H(s \ {x})
    BY <2>5, <2>6
  <2>8. G(s) = g[x] + G(s \ {x}) /\ H(s) = h[x] + H(s \ {x})
    BY <2>5, SumRemove
  <2>9. IsFiniteSet(s \ {x})
    BY <2>5, FS_Subset
  <2>10. G(s \ {x}) \in Int /\ H(s \ {x}) \in Int
    BY <2>9, SumType
  <2>11. g[x] \in Int /\ h[x] \in Int /\ g[x] <= h[x]
    OBVIOUS
  <2> HIDE DEF G, H
  <2> QED
    BY <2>2, <2>7, <2>8, <2>10, <2>11
<1>2. Cardinality(S) \in Nat /\ S \in SUBSET S
  BY FS_CardinalityType
<1> QED
  BY <1>1, <1>2

\* Terms outside T that are zero do not count.
LEMMA SumFilter ==
    ASSUME NEW S, IsFiniteSet(S), NEW T \in SUBSET S, NEW g, NEW h,
           \A x \in S : h[x] \in Int, \A x \in T : g[x] = h[x], \A x \in S \ T : h[x] = 0
    PROVE  SumFunctionOnSet(h, S) = SumFunctionOnSet(g, T)
<1> DEFINE H(s) == SumFunctionOnSet(h, s)
           Wrong == {n \in Nat : \E s \in SUBSET S : Cardinality(s) = n /\ H(s) # H(s \cap T)}
<1>1. Wrong = {}
  <2> SUFFICES ASSUME Wrong # {} PROVE FALSE
    OBVIOUS
  <2>1. PICK m \in Wrong : \A n \in Wrong : m <= n
    BY LeastNat
  <2>2. PICK s \in SUBSET S : Cardinality(s) = m /\ H(s) # H(s \cap T)
    BY <2>1
  <2>3. PICK x \in s : TRUE
    <3>1. CASE s = {}
      <4>1. s \cap T = s
        BY <3>1
      <4> QED
        BY <2>2, <4>1
    <3> QED
      BY <3>1
  <2> DEFINE r == s \ {x}
  <2>4. /\ r \in SUBSET S /\ m \in Nat /\ IsFiniteSet(s)
        /\ Cardinality(r) = m - 1 /\ m # 0
    BY <2>2, <2>3, Smaller
  <2>5. m - 1 \notin Wrong /\ m - 1 \in Nat
    <3> HIDE DEF Wrong
    <3> QED
      BY <2>1, <2>4
  <2>6. H(r) = H(r \cap T)
    BY <2>4, <2>5
  <2>7. H(s) = h[x] + H(r)
    BY <2>4, SumRemove
  <2>8. IsFiniteSet(s \cap T) /\ IsFiniteSet(r)
    BY <2>4, FS_Subset
  <2>9. CASE x \in T
    <3>1. H(s \cap T) = h[x] + H((s \cap T) \ {x})
      BY <2>8, <2>9, SumRemove
    <3>2. (s \cap T) \ {x} = r \cap T
      OBVIOUS
    <3> HIDE DEF H, r
    <3> QED
      BY <2>2, <2>6, <2>7, <3>1, <3>2
  <2>10. CASE x \notin T
    <3>1. s \cap T = r \cap T /\ h[x] = 0
      BY <2>10
    <3>2. H(r) \in Int
      BY <2>8, SumType
    <3> HIDE DEF H, r
    <3>3. H(s) = H(r)
      BY <2>7, <3>1, <3>2
    <3> QED
      BY <2>2, <2>6, <3>1, <3>3, Zenon
  <2> QED
    BY <2>9, <2>10
<1>2. Cardinality(S) \in Nat /\ S \in SUBSET S /\ S \cap T = T /\ IsFiniteSet(T)
  BY FS_CardinalityType, FS_Subset
<1>3. H(S) = H(T)
  BY <1>1, <1>2
<1>4. H(T) = SumFunctionOnSet(g, T)
  BY <1>2, SumSame
<1> QED
  BY <1>3, <1>4

\* A sum of natural numbers is one.
LEMMA SumNat ==
    ASSUME NEW S, IsFiniteSet(S), NEW g, \A x \in S : g[x] \in Nat
    PROVE  SumFunctionOnSet(g, S) \in Nat
<1> DEFINE z == [x \in S |-> 0]
<1>1. SumFunctionOnSet(z, S) = SumFunctionOnSet(z, {})
  BY SumFilter
<1>2. SumFunctionOnSet(z, S) = 0
  BY <1>1, SumEmpty
<1>3. SumFunctionOnSet(z, S) <= SumFunctionOnSet(g, S)
  BY SumMonotone
<1>4. SumFunctionOnSet(g, S) \in Int
  BY SumType
<1> QED
  BY <1>2, <1>3, <1>4
=============================================================================
