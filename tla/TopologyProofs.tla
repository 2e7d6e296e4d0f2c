---------------------------- MODULE TopologyProofs ---------------------------
(***************************************************************************)
(* The topology of the simulator and CorrOpt, for every topology.  What    *)
(* the topology keeps besides the state of its links stays exact under     *)
(* each of its operations, and what CorrOpt decides from it is right of    *)
(* the graph.                                                              *)
(***************************************************************************)
EXTENDS CorrOpt, FoldProofs

-----------------------------------------------------------------------------
(***************************************************************************)
(* Sums.  The library's fold over a set is a function on the set's subsets *)
(* that is defined by an equation: it has a solution for a finite set.     *)
(***************************************************************************)
SumsOf(f, S) ==
    LET iter[s \in SUBSET S] ==
            IF s = {} THEN 0 ELSE LET x == Taken(s) IN f[x] + iter[s \ {x}]
    IN  iter

IsSums(f, S, g) ==
    g = [s \in SUBSET S |->
            IF s = {} THEN 0 ELSE f[Taken(s)] + g[s \ {Taken(s)}]]

\* There is a function from the subsets to their sums.
LEMMA SumsExist ==
    ASSUME NEW f, NEW S, IsFiniteSet(S)
    PROVE  \E h : IsSums(f, S, h)
<1> DEFINE Small(n)   == {R \in SUBSET S : Cardinality(R) <= n}
           Sum(h, s)  == IF s = {} THEN 0 ELSE f[Taken(s)] + h[s \ {Taken(s)}]
           Exists(n)  == \E h : h = [s \in Small(n) |-> Sum(h, s)]
           Bad        == {n \in Nat : ~Exists(n)}
<1>1. Exists(0)
  <2> DEFINE h == [s \in Small(0) |-> 0]
  <2>1. ASSUME NEW s \in Small(0) PROVE s = {}
    <3>1. Cardinality(s) \in Nat /\ Cardinality(s) <= 0
      BY Smaller
    <3>2. Cardinality(s) = 0
      BY <3>1
    <3> QED
      BY <3>2, Smaller
  <2>2. h = [s \in Small(0) |-> Sum(h, s)]
    BY <2>1
  <2> QED
    BY <2>2
<1>2. ASSUME NEW n \in Nat, Exists(n) PROVE Exists(n + 1)
  <2>1. PICK h : h = [s \in Small(n) |-> Sum(h, s)]
    BY <1>2
  <2> DEFINE k == [s \in Small(n + 1) |-> Sum(h, s)]
  <2>2. ASSUME NEW s \in Small(n + 1) PROVE Sum(h, s) = Sum(k, s)
    <3>1. CASE s = {}
      BY <3>1
    <3>2. CASE s # {}
      <4> DEFINE r == s \ {Taken(s)}
      <4>1. r \in Small(n) /\ r \in Small(n + 1)
        BY <3>2, Smaller
      <4>2. h[r] = Sum(h, r) /\ k[r] = Sum(h, r)
        BY <2>1, <4>1
      <4> QED
        BY <3>2, <4>2
    <3> QED
      BY <3>1, <3>2
  <2> QED
    BY <2>2
<1>3. Bad = {}
  <2> SUFFICES ASSUME Bad # {} PROVE FALSE
    OBVIOUS
  <2> HIDE DEF Exists
  <2>1. PICK n \in Bad : \A m \in Bad : n <= m
    BY LeastNat
  <2>2. n - 1 \in Nat /\ n - 1 \notin Bad /\ (n - 1) + 1 = n
    BY <1>1, <2>1
  <2> QED
    BY <1>2, <2>2
<1>4. Small(Cardinality(S)) = SUBSET S
  BY Smaller
<1>5. Exists(Cardinality(S))
  <2>1. Cardinality(S) \in Nat
    BY FS_CardinalityType
  <2> HIDE DEF Exists
  <2> QED
    BY <1>3, <2>1
<1> QED
  BY <1>4, <1>5 DEF IsSums

\* The chosen function is such a function.
LEMMA SumsUnfold ==
    ASSUME NEW f, NEW S, IsFiniteSet(S)
    PROVE  IsSums(f, S, SumsOf(f, S))
<1>1. PICK h : IsSums(f, S, h)
  BY SumsExist
<1> QED
  BY <1>1 DEF SumsOf, IsSums

\* SumOver is its value.
LEMMA SumIsOfSums ==
    ASSUME NEW f, NEW S
    PROVE  SumOver(f, S) = SumsOf(f, S)[S]
BY DEF SumOver, SumsOf, MapThenSumSet, MapThenFoldSet, Taken

\* A sum is over its own subsets: the larger set it is part of is no matter.
LEMMA SumsAgree ==
    ASSUME NEW f, NEW S, IsFiniteSet(S), NEW R \in SUBSET S
    PROVE  SumsOf(f, S)[R] = SumOver(f, R)
<1> DEFINE Bad == {Q \in SUBSET R : SumsOf(f, S)[Q] # SumsOf(f, R)[Q]}
<1>1. IsSums(f, S, SumsOf(f, S)) /\ IsSums(f, R, SumsOf(f, R))
  BY Smaller, SumsUnfold
<1>2. Bad = {}
  <2> SUFFICES ASSUME Bad # {} PROVE FALSE
    OBVIOUS
  <2>1. PICK Q \in Bad : \A P \in Bad : P \subseteq Q => P = Q
    <3>1. Bad \subseteq SUBSET R /\ IsFiniteSet(R)
      BY Smaller
    <3> HIDE DEF Bad
    <3> QED
      BY <3>1, MinimalSubset
  <2>2. /\ SumsOf(f, S)[Q] = IF Q = {} THEN 0
                ELSE f[Taken(Q)] + SumsOf(f, S)[Q \ {Taken(Q)}]
        /\ SumsOf(f, R)[Q] = IF Q = {} THEN 0
                ELSE f[Taken(Q)] + SumsOf(f, R)[Q \ {Taken(Q)}]
    BY <1>1 DEF IsSums
  <2>3. Q # {} => Q \ {Taken(Q)} \notin Bad
    BY <2>1, Smaller
  <2> QED
    BY <2>2, <2>3
<1> QED
  BY <1>2, SumIsOfSums

\* The equation that defines the sum.
LEMMA SumStep ==
    ASSUME NEW f, NEW S, IsFiniteSet(S)
    PROVE  SumOver(f, S) = IF S = {} THEN 0
                           ELSE f[Taken(S)] + SumOver(f, S \ {Taken(S)})
<1>1. IsSums(f, S, SumsOf(f, S))
  BY SumsUnfold
<1>2. SumsOf(f, S)[S] = IF S = {} THEN 0
            ELSE f[Taken(S)] + SumsOf(f, S)[S \ {Taken(S)}]
  BY <1>1 DEF IsSums
<1> QED
  BY <1>2, SumIsOfSums, SumsAgree

\* Nothing sums to 0.
LEMMA SumEmpty == ASSUME NEW f PROVE SumOver(f, {}) = 0
BY FS_EmptySet, SumStep

\* Sums of integers are integers.
LEMMA SumType ==
    ASSUME NEW f, NEW S, IsFiniteSet(S), \A x \in S : f[x] \in Int
    PROVE  SumOver(f, S) \in Int
<1> DEFINE Bad == {R \in SUBSET S : SumOver(f, R) \notin Int}
<1> SUFFICES ASSUME Bad # {} PROVE FALSE
  OBVIOUS
<1>1. PICK R \in Bad : \A Q \in Bad : Q \subseteq R => Q = R
  <2>1. Bad \subseteq SUBSET S
    OBVIOUS
  <2> HIDE DEF Bad
  <2> QED
    BY <2>1, MinimalSubset
<1>2. CASE R = {}
  BY <1>1, <1>2, SumEmpty
<1>3. CASE R # {}
  <2>1. R \ {Taken(R)} \notin Bad /\ R \ {Taken(R)} \in SUBSET S
        /\ Taken(R) \in S /\ IsFiniteSet(R)
    BY <1>1, <1>3, Smaller
  <2> QED
    BY <1>1, <1>3, <2>1, SumStep
<1> QED
  BY <1>2, <1>3

\* The order in which a sum is taken does not matter.
LEMMA SumRemove ==
    ASSUME NEW f, NEW S, IsFiniteSet(S), \A x \in S : f[x] \in Int
    PROVE  \A x \in S : SumOver(f, S) = f[x] + SumOver(f, S \ {x})
<1> DEFINE Bad == {R \in SUBSET S : \E x \in R :
                        SumOver(f, R) # f[x] + SumOver(f, R \ {x})}
<1> SUFFICES ASSUME Bad # {} PROVE FALSE
  OBVIOUS
<1>1. PICK R \in Bad : \A Q \in Bad : Q \subseteq R => Q = R
  <2>1. Bad \subseteq SUBSET S
    OBVIOUS
  <2> HIDE DEF Bad
  <2> QED
    BY <2>1, MinimalSubset
<1>2. PICK x \in R : SumOver(f, R) # f[x] + SumOver(f, R \ {x})
  BY <1>1
<1> DEFINE y == Taken(R)
           A == R \ {x}
           B == R \ {y}
           C == R \ {x, y}
<1>3. /\ y \in R /\ A \in SUBSET S /\ B \in SUBSET S /\ C \in SUBSET S
      /\ IsFiniteSet(R) /\ IsFiniteSet(A) /\ IsFiniteSet(B) /\ IsFiniteSet(C)
  BY <1>2, Smaller
<1>4. SumOver(f, R) = f[y] + SumOver(f, B)
  BY <1>2, <1>3, SumStep
<1>5. x # y
  BY <1>2, <1>4
<1>6. x \in B /\ y \in A /\ B \ {x} = C /\ A \ {y} = C /\ A # R /\ B # R
  BY <1>2, <1>3, <1>5
<1>7. A \notin Bad /\ B \notin Bad
  BY <1>1, <1>3, <1>6
<1>8. /\ SumOver(f, B) = f[x] + SumOver(f, C)
      /\ SumOver(f, A) = f[y] + SumOver(f, C)
  BY <1>3, <1>6, <1>7
<1>9. SumOver(f, C) \in Int /\ f[x] \in Int /\ f[y] \in Int
  BY <1>3, SumType
<1> HIDE DEF y, A, B, C
<1> QED
  BY <1>2, <1>4, <1>8, <1>9 DEF A

\* Only the values on the set matter.
LEMMA SumCongruent ==
    ASSUME NEW f, NEW g, NEW S, IsFiniteSet(S), \A x \in S : f[x] = g[x]
    PROVE  SumOver(f, S) = SumOver(g, S)
<1> DEFINE Bad == {R \in SUBSET S : SumOver(f, R) # SumOver(g, R)}
<1> SUFFICES ASSUME Bad # {} PROVE FALSE
  OBVIOUS
<1>1. PICK R \in Bad : \A Q \in Bad : Q \subseteq R => Q = R
  <2>1. Bad \subseteq SUBSET S
    OBVIOUS
  <2> HIDE DEF Bad
  <2> QED
    BY <2>1, MinimalSubset
<1>2. CASE R = {}
  BY <1>1, <1>2, SumEmpty
<1>3. CASE R # {}
  <2>1. R \ {Taken(R)} \notin Bad /\ R \ {Taken(R)} \in SUBSET S
        /\ Taken(R) \in S /\ IsFiniteSet(R)
    BY <1>1, <1>3, Smaller
  <2> QED
    BY <1>1, <1>3, <2>1, SumStep
<1> QED
  BY <1>2, <1>3

\* What a change of one summand comes to.
LEMMA SumChanged ==
    ASSUME NEW f, NEW g, NEW S, IsFiniteSet(S), NEW x \in S,
           \A y \in S : f[y] \in Int, g[x] \in Int,
           \A y \in S \ {x} : g[y] = f[y]
    PROVE  SumOver(g, S) = SumOver(f, S) - f[x] + g[x]
<1> DEFINE R == S \ {x}
<1>1. IsFiniteSet(R)
  BY FS_RemoveElement
<1>2. SumOver(f, S) = f[x] + SumOver(f, R)
  BY SumRemove
<1>3. SumOver(g, S) = g[x] + SumOver(g, R)
  <2>1. \A y \in S : g[y] \in Int
    OBVIOUS
  <2> QED
    BY <2>1, SumRemove
<1>4. SumOver(f, R) = SumOver(g, R) /\ SumOver(f, R) \in Int
  <2>1. \A y \in R : f[y] = g[y] /\ f[y] \in Int
    OBVIOUS
  <2> HIDE DEF R
  <2> QED
    BY <1>1, <2>1, SumCongruent, SumType
<1> QED
  BY <1>2, <1>3, <1>4

\* The sum without one element, whichever it is.
LEMMA SumLess ==
    ASSUME NEW f, NEW S, IsFiniteSet(S), NEW x \in S, \A y \in S : f[y] \in Int
    PROVE  SumOver(f, S \ {x}) = SumOver(f, S) - f[x]
<1>1. SumOver(f, S) = f[x] + SumOver(f, S \ {x})
  BY SumRemove
<1>2. IsFiniteSet(S \ {x}) /\ \A y \in S \ {x} : f[y] \in Int
  BY FS_RemoveElement
<1>3. SumOver(f, S \ {x}) \in Int /\ f[x] \in Int
  <2> DEFINE R == S \ {x}
  <2> HIDE DEF R
  <2>1. SumOver(f, R) \in Int
    BY <1>2, SumType DEF R
  <2> QED
    BY <2>1 DEF R
<1> QED
  BY <1>1, <1>3

\* The sum with one more element.
LEMMA SumMore ==
    ASSUME NEW f, NEW g, NEW S, IsFiniteSet(S), NEW x, x \notin S,
           \A y \in S : f[y] \in Int /\ g[y] = f[y], g[x] \in Int
    PROVE  SumOver(g, S \cup {x}) = SumOver(f, S) + g[x]
<1> DEFINE R == S \cup {x}
<1>1. IsFiniteSet(R) /\ x \in R /\ R \ {x} = S /\ \A y \in R : g[y] \in Int
  BY FS_AddElement
<1> HIDE DEF R
<1>2. SumOver(g, R) = g[x] + SumOver(g, S)
  BY <1>1, SumRemove
<1>3. SumOver(g, S) = SumOver(f, S) /\ SumOver(f, S) \in Int
  BY SumCongruent, SumType
<1> QED
  BY <1>2, <1>3 DEF R

\* The sum over disjoint sets.
LEMMA SumUnion ==
    ASSUME NEW f, NEW A, IsFiniteSet(A), NEW S, IsFiniteSet(S), A \cap S = {},
           \A x \in A \cup S : f[x] \in Int
    PROVE  SumOver(f, A \cup S) = SumOver(f, A) + SumOver(f, S)
<1> DEFINE Bad == {R \in SUBSET S :
                    SumOver(f, A \cup R) # SumOver(f, A) + SumOver(f, R)}
<1>1. Bad = {}
  <2> SUFFICES ASSUME Bad # {} PROVE FALSE
    OBVIOUS
  <2>1. PICK R \in Bad : \A Q \in Bad : Q \subseteq R => Q = R
    <3>1. Bad \subseteq SUBSET S
      OBVIOUS
    <3> HIDE DEF Bad
    <3> QED
      BY <3>1, MinimalSubset
  <2>2. SumOver(f, A) \in Int
    BY SumType
  <2>3. CASE R = {}
    <3>1. SumOver(f, R) = 0 /\ A \cup R = A
      BY <2>3, SumEmpty
    <3>2. SumOver(f, A \cup R) = SumOver(f, A)
      BY <3>1
    <3>3. SumOver(f, A \cup R) = SumOver(f, A) + SumOver(f, R)
      BY <2>2, <3>1, <3>2
    <3> QED
      BY <2>1, <3>3
  <2>4. CASE R # {}
    <3> DEFINE x == Taken(R)
               Q == R \ {x}
               B == A \cup R
               C == A \cup Q
    <3>1. /\ x \in R /\ Q \in SUBSET S /\ Q # R
          /\ IsFiniteSet(R) /\ IsFiniteSet(Q)
      BY <2>1, <2>4, Smaller
    <3>2. SumOver(f, C) = SumOver(f, A) + SumOver(f, Q)
      BY <2>1, <3>1
    <3>3. IsFiniteSet(B) /\ x \in B /\ B \ {x} = C
      BY <3>1, FS_Union
    <3>4. \A y \in B : f[y] \in Int
      OBVIOUS
    <3>5. /\ \A y \in R : f[y] \in Int
          /\ \A y \in Q : f[y] \in Int
          /\ f[x] \in Int
      BY <3>1
    <3>6. SumOver(f, Q) \in Int
      BY <3>1, <3>5, SumType
    <3> HIDE DEF B, C, x
    <3>7. SumOver(f, B) = f[x] + SumOver(f, C)
      BY <3>3, <3>4, SumRemove
    <3>8. SumOver(f, R) = f[x] + SumOver(f, Q)
      BY <3>1, <3>5, SumRemove
    <3>9. SumOver(f, B) = SumOver(f, A) + SumOver(f, R)
      BY <2>2, <3>2, <3>5, <3>6, <3>7, <3>8
    <3> QED
      BY <2>1, <3>9 DEF B
  <2> QED
    BY <2>3, <2>4
<1> QED
  BY <1>1

\* Sums of naturals are naturals.
LEMMA SumNat ==
    ASSUME NEW f, NEW S, IsFiniteSet(S), \A x \in S : f[x] \in Nat
    PROVE  SumOver(f, S) \in Nat
<1> DEFINE Bad == {R \in SUBSET S : SumOver(f, R) \notin Nat}
<1> SUFFICES ASSUME Bad # {} PROVE FALSE
  OBVIOUS
<1>1. PICK R \in Bad : \A Q \in Bad : Q \subseteq R => Q = R
  <2>1. Bad \subseteq SUBSET S
    OBVIOUS
  <2> HIDE DEF Bad
  <2> QED
    BY <2>1, MinimalSubset
<1>2. CASE R = {}
  BY <1>1, <1>2, SumEmpty
<1>3. CASE R # {}
  <2> DEFINE x == Taken(R)
             Q == R \ {x}
  <2>1. /\ x \in R /\ Q \in SUBSET S /\ Q # R /\ IsFiniteSet(R)
        /\ f[x] \in Nat
    BY <1>1, <1>3, Smaller
  <2>2. SumOver(f, Q) \in Nat
    BY <1>1, <2>1
  <2>3. SumOver(f, R) = f[x] + SumOver(f, Q)
    BY <1>3, <2>1, SumStep
  <2> QED
    BY <1>1, <2>1, <2>2, <2>3
<1> QED
  BY <1>2, <1>3

\* More summands that are not negative make a sum no less.
LEMMA SumMonotone ==
    ASSUME NEW f, NEW S, IsFiniteSet(S), \A x \in S : f[x] \in Nat,
           NEW R \in SUBSET S
    PROVE  SumOver(f, R) <= SumOver(f, S)
<1> DEFINE Q == S \ R
<1>1. /\ IsFiniteSet(R) /\ IsFiniteSet(Q) /\ R \cap Q = {} /\ R \cup Q = S
      /\ \A x \in R \cup Q : f[x] \in Int
  BY FS_Subset, FS_Difference
<1>2. (\A x \in R : f[x] \in Nat) /\ \A x \in Q : f[x] \in Nat
  OBVIOUS
<1> HIDE DEF Q
<1>3. SumOver(f, R) \in Nat /\ SumOver(f, Q) \in Nat
  BY <1>1, <1>2, SumNat
<1>4. SumOver(f, R \cup Q) = SumOver(f, R) + SumOver(f, Q)
  BY <1>1, SumUnion
<1>5. SumOver(f, S) = SumOver(f, R) + SumOver(f, Q)
  BY <1>1, <1>4
<1> QED
  BY <1>3, <1>5

\* The sum of a constant.
LEMMA SumConstant ==
    ASSUME NEW f, NEW c \in Int, NEW S, IsFiniteSet(S), \A x \in S : f[x] = c
    PROVE  SumOver(f, S) = c * Cardinality(S)
<1> DEFINE Bad == {R \in SUBSET S : SumOver(f, R) # c * Cardinality(R)}
<1> SUFFICES ASSUME Bad # {} PROVE FALSE
  OBVIOUS
<1>1. PICK R \in Bad : \A Q \in Bad : Q \subseteq R => Q = R
  <2>1. Bad \subseteq SUBSET S
    OBVIOUS
  <2> HIDE DEF Bad
  <2> QED
    BY <2>1, MinimalSubset
<1>2. CASE R = {}
  <2>1. SumOver(f, R) = 0 /\ Cardinality(R) = 0
    BY <1>2, SumEmpty, FS_EmptySet
  <2> QED
    BY <1>1, <2>1
<1>3. CASE R # {}
  <2> DEFINE Q == R \ {Taken(R)}
  <2>1. /\ Q \notin Bad /\ Q \in SUBSET S
        /\ Taken(R) \in S /\ IsFiniteSet(R)
        /\ Cardinality(Q) = Cardinality(R) - 1
        /\ Cardinality(R) \in Nat
    BY <1>1, <1>3, Smaller
  <2>2. SumOver(f, Q) = c * Cardinality(Q)
    BY <2>1
  <2>3. SumOver(f, R) = c + SumOver(f, Q)
    BY <1>3, <2>1, SumStep
  <2> HIDE DEF Q
  <2>4. ASSUME NEW n \in Nat PROVE c + c * (n - 1) = c * n
    OBVIOUS
  <2>5. SumOver(f, R) = c * Cardinality(R)
    BY <2>1, <2>2, <2>3, <2>4
  <2> QED
    BY <1>1, <2>5
<1> QED
  BY <1>2, <1>3

-----------------------------------------------------------------------------
(***************************************************************************)
(* Heaps.  A heap is determined by the copies it has of every number.      *)
(***************************************************************************)
Heaps == UNION {[D -> Nat \ {0}] : D \in SUBSET Int}

\* Pushing and removing keep heaps of integers.
LEMMA HeapTypes ==
    ASSUME NEW h \in Heaps, NEW n \in Int
    PROVE  Pushed(h, n) \in Heaps /\ Removed(h, n) \in Heaps
<1>1. PICK D \in SUBSET Int : h \in [D -> Nat \ {0}]
  BY DEF Heaps
<1>2. Pushed(h, n) \in [D \cup {n} -> Nat \ {0}]
  BY <1>1 DEF Pushed, SetToBag, (+)
<1>3. \E E \in SUBSET D : Removed(h, n) \in [E -> Nat \ {0}]
  <2> DEFINE left == [e \in D |-> IF e = n THEN h[e] - 1 ELSE h[e]]
             E    == {e \in D : left[e] > 0}
  <2>1. Removed(h, n) = [e \in E |-> left[e]]
    BY <1>1 DEF Removed, SetToBag, (-)
  <2>2. \A e \in E : left[e] \in Nat \ {0}
    BY <1>1
  <2> QED
    BY <2>1, <2>2
<1> QED
  BY <1>2, <1>3 DEF Heaps

HeapOf(i, f, S) == SetToBag({i}) (+) Histogram(f, S)
Copies(h, v)    == IF v \in DOMAIN h THEN h[v] ELSE 0
Count(f, S, v)  == Cardinality({x \in S : f[x] = v})

\* How often a value is in the heap of a set.
LEMMA HeapCopies ==
    ASSUME NEW i \in Int, NEW f, NEW S, IsFiniteSet(S),
           \A x \in S : f[x] \in Int
    PROVE  /\ HeapOf(i, f, S) \in Heaps
           /\ \A v \in Int : Copies(HeapOf(i, f, S), v) =
                (IF v = i THEN 1 ELSE 0) + Count(f, S, v)
<1> DEFINE D    == {f[x] : x \in S}
           n(v) == Count(f, S, v)
           h    == HeapOf(i, f, S)
<1>1. ASSUME NEW v PROVE n(v) \in Nat /\ (n(v) = 0 <=> v \notin D)
  <2> DEFINE R == {x \in S : f[x] = v}
  <2>1. R \subseteq S /\ (R = {} <=> v \notin D)
    OBVIOUS
  <2> HIDE DEF R
  <2>2. IsFiniteSet(R)
    BY <2>1, FS_Subset
  <2> QED
    BY <2>1, <2>2, FS_EmptySet, FS_CardinalityType DEF R, Count
<1>2. Histogram(f, S) = [v \in D |-> n(v)]
  BY DEF Histogram, Count
<1> HIDE DEF n
<1> HIDE DEF D
<1>3. h = [v \in {i} \cup D |->
                (IF v = i THEN 1 ELSE 0) + (IF v \in D THEN n(v) ELSE 0)]
  BY <1>2 DEF HeapOf, (+), SetToBag
<1>4. \A v \in {i} \cup D :
            (IF v = i THEN 1 ELSE 0) + (IF v \in D THEN n(v) ELSE 0)
                \in Nat \ {0}
  BY <1>1
<1>5. {i} \cup D \in SUBSET Int
  BY DEF D
<1>6. h \in Heaps
  <2> DEFINE E == {i} \cup D
  <2>1. h \in [E -> Nat \ {0}]
    BY <1>3, <1>4
  <2>2. E \in SUBSET Int
    BY <1>5
  <2> HIDE DEF E, h
  <2> QED
    BY <2>1, <2>2 DEF Heaps
<1>7. ASSUME NEW v \in Int
      PROVE  Copies(h, v) = (IF v = i THEN 1 ELSE 0) + n(v)
  BY <1>1, <1>3 DEF Copies
<1> QED
  BY <1>6, <1>7 DEF n

\* Pushing adds one copy.
LEMMA PushCopies ==
    ASSUME NEW h \in Heaps, NEW n \in Int, NEW v \in Int
    PROVE  Copies(Pushed(h, n), v) = Copies(h, v) + (IF v = n THEN 1 ELSE 0)
<1>1. PICK D \in SUBSET Int : h \in [D -> Nat \ {0}]
  BY DEF Heaps
<1> QED
  BY <1>1 DEF Copies, Pushed, SetToBag, (+)

\* Removing takes one copy, if there is one.
LEMMA RemoveCopies ==
    ASSUME NEW h \in Heaps, NEW n \in Int, NEW v \in Int
    PROVE  Copies(Removed(h, n), v) =
            Copies(h, v) - (IF v = n /\ Copies(h, v) # 0 THEN 1 ELSE 0)
<1>1. PICK D \in SUBSET Int : h \in [D -> Nat \ {0}]
  BY DEF Heaps
<1> DEFINE left == [e \in D |-> IF e = n THEN h[e] - 1 ELSE h[e]]
           E    == {e \in D : left[e] > 0}
<1>2. Removed(h, n) = [e \in E |-> left[e]]
  BY <1>1 DEF Removed, SetToBag, (-)
<1> QED
  BY <1>1, <1>2 DEF Copies

\* Heaps are determined by their copies.
LEMMA SameHeap ==
    ASSUME NEW h \in Heaps, NEW k \in Heaps,
           \A v \in Int : Copies(h, v) = Copies(k, v)
    PROVE  h = k
<1>1. PICK D \in SUBSET Int : h \in [D -> Nat \ {0}]
  BY DEF Heaps
<1>2. PICK E \in SUBSET Int : k \in [E -> Nat \ {0}]
  BY DEF Heaps
<1>3. D = E
  BY <1>1, <1>2 DEF Copies
<1>4. \A v \in D : h[v] = k[v]
  BY <1>1, <1>2, <1>3 DEF Copies
<1>5. h = [v \in D |-> h[v]] /\ k = [v \in D |-> k[v]]
  BY <1>1, <1>2, <1>3
<1> QED
  BY <1>4, <1>5

\* Only the values on the set matter.
LEMMA HeapCongruent ==
    ASSUME NEW i \in Int, NEW f, NEW g, NEW S, IsFiniteSet(S),
           \A x \in S : f[x] \in Int /\ g[x] = f[x]
    PROVE  HeapOf(i, g, S) = HeapOf(i, f, S)
<1>1. {f[x] : x \in S} = {g[x] : x \in S}
  OBVIOUS
<1>2. \A v : {x \in S : f[x] = v} = {x \in S : g[x] = v}
  OBVIOUS
<1>3. Histogram(f, S) = Histogram(g, S)
  BY <1>1, <1>2 DEF Histogram
<1> QED
  BY <1>3 DEF HeapOf

\* Pushing the value of a new element gives the heap of the larger set.
LEMMA HeapPush ==
    ASSUME NEW i \in Int, NEW f, NEW g, NEW S, IsFiniteSet(S),
           NEW x, x \notin S, g[x] \in Int,
           \A y \in S : f[y] \in Int /\ g[y] = f[y]
    PROVE  Pushed(HeapOf(i, f, S), g[x]) = HeapOf(i, g, S \cup {x})
<1> DEFINE R == S \cup {x}
           h == HeapOf(i, f, S)
           k == HeapOf(i, g, R)
           n == g[x]
<1>1. IsFiniteSet(R) /\ \A y \in R : g[y] \in Int
  BY FS_AddElement
<1>2. ASSUME NEW v \in Int
      PROVE  /\ Count(g, R, v) = Count(f, S, v) + (IF v = n THEN 1 ELSE 0)
             /\ Count(f, S, v) \in Nat
  <2> DEFINE A == {y \in S : f[y] = v}
             B == {y \in R : g[y] = v}
  <2>1. /\ v = n => B = A \cup {x}
        /\ v # n => B = A
        /\ x \notin A /\ A \subseteq S
    OBVIOUS
  <2> HIDE DEF A, B
  <2>2. IsFiniteSet(A) /\ Cardinality(A) \in Nat
    BY <2>1, FS_Subset, FS_CardinalityType
  <2>3. Cardinality(A \cup {x}) = Cardinality(A) + 1
    BY <2>1, <2>2, FS_AddElement
  <2>4. /\ v = n => Cardinality(B) = Cardinality(A) + 1
        /\ v # n => Cardinality(B) = Cardinality(A)
    BY <2>1, <2>2, <2>3
  <2> HIDE DEF n
  <2> QED
    BY <2>2, <2>4 DEF A, B, Count
<1> HIDE DEF R
<1>3. /\ h \in Heaps /\ k \in Heaps
      /\ \A v \in Int :
            /\ Copies(h, v) = (IF v = i THEN 1 ELSE 0) + Count(f, S, v)
            /\ Copies(k, v) = (IF v = i THEN 1 ELSE 0) + Count(g, R, v)
  BY <1>1, HeapCopies
<1> HIDE DEF h, k, n
<1>4. n \in Int
  BY DEF n
<1>5. Pushed(h, n) \in Heaps
  BY <1>3, <1>4, HeapTypes
<1>6. ASSUME NEW v \in Int PROVE Copies(Pushed(h, n), v) = Copies(k, v)
  <2>1. Copies(Pushed(h, n), v) = Copies(h, v) + (IF v = n THEN 1 ELSE 0)
    BY <1>3, <1>4, PushCopies
  <2> QED
    BY <1>2, <1>3, <2>1
<1>7. Pushed(h, n) = k
  BY <1>3, <1>5, <1>6, SameHeap
<1> QED
  BY <1>7 DEF h, k, n, R

\* Removing the value of an element gives the heap of the rest.
LEMMA HeapRemove ==
    ASSUME NEW i \in Int, NEW f, NEW g, NEW S, IsFiniteSet(S), NEW x \in S,
           \A y \in S : f[y] \in Int,
           \A y \in S \ {x} : g[y] = f[y]
    PROVE  Removed(HeapOf(i, f, S), f[x]) = HeapOf(i, g, S \ {x})
<1> DEFINE R == S \ {x}
           h == HeapOf(i, f, S)
           k == HeapOf(i, g, R)
           n == f[x]
<1>1. IsFiniteSet(R) /\ \A y \in R : g[y] \in Int
  BY FS_RemoveElement
<1>2. ASSUME NEW v \in Int
      PROVE  /\ Count(g, R, v) = Count(f, S, v) - (IF v = n THEN 1 ELSE 0)
             /\ Count(g, R, v) \in Nat /\ Count(f, S, v) \in Nat
  <2> DEFINE A == {y \in S : f[y] = v}
             B == {y \in R : g[y] = v}
  <2>1. /\ v = n => B = A \ {x} /\ x \in A
        /\ v # n => B = A
        /\ A \subseteq S
    OBVIOUS
  <2> HIDE DEF A, B
  <2>2. IsFiniteSet(A) /\ Cardinality(A) \in Nat
    BY <2>1, FS_Subset, FS_CardinalityType
  <2>3. CASE v = n
    <3>1. Cardinality(A \ {x}) = Cardinality(A) - 1 /\ IsFiniteSet(A \ {x})
      BY <2>1, <2>2, <2>3, FS_RemoveElement
    <3>2. Cardinality(B) = Cardinality(A) - 1 /\ Cardinality(B) \in Nat
      BY <2>1, <2>3, <3>1, FS_CardinalityType
    <3> HIDE DEF n
    <3> QED
      BY <2>2, <2>3, <3>2 DEF A, B, Count
  <2>4. CASE v # n
    <3>1. Cardinality(B) = Cardinality(A)
      BY <2>1, <2>4
    <3> HIDE DEF n
    <3> QED
      BY <2>2, <2>4, <3>1 DEF A, B, Count
  <2> QED
    BY <2>3, <2>4
<1> HIDE DEF R
<1>3. /\ h \in Heaps /\ k \in Heaps
      /\ \A v \in Int :
            /\ Copies(h, v) = (IF v = i THEN 1 ELSE 0) + Count(f, S, v)
            /\ Copies(k, v) = (IF v = i THEN 1 ELSE 0) + Count(g, R, v)
  BY <1>1, HeapCopies
<1>4. n \in Int
  OBVIOUS
<1> HIDE DEF h, k, n
<1>5. Removed(h, n) \in Heaps
  BY <1>3, <1>4, HeapTypes
<1>6. ASSUME NEW v \in Int PROVE Copies(Removed(h, n), v) = Copies(k, v)
  <2>1. Copies(Removed(h, n), v) =
            Copies(h, v) - (IF v = n /\ Copies(h, v) # 0 THEN 1 ELSE 0)
    BY <1>3, <1>4, RemoveCopies
  <2> QED
    BY <1>2, <1>3, <2>1
<1>7. Removed(h, n) = k
  BY <1>3, <1>5, <1>6, SameHeap
<1> QED
  BY <1>7 DEF h, k, n, R

\* The same when the values stay as they are.
LEMMA HeapTaken ==
    ASSUME NEW i \in Int, NEW f, NEW S, IsFiniteSet(S), NEW x \in S,
           \A y \in S : f[y] \in Int
    PROVE  Removed(HeapOf(i, f, S), f[x]) = HeapOf(i, f, S \ {x})
<1>1. PICK g : g = f
  OBVIOUS
<1>2. \A y \in S \ {x} : g[y] = f[y]
  BY <1>1
<1>3. Removed(HeapOf(i, f, S), f[x]) = HeapOf(i, g, S \ {x})
  BY <1>2, HeapRemove
<1> QED
  BY <1>1, <1>3

-----------------------------------------------------------------------------
(***************************************************************************)
(* The topologies, and what the methods that change one piece of it change *)
(***************************************************************************)
Networks ==
    [disabled : SUBSET Links, corrupting : SUBSET Links,
     lgEnabled : SUBSET Links,
     lossRate : [Links -> Int], effLossRate : [Links -> Int],
     effCapacity : [Links -> Int],
     aggSwitches : [Tors -> SUBSET Aggs], activeUplinks : [Aggs -> Int],
     numPaths : [Tors -> Int],
     podCapacity : [Pods \X {"TOR_AGG", "AGG_CORE"} -> Int],
     totalLossRate : Int, totalEffLossRate : Int,
     topLossRates : Heaps, lgPorts : [Ports -> Int], topLgPorts : Heaps]

\* The two ends of a link, its layer, its pod and its pipes.
LEMMA LinkEnds ==
    ASSUME NEW l \in Links
    PROVE  /\ l[1] \in Switches /\ l[2] \in Switches /\ l[1] # l[2]
           /\ l \in TorLinks <=> l \notin CoreLinks
           /\ l \in TorLinks => l[1] \in Tors /\ l[2] \in Aggs
           /\ l \in CoreLinks => l[1] \in Aggs /\ l[2] \in Cores
           /\ CapacityKey(l) \in Pods \X {"TOR_AGG", "AGG_CORE"}
           /\ \A sw \in Ends(l) : <<sw, PipeOf[<<sw, l>>]>> \in Ports
<1>1. /\ l \in TorLinks => l \in Tors \X Aggs
      /\ l \in CoreLinks => l \in Aggs \X Cores
      /\ l \in TorLinks \/ l \in CoreLinks
  BY DEF Links, TorLinks, CoreLinks
<1>2. l[1] \in Tors \cup Aggs /\ l[1] \in Switches /\ l[2] \in Switches
  BY <1>1 DEF Switches
<1>3. CapacityKey(l) \in Pods \X {"TOR_AGG", "AGG_CORE"}
  BY <1>2 DEF CapacityKey, PodOfLink, LinkType, Pods
<1>4. ASSUME NEW sw \in Ends(l)
      PROVE  <<sw, PipeOf[<<sw, l>>]>> \in Ports
  <2> DEFINE p == <<sw, l>>
  <2>1. p \in Plugs /\ p[1] = sw
    BY <1>2 DEF Ends, Plugs
  <2> HIDE DEF p
  <2>2. <<p[1], PipeOf[p]>> \in Ports
    BY <2>1 DEF Ports
  <2> QED
    BY <2>1, <2>2 DEF p
<1> QED
  BY <1>1, <1>2, <1>3, <1>4, TopologyAssumption

Uplinks(a, avoided)   == {c \in Cores : <<a, c>> \in CoreLinks \ avoided}
Neighbours(t, avoided) == {a \in Aggs : <<t, a>> \in TorLinks \ avoided}

\* A link is the pair of its ends.
LEMMA LinkPairs ==
    /\ \A l \in TorLinks : l \in Tors \X Aggs /\ l = <<l[1], l[2]>>
    /\ \A l \in CoreLinks : l \in Aggs \X Cores /\ l = <<l[1], l[2]>>
BY DEF TorLinks, CoreLinks

\* Links, uplinks and neighbours are finitely many.
LEMMA LinksFinite ==
    /\ IsFiniteSet(TorLinks) /\ IsFiniteSet(CoreLinks) /\ IsFiniteSet(Links)
    /\ \A a, avoided : /\ IsFiniteSet(Uplinks(a, avoided))
                       /\ Cardinality(Uplinks(a, avoided)) \in Nat
    /\ \A t, avoided : IsFiniteSet(Neighbours(t, avoided))
<1>1. IsFiniteSet(Tors \X Aggs) /\ IsFiniteSet(Aggs \X Cores)
  BY TopologyAssumption, FS_Product
<1>2. TorLinks \subseteq Tors \X Aggs /\ CoreLinks \subseteq Aggs \X Cores
  BY DEF TorLinks, CoreLinks
<1>3. IsFiniteSet(TorLinks) /\ IsFiniteSet(CoreLinks)
  BY <1>1, <1>2, FS_Subset
<1>4. ASSUME NEW a, NEW avoided
      PROVE  /\ IsFiniteSet(Uplinks(a, avoided))
             /\ Cardinality(Uplinks(a, avoided)) \in Nat
  <2>1. Uplinks(a, avoided) \subseteq Cores
    BY DEF Uplinks
  <2> QED
    BY <2>1, FS_Subset, FS_CardinalityType, TopologyAssumption
<1>5. ASSUME NEW t, NEW avoided
      PROVE  IsFiniteSet(Neighbours(t, avoided))
  <2>1. Neighbours(t, avoided) \subseteq Aggs
    BY DEF Neighbours
  <2> QED
    BY <2>1, FS_Subset, TopologyAssumption
<1> QED
  BY <1>3, <1>4, <1>5, FS_Union DEF Links

\* Counting at one port changes the counts and their heap only.
LEMMA LgPortsEffect ==
    ASSUME NEW T \in Networks, NEW l \in Links, NEW sw \in Ends(l)
    PROVE  \A U \in {IncrLgPorts(T, sw, l), DecrLgPorts(T, sw, l)} :
                /\ U \in Networks
                /\ U = [T EXCEPT !.lgPorts = U.lgPorts,
                                 !.topLgPorts = U.topLgPorts]
<1> DEFINE port == <<sw, PipeOf[<<sw, l>>]>>
           n    == T.lgPorts[port]
<1>1. T.lgPorts \in [Ports -> Int] /\ T.topLgPorts \in Heaps /\ n \in Int
  BY LinkEnds DEF Networks
<1> HIDE DEF n
<1>2. ASSUME NEW ports \in [Ports -> Int], NEW heap \in Heaps
      PROVE  [T EXCEPT !.lgPorts = ports, !.topLgPorts = heap] \in Networks
  BY DEF Networks
<1>3. ASSUME NEW v \in Int
      PROVE  [T.lgPorts EXCEPT ![port] = v] \in [Ports -> Int]
  BY <1>1
<1>4. PICK incr \in Heaps :
        IncrLgPorts(T, sw, l) =
            [T EXCEPT !.lgPorts = [T.lgPorts EXCEPT ![port] = n + 1],
                      !.topLgPorts = incr]
  <2> DEFINE base == IF n # 0 THEN Removed(T.topLgPorts, n) ELSE T.topLgPorts
             heap == Pushed(base, n + 1)
  <2>1. heap \in Heaps
    BY <1>1, HeapTypes
  <2>2. IncrLgPorts(T, sw, l) =
            [T EXCEPT !.lgPorts = [T.lgPorts EXCEPT ![port] = n + 1],
                      !.topLgPorts = heap]
    BY DEF IncrLgPorts, Networks, n
  <2> HIDE DEF heap
  <2> QED
    BY <2>1, <2>2
<1>5. PICK decr \in Heaps :
        DecrLgPorts(T, sw, l) =
            [T EXCEPT !.lgPorts = [T.lgPorts EXCEPT ![port] = n - 1],
                      !.topLgPorts = decr]
  <2> DEFINE base == Removed(T.topLgPorts, n)
             heap == IF n # 1 THEN Pushed(base, n - 1) ELSE base
  <2>1. heap \in Heaps
    BY <1>1, HeapTypes
  <2>2. DecrLgPorts(T, sw, l) =
            [T EXCEPT !.lgPorts = [T.lgPorts EXCEPT ![port] = n - 1],
                      !.topLgPorts = heap]
    BY DEF DecrLgPorts, Networks, n
  <2> HIDE DEF heap
  <2> QED
    BY <2>1, <2>2
<1>6. ASSUME NEW U, NEW v \in Int, NEW h \in Heaps,
             U = [T EXCEPT !.lgPorts = [T.lgPorts EXCEPT ![port] = v],
                           !.topLgPorts = h]
      PROVE  /\ U \in Networks
             /\ U = [T EXCEPT !.lgPorts = U.lgPorts,
                              !.topLgPorts = U.topLgPorts]
  <2> DEFINE ports == [T.lgPorts EXCEPT ![port] = v]
  <2>1. ports \in [Ports -> Int]
    BY <1>3
  <2> HIDE DEF ports
  <2>2. U = [T EXCEPT !.lgPorts = ports, !.topLgPorts = h]
    BY <1>6 DEF ports
  <2>3. U \in Networks
    BY <1>2, <2>1, <2>2
  <2> QED
    BY <2>2, <2>3 DEF Networks
<1> HIDE DEF port
<1>7. n + 1 \in Int /\ n - 1 \in Int
  BY <1>1
<1> QED
  BY <1>4, <1>5, <1>6, <1>7

\* LinkGuardian is on the links of S instead, and the ports may have changed.
LgSwitched(T, S, U) ==
    /\ U \in Networks
    /\ U = [T EXCEPT !.lgEnabled = S, !.lgPorts = U.lgPorts,
                     !.topLgPorts = U.topLgPorts]

\* Switching LinkGuardian on or off at a link changes the link's mark, the
\* counts and their heap only.
LEMMA SetLgEffect ==
    ASSUME NEW T \in Networks, NEW l \in Links
    PROVE  /\ LgSwitched(T, T.lgEnabled \cup {l}, SetLgEnabled(T, l))
           /\ LgSwitched(T, T.lgEnabled \ {l}, SetLgDisabled(T, l))
<1>1. l[1] \in Ends(l) /\ l[2] \in Ends(l)
  BY DEF Ends
<1>2. ASSUME NEW S \in SUBSET Links
      PROVE  /\ [T EXCEPT !.lgEnabled = S] \in Networks
             /\ S = T.lgEnabled
                    => T = [T EXCEPT !.lgEnabled = S, !.lgPorts = T.lgPorts,
                                     !.topLgPorts = T.topLgPorts]
  BY DEF Networks
<1>3. ASSUME NEW S \in SUBSET Links, NEW V \in Networks, NEW U \in Networks,
             V = [[T EXCEPT !.lgEnabled = S] EXCEPT !.lgPorts = V.lgPorts,
                                                   !.topLgPorts = V.topLgPorts],
             U = [V EXCEPT !.lgPorts = U.lgPorts, !.topLgPorts = U.topLgPorts]
      PROVE  U = [T EXCEPT !.lgEnabled = S, !.lgPorts = U.lgPorts,
                           !.topLgPorts = U.topLgPorts]
  BY <1>3 DEF Networks
<1>4. /\ T.lgEnabled \cup {l} \in SUBSET Links
      /\ T.lgEnabled \ {l} \in SUBSET Links
  BY DEF Networks
<1>5. ASSUME NEW U, U = SetLgEnabled(T, l)
      PROVE  /\ U \in Networks
             /\ U = [T EXCEPT !.lgEnabled = T.lgEnabled \cup {l},
                              !.lgPorts = U.lgPorts,
                              !.topLgPorts = U.topLgPorts]
  <2>1. CASE l \in T.lgEnabled
    <3>1. U = T /\ T.lgEnabled \cup {l} = T.lgEnabled
      BY <1>5, <2>1 DEF SetLgEnabled
    <3> QED
      BY <1>2, <1>4, <3>1
  <2>2. CASE l \notin T.lgEnabled
    <3> DEFINE S == T.lgEnabled \cup {l}
               W == [T EXCEPT !.lgEnabled = S]
               V == IncrLgPorts(W, l[1], l)
    <3>1. U = IncrLgPorts(V, l[2], l)
      BY <1>5, <2>2 DEF SetLgEnabled
    <3>2. S \in SUBSET Links /\ W \in Networks
      BY <1>2, <1>4
    <3> HIDE DEF W
    <3>3. /\ V \in Networks
          /\ V = [W EXCEPT !.lgPorts = V.lgPorts, !.topLgPorts = V.topLgPorts]
      BY <1>1, <3>2, LgPortsEffect
    <3> HIDE DEF V
    <3>4. V \in Networks
      BY <3>3
    <3>5. /\ U \in Networks
          /\ U = [V EXCEPT !.lgPorts = U.lgPorts, !.topLgPorts = U.topLgPorts]
      BY <1>1, <3>1, <3>4, LgPortsEffect
    <3> HIDE DEF S
    <3>6. U = [T EXCEPT !.lgEnabled = S, !.lgPorts = U.lgPorts,
                        !.topLgPorts = U.topLgPorts]
      BY <1>3, <3>2, <3>3, <3>5 DEF W
    <3> QED
      BY <3>5, <3>6 DEF S
  <2> QED
    BY <2>1, <2>2
<1>6. ASSUME NEW U, U = SetLgDisabled(T, l)
      PROVE  /\ U \in Networks
             /\ U = [T EXCEPT !.lgEnabled = T.lgEnabled \ {l},
                              !.lgPorts = U.lgPorts,
                              !.topLgPorts = U.topLgPorts]
  <2>1. CASE l \notin T.lgEnabled
    <3>1. U = T /\ T.lgEnabled \ {l} = T.lgEnabled
      BY <1>6, <2>1 DEF SetLgDisabled
    <3> QED
      BY <1>2, <1>4, <3>1
  <2>2. CASE l \in T.lgEnabled
    <3> DEFINE S == T.lgEnabled \ {l}
               W == [T EXCEPT !.lgEnabled = S]
               V == DecrLgPorts(W, l[1], l)
    <3>1. U = DecrLgPorts(V, l[2], l)
      BY <1>6, <2>2 DEF SetLgDisabled
    <3>2. S \in SUBSET Links /\ W \in Networks
      BY <1>2, <1>4
    <3> HIDE DEF W
    <3>3. /\ V \in Networks
          /\ V = [W EXCEPT !.lgPorts = V.lgPorts, !.topLgPorts = V.topLgPorts]
      BY <1>1, <3>2, LgPortsEffect
    <3> HIDE DEF V
    <3>4. V \in Networks
      BY <3>3
    <3>5. /\ U \in Networks
          /\ U = [V EXCEPT !.lgPorts = U.lgPorts, !.topLgPorts = U.topLgPorts]
      BY <1>1, <3>1, <3>4, LgPortsEffect
    <3> HIDE DEF S
    <3>6. U = [T EXCEPT !.lgEnabled = S, !.lgPorts = U.lgPorts,
                        !.topLgPorts = U.topLgPorts]
      BY <1>3, <3>2, <3>3, <3>5 DEF W
    <3> QED
      BY <3>5, <3>6 DEF S
  <2> QED
    BY <2>1, <2>2
<1> QED
  BY <1>5, <1>6 DEF LgSwitched

-----------------------------------------------------------------------------
(***************************************************************************)
(* The ports.  LinkGuardian counts once at the port of each end of a link. *)
(***************************************************************************)
PortOf(sw, l) == <<sw, PipeOf[<<sw, l>>]>>
OnPort(S, p)  == {l \in S : p[1] \in Ends(l) /\ PipeOf[<<p[1], l>>] = p[2]}
LgPortSet(T)  == {p \in Ports : T.lgPorts[p] # 0}
HeapExact(T)  == T.topLgPorts = HeapOf(0, T.lgPorts, LgPortSet(T))
PortsExact(T) ==
    /\ \A p \in Ports : T.lgPorts[p] = Cardinality(OnPort(T.lgEnabled, p))
    /\ HeapExact(T)

\* There are finitely many ports.
LEMMA PortsFinite == IsFiniteSet(Ports)
<1> DEFINE f == [p \in Plugs |-> <<p[1], PipeOf[p]>>]
<1>1. IsFiniteSet(Switches)
  BY TopologyAssumption, FS_Union DEF Switches
<1>2. IsFiniteSet(Switches \X Links)
  BY <1>1, LinksFinite, FS_Product
<1>3. IsFiniteSet(Plugs)
  <2>1. Plugs \subseteq Switches \X Links
    BY DEF Plugs
  <2> QED
    BY <1>2, <2>1, FS_Subset
<1>4. f \in Surjection(Plugs, Ports)
  BY DEF Ports, Surjection
<1> QED
  BY <1>3, <1>4, FS_Surjection

\* A link has two ports.
LEMMA PortsOfLink ==
    ASSUME NEW l \in Links
    PROVE  /\ PortOf(l[1], l) \in Ports /\ PortOf(l[2], l) \in Ports
           /\ PortOf(l[1], l) # PortOf(l[2], l)
           /\ \A p \in Ports :
                (p[1] \in Ends(l) /\ PipeOf[<<p[1], l>>] = p[2])
                    <=> p \in {PortOf(l[1], l), PortOf(l[2], l)}
<1>1. l[1] # l[2] /\ \A sw \in Ends(l) : PortOf(sw, l) \in Ports
  BY LinkEnds DEF PortOf
<1>2. \A p \in Ports : p = <<p[1], p[2]>>
  BY DEF Ports
<1> QED
  BY <1>1, <1>2 DEF PortOf, Ends

\* One more protected link counts one more at its two ports.
LEMMA OnPortSizes ==
    ASSUME NEW S \in SUBSET Links, NEW l \in Links, l \notin S, NEW p \in Ports
    PROVE  /\ Cardinality(OnPort(S, p)) \in Nat
           /\ Cardinality(OnPort(S \cup {l}, p)) = Cardinality(OnPort(S, p))
                + IF p \in {PortOf(l[1], l), PortOf(l[2], l)} THEN 1 ELSE 0
<1> DEFINE A == OnPort(S, p)
           B == OnPort(S \cup {l}, p)
<1>1. /\ p \in {PortOf(l[1], l), PortOf(l[2], l)} => B = A \cup {l}
      /\ p \notin {PortOf(l[1], l), PortOf(l[2], l)} => B = A
      /\ A \subseteq Links /\ l \notin A
  BY PortsOfLink DEF OnPort
<1> HIDE DEF A, B
<1>2. IsFiniteSet(A) /\ Cardinality(A) \in Nat
  BY <1>1, LinksFinite, FS_Subset, FS_CardinalityType
<1>3. Cardinality(A \cup {l}) = Cardinality(A) + 1
  BY <1>1, <1>2, FS_AddElement
<1>4. /\ p \in {PortOf(l[1], l), PortOf(l[2], l)}
            => Cardinality(B) = Cardinality(A) + 1
      /\ p \notin {PortOf(l[1], l), PortOf(l[2], l)}
            => Cardinality(B) = Cardinality(A)
  BY <1>1, <1>3
<1> QED
  BY <1>2, <1>4 DEF A, B

\* incr_num_lg_ports replaces the old count in the heap by the new one.
LEMMA IncrPort ==
    ASSUME NEW T \in Networks, NEW l \in Links, NEW sw \in Ends(l),
           HeapExact(T), T.lgPorts[PortOf(sw, l)] \in Nat,
           NEW U, U = IncrLgPorts(T, sw, l)
    PROVE  /\ U.lgPorts = [T.lgPorts EXCEPT ![PortOf(sw, l)] = @ + 1]
           /\ HeapExact(U)
<1> DEFINE port == PortOf(sw, l)
           n    == T.lgPorts[port]
           S    == LgPortSet(T)
           R    == S \ {port}
           f    == T.lgPorts
           g    == [f EXCEPT ![port] = n + 1]
           base == IF n # 0 THEN Removed(T.topLgPorts, n) ELSE T.topLgPorts
<1>1. /\ U.lgPorts = [T.lgPorts EXCEPT ![port] = n + 1]
      /\ U.topLgPorts = Pushed(base, n + 1)
  BY DEF IncrLgPorts, Networks, PortOf
<1>2. /\ port \in Ports /\ f \in [Ports -> Int] /\ n \in Nat /\ f[port] = n
      /\ S \subseteq Ports /\ (port \in S <=> n # 0)
      /\ T.topLgPorts = HeapOf(0, f, S)
  BY LinkEnds DEF Networks, PortOf, LgPortSet, HeapExact
<1>3. IsFiniteSet(S) /\ IsFiniteSet(R)
  BY <1>2, PortsFinite, FS_Subset
<1>4. /\ g[port] = n + 1 /\ g \in [Ports -> Int]
      /\ \A p \in R : g[p] = f[p] /\ f[p] \in Int
      /\ \A p \in S : f[p] \in Int
      /\ R \subseteq Ports
  BY <1>2
<1>5. {p \in Ports : g[p] # 0} = R \cup {port}
  BY <1>2 DEF LgPortSet
<1> HIDE DEF g, port, n, S, f
<1>6. base = HeapOf(0, f, R)
  <2>1. CASE n # 0
    <3>1. Removed(HeapOf(0, f, S), f[port]) = HeapOf(0, f, S \ {port})
      BY <1>2, <1>3, <1>4, <2>1, HeapRemove
    <3> QED
      BY <1>2, <2>1, <3>1
  <2>2. CASE n = 0
    BY <1>2, <2>2
  <2> QED
    BY <2>1, <2>2
<1> HIDE DEF base, R
<1>7. Pushed(HeapOf(0, f, R), g[port]) = HeapOf(0, g, R \cup {port})
  <2>1. port \notin R
    BY DEF R
  <2>2. 0 \in Int /\ g[port] \in Int
    BY <1>2, <1>4
  <2>3. \A p \in R : f[p] \in Int /\ g[p] = f[p]
    BY <1>4
  <2> QED
    BY <1>3, <2>1, <2>2, <2>3, HeapPush
<1>8. U.topLgPorts = HeapOf(0, g, R \cup {port})
  BY <1>1, <1>4, <1>6, <1>7
<1>9. U.lgPorts = g
  BY <1>1 DEF g, f
<1> QED
  BY <1>5, <1>8, <1>9, <1>1 DEF HeapExact, LgPortSet, port, n

\* decr_num_lg_ports does too.
LEMMA DecrPort ==
    ASSUME NEW T \in Networks, NEW l \in Links, NEW sw \in Ends(l),
           HeapExact(T), T.lgPorts[PortOf(sw, l)] \in Nat \ {0},
           NEW U, U = DecrLgPorts(T, sw, l)
    PROVE  /\ U.lgPorts = [T.lgPorts EXCEPT ![PortOf(sw, l)] = @ - 1]
           /\ HeapExact(U)
<1> DEFINE port == PortOf(sw, l)
           n    == T.lgPorts[port]
           S    == LgPortSet(T)
           R    == S \ {port}
           f    == T.lgPorts
           g    == [f EXCEPT ![port] = n - 1]
           base == Removed(T.topLgPorts, n)
<1>1. /\ U.lgPorts = [T.lgPorts EXCEPT ![port] = n - 1]
      /\ U.topLgPorts = IF n # 1 THEN Pushed(base, n - 1) ELSE base
  BY DEF DecrLgPorts, Networks, PortOf
<1>2. /\ port \in Ports /\ f \in [Ports -> Int] /\ n \in Nat \ {0}
      /\ f[port] = n /\ S \subseteq Ports /\ port \in S
      /\ T.topLgPorts = HeapOf(0, f, S)
  BY LinkEnds DEF Networks, PortOf, LgPortSet, HeapExact
<1>3. IsFiniteSet(S) /\ IsFiniteSet(R)
  BY <1>2, PortsFinite, FS_Subset
<1>4. /\ g[port] = n - 1 /\ g \in [Ports -> Int]
      /\ \A p \in R : g[p] = f[p] /\ f[p] \in Int
      /\ \A p \in S : f[p] \in Int
      /\ R \subseteq Ports
  BY <1>2
<1>5. {p \in Ports : g[p] # 0} = IF n # 1 THEN R \cup {port} ELSE R
  BY <1>2 DEF LgPortSet
<1>6. \A p \in S \ {port} : g[p] = f[p]
  BY <1>4
<1> HIDE DEF g, port, n, S, f
<1>7. base = HeapOf(0, g, R)
  <2>1. Removed(HeapOf(0, f, S), f[port]) = HeapOf(0, g, S \ {port})
    BY <1>2, <1>3, <1>4, <1>6, HeapRemove
  <2> QED
    BY <1>2, <2>1
<1> HIDE DEF base, R
<1>8. Pushed(HeapOf(0, g, R), g[port]) = HeapOf(0, g, R \cup {port})
  <2>1. port \notin R
    BY DEF R
  <2>2. 0 \in Int /\ g[port] \in Int
    BY <1>2, <1>4
  <2>3. \A p \in R : g[p] \in Int /\ g[p] = g[p]
    BY <1>4
  <2> QED
    BY <1>3, <2>1, <2>2, <2>3, HeapPush
<1>9. U.topLgPorts = HeapOf(0, g, IF n # 1 THEN R \cup {port} ELSE R)
  BY <1>1, <1>4, <1>7, <1>8
<1>10. U.lgPorts = g
  BY <1>1 DEF g, f
<1> QED
  BY <1>5, <1>9, <1>10, <1>1 DEF HeapExact, LgPortSet, port, n

\* Counts that stay exact because nothing of theirs changes.
LEMMA SamePorts ==
    ASSUME NEW T, NEW U, U.lgEnabled = T.lgEnabled, U.lgPorts = T.lgPorts,
           U.topLgPorts = T.topLgPorts, PortsExact(T)
    PROVE  PortsExact(U)
BY DEF PortsExact, HeapExact, LgPortSet

\* Switching LinkGuardian on or off keeps the counts exact.
LEMMA PortsKept ==
    ASSUME NEW T \in Networks, NEW l \in Links, PortsExact(T)
    PROVE  PortsExact(SetLgEnabled(T, l)) /\ PortsExact(SetLgDisabled(T, l))
<1> DEFINE p1 == PortOf(l[1], l)
           p2 == PortOf(l[2], l)
           E  == T.lgEnabled
<1>1. /\ p1 \in Ports /\ p2 \in Ports /\ p1 # p2
      /\ l[1] \in Ends(l) /\ l[2] \in Ends(l)
  BY PortsOfLink DEF Ends
<1>2. /\ T.lgPorts \in [Ports -> Int] /\ E \in SUBSET Links
      /\ \A p \in Ports : T.lgPorts[p] = Cardinality(OnPort(E, p))
      /\ HeapExact(T)
  BY DEF PortsExact, Networks
<1>3. ASSUME NEW S \in SUBSET Links, NEW W, W = [T EXCEPT !.lgEnabled = S]
      PROVE  /\ W \in Networks /\ W.lgPorts = T.lgPorts /\ HeapExact(W)
             /\ W.lgEnabled = S
  BY <1>2, <1>3 DEF Networks, HeapExact, LgPortSet
<1>4. CASE l \notin E
  <2> DEFINE S == E \cup {l}
             W == [T EXCEPT !.lgEnabled = S]
             V == IncrLgPorts(W, l[1], l)
             U == IncrLgPorts(V, l[2], l)
  <2>1. SetLgEnabled(T, l) = U /\ SetLgDisabled(T, l) = T
    BY <1>4 DEF SetLgEnabled, SetLgDisabled
  <2>2. /\ W \in Networks /\ W.lgPorts = T.lgPorts /\ HeapExact(W)
        /\ W.lgEnabled = S /\ S \in SUBSET Links
    <3>1. S \in SUBSET Links
      BY <1>2
    <3> HIDE DEF S
    <3> QED
      BY <1>3, <3>1
  <2>3. ASSUME NEW p \in Ports
        PROVE  /\ T.lgPorts[p] \in Nat
               /\ Cardinality(OnPort(S, p)) =
                    T.lgPorts[p] + IF p \in {p1, p2} THEN 1 ELSE 0
    <3> HIDE DEF E
    <3>1. /\ Cardinality(OnPort(E, p)) \in Nat
          /\ Cardinality(OnPort(E \cup {l}, p)) =
                Cardinality(OnPort(E, p)) + IF p \in {p1, p2} THEN 1 ELSE 0
      BY <1>2, <1>4, OnPortSizes
    <3>2. T.lgPorts[p] = Cardinality(OnPort(E, p))
      BY <1>2
    <3> QED
      BY <3>1, <3>2
  <2> HIDE DEF S, W
  <2>4. /\ V \in Networks /\ V.lgEnabled = S
        /\ V.lgPorts = [T.lgPorts EXCEPT ![p1] = @ + 1]
        /\ HeapExact(V)
    <3>1. V \in Networks /\ V = [W EXCEPT !.lgPorts = V.lgPorts,
                                          !.topLgPorts = V.topLgPorts]
      BY <1>1, <2>2, LgPortsEffect
    <3>2. W.lgPorts[p1] \in Nat
      BY <1>1, <2>2, <2>3
    <3>3. V.lgPorts = [W.lgPorts EXCEPT ![p1] = @ + 1] /\ HeapExact(V)
      BY <1>1, <2>2, <3>2, IncrPort
    <3> HIDE DEF V
    <3>4. V.lgEnabled = W.lgEnabled
      BY <2>2, <3>1 DEF Networks
    <3> QED
      BY <2>2, <3>1, <3>3, <3>4
  <2> HIDE DEF V
  <2>5. /\ U.lgEnabled = S
        /\ U.lgPorts = [V.lgPorts EXCEPT ![p2] = @ + 1]
        /\ HeapExact(U)
    <3>1. U \in Networks /\ U = [V EXCEPT !.lgPorts = U.lgPorts,
                                          !.topLgPorts = U.topLgPorts]
      <4>1. V \in Networks
        BY <2>4
      <4> QED
        BY <1>1, <4>1, LgPortsEffect
    <3>2. V.lgPorts[p2] \in Nat
      BY <1>1, <1>2, <2>3, <2>4
    <3>3. U.lgPorts = [V.lgPorts EXCEPT ![p2] = @ + 1] /\ HeapExact(U)
      BY <1>1, <2>4, <3>2, IncrPort
    <3> HIDE DEF U
    <3>4. U.lgEnabled = V.lgEnabled
      BY <2>4, <3>1 DEF Networks
    <3> QED
      BY <2>4, <3>1, <3>3, <3>4
  <2> HIDE DEF U
  <2>6. ASSUME NEW p \in Ports
        PROVE  U.lgPorts[p] = Cardinality(OnPort(S, p))
    BY <1>1, <1>2, <2>3, <2>4, <2>5
  <2>7. PortsExact(U)
    BY <2>5, <2>6 DEF PortsExact
  <2> QED
    BY <2>1, <2>7
<1>5. CASE l \in E
  <2> DEFINE S == E \ {l}
             W == [T EXCEPT !.lgEnabled = S]
             V == DecrLgPorts(W, l[1], l)
             U == DecrLgPorts(V, l[2], l)
  <2>1. SetLgEnabled(T, l) = T /\ SetLgDisabled(T, l) = U
    BY <1>5 DEF SetLgEnabled, SetLgDisabled
  <2>2. /\ W \in Networks /\ W.lgPorts = T.lgPorts /\ HeapExact(W)
        /\ W.lgEnabled = S /\ S \in SUBSET Links
    <3>1. S \in SUBSET Links
      BY <1>2
    <3> HIDE DEF S
    <3> QED
      BY <1>3, <3>1
  <2>3. ASSUME NEW p \in Ports
        PROVE  /\ Cardinality(OnPort(S, p)) \in Nat
               /\ T.lgPorts[p] = Cardinality(OnPort(S, p))
                        + IF p \in {p1, p2} THEN 1 ELSE 0
    <3>1. S \cup {l} = E /\ l \notin S
      BY <1>5
    <3> HIDE DEF S
    <3> QED
      BY <1>2, <2>2, <3>1, OnPortSizes
  <2> HIDE DEF S, W
  <2>4. /\ V \in Networks /\ V.lgEnabled = S
        /\ V.lgPorts = [T.lgPorts EXCEPT ![p1] = @ - 1]
        /\ HeapExact(V)
    <3>1. V \in Networks /\ V = [W EXCEPT !.lgPorts = V.lgPorts,
                                          !.topLgPorts = V.topLgPorts]
      BY <1>1, <2>2, LgPortsEffect
    <3>2. W.lgPorts[p1] \in Nat \ {0}
      BY <1>1, <2>2, <2>3
    <3>3. V.lgPorts = [W.lgPorts EXCEPT ![p1] = @ - 1] /\ HeapExact(V)
      BY <1>1, <2>2, <3>2, DecrPort
    <3> HIDE DEF V
    <3>4. V.lgEnabled = W.lgEnabled
      BY <2>2, <3>1 DEF Networks
    <3> QED
      BY <2>2, <3>1, <3>3, <3>4
  <2> HIDE DEF V
  <2>5. /\ U.lgEnabled = S
        /\ U.lgPorts = [V.lgPorts EXCEPT ![p2] = @ - 1]
        /\ HeapExact(U)
    <3>1. U \in Networks /\ U = [V EXCEPT !.lgPorts = U.lgPorts,
                                          !.topLgPorts = U.topLgPorts]
      <4>1. V \in Networks
        BY <2>4
      <4> QED
        BY <1>1, <4>1, LgPortsEffect
    <3>2. V.lgPorts[p2] \in Nat \ {0}
      BY <1>1, <1>2, <2>3, <2>4
    <3>3. U.lgPorts = [V.lgPorts EXCEPT ![p2] = @ - 1] /\ HeapExact(U)
      BY <1>1, <2>4, <3>2, DecrPort
    <3> HIDE DEF U
    <3>4. U.lgEnabled = V.lgEnabled
      BY <2>4, <3>1 DEF Networks
    <3> QED
      BY <2>4, <3>1, <3>3, <3>4
  <2> HIDE DEF U
  <2>6. ASSUME NEW p \in Ports
        PROVE  U.lgPorts[p] = Cardinality(OnPort(S, p))
    BY <1>1, <1>2, <2>3, <2>4, <2>5
  <2>7. PortsExact(U)
    BY <2>5, <2>6 DEF PortsExact
  <2> QED
    BY <2>1, <2>7
<1> QED
  BY <1>4, <1>5

\* A link between a ToR and an aggregation switch takes the switch from the
\* ToR's, one to a core switch takes an uplink.
Unplugged(T, l, U) ==
    /\ U \in Networks
    /\ U = [T EXCEPT !.aggSwitches = U.aggSwitches,
                     !.activeUplinks = U.activeUplinks]
    /\ l \in TorLinks =>
        /\ U.aggSwitches = [T.aggSwitches EXCEPT ![l[1]] = @ \ {l[2]}]
        /\ U.activeUplinks = T.activeUplinks
    /\ l \in CoreLinks =>
        /\ U.aggSwitches = T.aggSwitches
        /\ U.activeUplinks = [T.activeUplinks EXCEPT ![l[1]] = @ - 1]

Plugged(T, l, U) ==
    /\ U \in Networks
    /\ U = [T EXCEPT !.aggSwitches = U.aggSwitches,
                     !.activeUplinks = U.activeUplinks]
    /\ l \in TorLinks =>
        /\ U.aggSwitches = [T.aggSwitches EXCEPT ![l[1]] = @ \cup {l[2]}]
        /\ U.activeUplinks = T.activeUplinks
    /\ l \in CoreLinks =>
        /\ U.aggSwitches = T.aggSwitches
        /\ U.activeUplinks = [T.activeUplinks EXCEPT ![l[1]] = @ + 1]

\* Unplug and Plug change what the link's lower end sees above it.
LEMMA PlugEffect ==
    ASSUME NEW T \in Networks, NEW l \in Links
    PROVE  Unplugged(T, l, Unplug(T, l)) /\ Plugged(T, l, Plug(T, l))
<1> SUFFICES ASSUME NEW U
             PROVE  /\ U = Unplug(T, l) => Unplugged(T, l, U)
                    /\ U = Plug(T, l) => Plugged(T, l, U)
  OBVIOUS
<1>1. ASSUME NEW f \in [Tors -> SUBSET Aggs],
             U = [T EXCEPT !.aggSwitches = f]
      PROVE  /\ U \in Networks
             /\ U = [T EXCEPT !.aggSwitches = U.aggSwitches,
                              !.activeUplinks = U.activeUplinks]
             /\ U.aggSwitches = f /\ U.activeUplinks = T.activeUplinks
  BY <1>1 DEF Networks
<1>2. ASSUME NEW f \in [Aggs -> Int],
             U = [T EXCEPT !.activeUplinks = f]
      PROVE  /\ U \in Networks
             /\ U = [T EXCEPT !.aggSwitches = U.aggSwitches,
                              !.activeUplinks = U.activeUplinks]
             /\ U.activeUplinks = f /\ U.aggSwitches = T.aggSwitches
  BY <1>2 DEF Networks
<1>3. CASE l \in TorLinks
  <2> DEFINE less == [T.aggSwitches EXCEPT ![l[1]] = @ \ {l[2]}]
             more == [T.aggSwitches EXCEPT ![l[1]] = @ \cup {l[2]}]
  <2>1. less \in [Tors -> SUBSET Aggs] /\ more \in [Tors -> SUBSET Aggs]
    BY <1>3, LinkEnds DEF Networks
  <2>2. /\ Unplug(T, l) = [T EXCEPT !.aggSwitches = less]
        /\ Plug(T, l) = [T EXCEPT !.aggSwitches = more]
    BY <1>3 DEF Unplug, Plug, Networks
  <2>3. l \notin CoreLinks
    BY <1>3, LinkEnds
  <2> HIDE DEF less, more
  <2> QED
    BY <1>1, <1>3, <2>1, <2>2, <2>3 DEF less, more, Unplugged, Plugged
<1>4. CASE l \in CoreLinks
  <2> DEFINE less == [T.activeUplinks EXCEPT ![l[1]] = @ - 1]
             more == [T.activeUplinks EXCEPT ![l[1]] = @ + 1]
  <2>1. less \in [Aggs -> Int] /\ more \in [Aggs -> Int]
    BY <1>4, LinkEnds DEF Networks
  <2>2. l \notin TorLinks
    BY <1>4, LinkEnds
  <2>3. /\ Unplug(T, l) = [T EXCEPT !.activeUplinks = less]
        /\ Plug(T, l) = [T EXCEPT !.activeUplinks = more]
    BY <2>2 DEF Unplug, Plug, Networks
  <2> HIDE DEF less, more
  <2> QED
    BY <1>2, <1>4, <2>1, <2>2, <2>3 DEF less, more, Unplugged, Plugged
<1> QED
  BY <1>3, <1>4, LinkEnds

\* The number of paths is an integer.
LEMMA PathsType ==
    ASSUME NEW T \in Networks, NEW t \in Tors, NEW excluded,
           NEW uplinks \in [Aggs -> Int]
    PROVE  NumPathsToCore(T, t, excluded, uplinks) \in Int
<1>1. /\ T.aggSwitches[t] \ excluded \in SUBSET Aggs /\ IsFiniteSet(Aggs)
  BY TopologyAssumption DEF Networks
<1>2. IsFiniteSet(T.aggSwitches[t] \ excluded)
  BY <1>1, FS_Subset
<1> QED
  BY <1>1, <1>2, SumType DEF NumPathsToCore

\* The counts that RecountPaths leaves.
Recounted(T, l) ==
    [t \in Tors |-> IF t \in AffectedTors(l)
                    THEN NumPathsToCore(T, t, {}, T.activeUplinks)
                    ELSE T.numPaths[t]]

\* Recounting changes the numbers of paths only.
LEMMA RecountEffect ==
    ASSUME NEW T \in Networks, NEW l \in Links
    PROVE  /\ RecountPaths(T, l) \in Networks
           /\ RecountPaths(T, l) = [T EXCEPT !.numPaths = Recounted(T, l)]
<1> DEFINE paths == Recounted(T, l)
<1>1. paths \in [Tors -> Int]
  BY PathsType DEF Networks, Recounted
<1>2. RecountPaths(T, l) = [T EXCEPT !.numPaths = paths]
  BY DEF RecountPaths, Recounted
<1> HIDE DEF paths
<1>3. [T EXCEPT !.numPaths = paths] \in Networks
  BY <1>1 DEF Networks
<1> QED
  BY <1>2, <1>3 DEF paths

\* What disabling link l of T comes to in U.
Disabled(T, l, U) ==
    /\ U \in Networks
    /\ U.disabled = T.disabled \cup {l}
    /\ U.corrupting = T.corrupting \ {l}
    /\ U.lgEnabled = T.lgEnabled \ {l}
    /\ U.lossRate = T.lossRate
    /\ U.effLossRate = T.effLossRate
    /\ U.effCapacity = T.effCapacity
    /\ l \in TorLinks =>
        /\ U.aggSwitches = [T.aggSwitches EXCEPT ![l[1]] = @ \ {l[2]}]
        /\ U.activeUplinks = T.activeUplinks
    /\ l \in CoreLinks =>
        /\ U.aggSwitches = T.aggSwitches
        /\ U.activeUplinks = [T.activeUplinks EXCEPT ![l[1]] = @ - 1]
    /\ U.numPaths = [t \in Tors |->
                        IF t \in AffectedTors(l)
                        THEN NumPathsToCore(U, t, {}, U.activeUplinks)
                        ELSE T.numPaths[t]]
    /\ U.topLossRates = Removed(T.topLossRates, T.lossRate[l])
    /\ U.totalLossRate = T.totalLossRate - T.lossRate[l]
    /\ U.totalEffLossRate = T.totalEffLossRate - T.effLossRate[l]
    /\ U.podCapacity = [T.podCapacity EXCEPT ![CapacityKey(l)] =
                            @ - T.effCapacity[l]]
    /\ PortsExact(T) => PortsExact(U)

\* What disable_link changes, all of it.
LEMMA DisableEffect ==
    ASSUME NEW T \in Networks, NEW l \in Links
    PROVE  Disabled(T, l, DisableLink(T, l))
<1> DEFINE k     == CapacityKey(l)
           heap  == Removed(T.topLossRates, T.lossRate[l])
           total == T.totalLossRate - T.lossRate[l]
           eff   == T.totalEffLossRate - T.effLossRate[l]
           left  == T.podCapacity[k] - T.effCapacity[l]
           pods  == [T.podCapacity EXCEPT ![k] = left]
           A     == [T EXCEPT !.disabled = T.disabled \cup {l},
                              !.corrupting = T.corrupting \ {l},
                              !.topLossRates = heap,
                              !.totalLossRate = total,
                              !.totalEffLossRate = eff,
                              !.podCapacity = pods]
           B     == Unplug(A, l)
           C     == RecountPaths(B, l)
           U     == SetLgDisabled(C, l)
<1>1. U = DisableLink(T, l)
  BY DEF DisableLink, Networks
<1>2. /\ heap \in Heaps /\ total \in Int /\ eff \in Int
      /\ pods \in [Pods \X {"TOR_AGG", "AGG_CORE"} -> Int]
      /\ pods = [T.podCapacity EXCEPT ![CapacityKey(l)] =
                            T.podCapacity[CapacityKey(l)] - T.effCapacity[l]]
  <2>1. k \in Pods \X {"TOR_AGG", "AGG_CORE"}
    BY LinkEnds
  <2> HIDE DEF k
  <2>2. T.topLossRates \in Heaps /\ T.lossRate[l] \in Int
    BY DEF Networks
  <2>3. heap \in Heaps
    BY <2>2, HeapTypes
  <2> HIDE DEF heap
  <2> QED
    BY <2>1, <2>3 DEF Networks, k
<1> HIDE DEF heap, total, eff, pods
<1>3. /\ A \in Networks
      /\ A.disabled = T.disabled \cup {l} /\ A.corrupting = T.corrupting \ {l}
      /\ A.lgEnabled = T.lgEnabled /\ A.lossRate = T.lossRate
      /\ A.effLossRate = T.effLossRate /\ A.effCapacity = T.effCapacity
      /\ A.aggSwitches = T.aggSwitches /\ A.activeUplinks = T.activeUplinks
      /\ A.numPaths = T.numPaths
      /\ A.topLossRates = heap /\ A.totalLossRate = total
      /\ A.totalEffLossRate = eff /\ A.podCapacity = pods
      /\ A.lgPorts = T.lgPorts /\ A.topLgPorts = T.topLgPorts
  BY <1>2 DEF Networks
<1> HIDE DEF A
<1>4. Unplugged(A, l, B)
  <2>1. A \in Networks
    BY <1>3
  <2> QED
    BY <2>1, PlugEffect
<1> HIDE DEF B
<1>5. /\ B \in Networks
      /\ B.disabled = A.disabled /\ B.corrupting = A.corrupting
      /\ B.lgEnabled = A.lgEnabled /\ B.lossRate = A.lossRate
      /\ B.effLossRate = A.effLossRate /\ B.effCapacity = A.effCapacity
      /\ B.numPaths = A.numPaths /\ B.topLossRates = A.topLossRates
      /\ B.totalLossRate = A.totalLossRate /\ B.podCapacity = A.podCapacity
      /\ B.totalEffLossRate = A.totalEffLossRate
      /\ B.lgPorts = A.lgPorts /\ B.topLgPorts = A.topLgPorts
  <2>1. /\ A \in Networks /\ B \in Networks
        /\ B = [A EXCEPT !.aggSwitches = B.aggSwitches,
                         !.activeUplinks = B.activeUplinks]
    BY <1>3, <1>4 DEF Unplugged
  <2> QED
    BY <2>1 DEF Networks
<1>6. C \in Networks /\ C = [B EXCEPT !.numPaths = Recounted(B, l)]
  <2>1. B \in Networks
    BY <1>5
  <2> QED
    BY <2>1, RecountEffect
<1> HIDE DEF C
<1>7. LgSwitched(C, T.lgEnabled \ {l}, U)
  <2>1. C \in Networks /\ C.lgEnabled = T.lgEnabled
    BY <1>3, <1>5, <1>6 DEF Networks
  <2> QED
    BY <2>1, SetLgEffect
<1>8. PortsExact(T) => PortsExact(U)
  <2>1. /\ C \in Networks /\ C.lgEnabled = T.lgEnabled
        /\ C.lgPorts = T.lgPorts /\ C.topLgPorts = T.topLgPorts
    BY <1>3, <1>5, <1>6 DEF Networks
  <2>2. PortsExact(T) => PortsExact(C)
    BY <2>1, SamePorts
  <2> QED
    BY <2>1, <2>2, PortsKept
<1> HIDE DEF U
<1>9. /\ U \in Networks
      /\ U.disabled = B.disabled /\ U.corrupting = B.corrupting
      /\ U.lgEnabled = T.lgEnabled \ {l} /\ U.lossRate = B.lossRate
      /\ U.effLossRate = B.effLossRate /\ U.effCapacity = B.effCapacity
      /\ U.aggSwitches = B.aggSwitches /\ U.activeUplinks = B.activeUplinks
      /\ U.numPaths = Recounted(B, l) /\ U.topLossRates = B.topLossRates
      /\ U.totalLossRate = B.totalLossRate /\ U.podCapacity = B.podCapacity
      /\ U.totalEffLossRate = B.totalEffLossRate
  <2>1. /\ B \in Networks /\ U \in Networks
        /\ U = [C EXCEPT !.lgEnabled = T.lgEnabled \ {l}, !.lgPorts = U.lgPorts,
                         !.topLgPorts = U.topLgPorts]
    BY <1>5, <1>7 DEF LgSwitched
  <2> QED
    BY <2>1, <1>6 DEF Networks
<1>10. U.numPaths = [t \in Tors |->
            IF t \in AffectedTors(l)
            THEN NumPathsToCore(U, t, {}, U.activeUplinks)
            ELSE T.numPaths[t]]
  BY <1>3, <1>5, <1>9 DEF NumPathsToCore, Recounted
<1>11. /\ l \in TorLinks =>
            /\ U.aggSwitches = [T.aggSwitches EXCEPT ![l[1]] = @ \ {l[2]}]
            /\ U.activeUplinks = T.activeUplinks
       /\ l \in CoreLinks =>
            /\ U.aggSwitches = T.aggSwitches
            /\ U.activeUplinks = [T.activeUplinks EXCEPT ![l[1]] = @ - 1]
  BY <1>3, <1>4, <1>9 DEF Unplugged
<1>12. Disabled(T, l, U)
  BY <1>2, <1>3, <1>5, <1>9, <1>10, <1>11, <1>8 DEF Disabled, heap, total, eff
<1> QED
  BY <1>1, <1>12

\* What enabling link l of T comes to in U.
Enabled(T, l, U) ==
    /\ U \in Networks
    /\ U.disabled = T.disabled \ {l}
    /\ U.corrupting = T.corrupting
    /\ U.lgEnabled = T.lgEnabled
    /\ U.lossRate = [T.lossRate EXCEPT ![l] = InitialLossRate]
    /\ U.effLossRate = [T.effLossRate EXCEPT ![l] = InitialLossRate]
    /\ U.effCapacity = [T.effCapacity EXCEPT ![l] = LinkCapacity]
    /\ l \in TorLinks =>
        /\ U.aggSwitches = [T.aggSwitches EXCEPT ![l[1]] = @ \cup {l[2]}]
        /\ U.activeUplinks = T.activeUplinks
    /\ l \in CoreLinks =>
        /\ U.aggSwitches = T.aggSwitches
        /\ U.activeUplinks = [T.activeUplinks EXCEPT ![l[1]] = @ + 1]
    /\ U.numPaths = [t \in Tors |->
                        IF t \in AffectedTors(l)
                        THEN NumPathsToCore(U, t, {}, U.activeUplinks)
                        ELSE T.numPaths[t]]
    /\ U.topLossRates = T.topLossRates
    /\ U.totalLossRate = T.totalLossRate + InitialLossRate
    /\ U.totalEffLossRate = T.totalEffLossRate + InitialLossRate
    /\ U.podCapacity = [T.podCapacity EXCEPT ![CapacityKey(l)] =
                            @ + LinkCapacity]
    /\ U.lgPorts = T.lgPorts /\ U.topLgPorts = T.topLgPorts

\* What enable_link changes, all of it.
LEMMA EnableEffect ==
    ASSUME NEW T \in Networks, NEW l \in Links
    PROVE  Enabled(T, l, EnableLink(T, l))
<1> DEFINE k     == CapacityKey(l)
           rates == [T.lossRate EXCEPT ![l] = InitialLossRate]
           effs  == [T.effLossRate EXCEPT ![l] = InitialLossRate]
           caps  == [T.effCapacity EXCEPT ![l] = LinkCapacity]
           total == T.totalLossRate + InitialLossRate
           eff   == T.totalEffLossRate + InitialLossRate
           left  == T.podCapacity[k] + LinkCapacity
           pods  == [T.podCapacity EXCEPT ![k] = left]
           A     == [T EXCEPT !.lossRate = rates, !.effLossRate = effs,
                              !.effCapacity = caps,
                              !.disabled = T.disabled \ {l},
                              !.totalLossRate = total,
                              !.totalEffLossRate = eff,
                              !.podCapacity = pods]
           B     == Plug(A, l)
           U     == RecountPaths(B, l)
<1>1. U = EnableLink(T, l)
  BY DEF EnableLink, Networks
<1>2. /\ rates \in [Links -> Int] /\ effs \in [Links -> Int]
      /\ caps \in [Links -> Int] /\ total \in Int /\ eff \in Int
      /\ pods \in [Pods \X {"TOR_AGG", "AGG_CORE"} -> Int]
      /\ pods = [T.podCapacity EXCEPT ![CapacityKey(l)] =
                            T.podCapacity[CapacityKey(l)] + LinkCapacity]
  <2>1. k \in Pods \X {"TOR_AGG", "AGG_CORE"}
    BY LinkEnds
  <2>2. InitialLossRate \in Int /\ LinkCapacity \in Int
    BY TopologyAssumption
  <2> HIDE DEF k
  <2> QED
    BY <2>1, <2>2 DEF Networks, k
<1> HIDE DEF rates, effs, caps, total, eff, pods
<1>3. /\ A \in Networks
      /\ A.disabled = T.disabled \ {l} /\ A.corrupting = T.corrupting
      /\ A.lgEnabled = T.lgEnabled /\ A.lossRate = rates
      /\ A.effLossRate = effs /\ A.effCapacity = caps
      /\ A.aggSwitches = T.aggSwitches /\ A.activeUplinks = T.activeUplinks
      /\ A.numPaths = T.numPaths
      /\ A.topLossRates = T.topLossRates /\ A.totalLossRate = total
      /\ A.totalEffLossRate = eff /\ A.podCapacity = pods
      /\ A.lgPorts = T.lgPorts /\ A.topLgPorts = T.topLgPorts
  BY <1>2 DEF Networks
<1> HIDE DEF A
<1>4. Plugged(A, l, B)
  <2>1. A \in Networks
    BY <1>3
  <2> QED
    BY <2>1, PlugEffect
<1> HIDE DEF B
<1>5. /\ B \in Networks
      /\ B.disabled = A.disabled /\ B.corrupting = A.corrupting
      /\ B.lgEnabled = A.lgEnabled /\ B.lossRate = A.lossRate
      /\ B.effLossRate = A.effLossRate /\ B.effCapacity = A.effCapacity
      /\ B.numPaths = A.numPaths /\ B.topLossRates = A.topLossRates
      /\ B.totalLossRate = A.totalLossRate /\ B.podCapacity = A.podCapacity
      /\ B.totalEffLossRate = A.totalEffLossRate
      /\ B.lgPorts = A.lgPorts /\ B.topLgPorts = A.topLgPorts
  <2>1. /\ A \in Networks /\ B \in Networks
        /\ B = [A EXCEPT !.aggSwitches = B.aggSwitches,
                         !.activeUplinks = B.activeUplinks]
    BY <1>3, <1>4 DEF Plugged
  <2> QED
    BY <2>1 DEF Networks
<1>6. U \in Networks /\ U = [B EXCEPT !.numPaths = Recounted(B, l)]
  <2>1. B \in Networks
    BY <1>5
  <2> QED
    BY <2>1, RecountEffect
<1> HIDE DEF U
<1>7. /\ U.disabled = B.disabled /\ U.corrupting = B.corrupting
      /\ U.lgEnabled = B.lgEnabled /\ U.lossRate = B.lossRate
      /\ U.effLossRate = B.effLossRate /\ U.effCapacity = B.effCapacity
      /\ U.aggSwitches = B.aggSwitches /\ U.activeUplinks = B.activeUplinks
      /\ U.numPaths = Recounted(B, l) /\ U.topLossRates = B.topLossRates
      /\ U.totalLossRate = B.totalLossRate /\ U.podCapacity = B.podCapacity
      /\ U.totalEffLossRate = B.totalEffLossRate
      /\ U.lgPorts = B.lgPorts /\ U.topLgPorts = B.topLgPorts
  <2>1. B \in Networks
    BY <1>5
  <2> QED
    BY <2>1, <1>6 DEF Networks
<1>8. U.numPaths = [t \in Tors |->
            IF t \in AffectedTors(l)
            THEN NumPathsToCore(U, t, {}, U.activeUplinks)
            ELSE T.numPaths[t]]
  BY <1>3, <1>5, <1>7 DEF NumPathsToCore, Recounted
<1>9. /\ l \in TorLinks =>
            /\ U.aggSwitches = [T.aggSwitches EXCEPT ![l[1]] = @ \cup {l[2]}]
            /\ U.activeUplinks = T.activeUplinks
      /\ l \in CoreLinks =>
            /\ U.aggSwitches = T.aggSwitches
            /\ U.activeUplinks = [T.activeUplinks EXCEPT ![l[1]] = @ + 1]
  BY <1>3, <1>4, <1>7 DEF Plugged
<1>10. Enabled(T, l, U)
  BY <1>2, <1>3, <1>5, <1>6, <1>7, <1>8, <1>9
     DEF Enabled, rates, effs, caps, total, eff
<1> QED
  BY <1>1, <1>10

-----------------------------------------------------------------------------
(***************************************************************************)
(* The paths.  What a topology keeps of its graph, and the number of paths *)
(* it works out from that.                                                 *)
(***************************************************************************)
GraphExact(T) ==
    /\ \A t \in Tors : T.aggSwitches[t] = Neighbours(t, T.disabled)
    /\ \A a \in Aggs :
            T.activeUplinks[a] = Cardinality(Uplinks(a, T.disabled))

\* Sets in one-to-one correspondence have the same size.
LEMMA SameSize ==
    ASSUME NEW S, IsFiniteSet(S), NEW R, NEW f \in [S -> R],
           \A x, y \in S : f[x] = f[y] => x = y,
           \A y \in R : \E x \in S : f[x] = y
    PROVE  IsFiniteSet(R) /\ Cardinality(R) = Cardinality(S)
<1>1. f \in Injection(S, R)
  BY DEF Injection, IsInjective
<1>2. f \in Surjection(S, R)
  BY DEF Surjection
<1>3. ExistsBijection(S, R)
  BY <1>1, <1>2 DEF Bijection, ExistsBijection
<1> QED
  BY <1>3, FS_Bijection

\* The size of a disjoint union.
LEMMA DisjointSizes ==
    ASSUME NEW S, NEW R, IsFiniteSet(S), IsFiniteSet(R), S \cap R = {}
    PROVE  Cardinality(S \cup R) = Cardinality(S) + Cardinality(R)
<1>1. /\ Cardinality(S) \in Nat /\ Cardinality(R) \in Nat
      /\ Cardinality(S \cap R) = 0
  BY FS_EmptySet, FS_CardinalityType
<1>2. Cardinality(S \cup R) =
            Cardinality(S) + Cardinality(R) - Cardinality(S \cap R)
  BY FS_Union
<1> QED
  BY <1>1, <1>2

\* The paths through aggregation switch a are as many as its uplinks.
LEMMA PathsThrough ==
    ASSUME NEW t \in Tors, NEW D, NEW a \in Neighbours(t, D)
    PROVE  /\ IsFiniteSet({p \in LivePaths(t, D) : p[1][2] = a})
           /\ Cardinality({p \in LivePaths(t, D) : p[1][2] = a})
                = Cardinality(Uplinks(a, D))
<1> DEFINE P == {p \in LivePaths(t, D) : p[1][2] = a}
           U == Uplinks(a, D)
           f == [c \in U |-> <<<<t, a>>, <<a, c>>>>]
<1>1. a \in Aggs /\ <<t, a>> \in TorLinks \ D
  BY DEF Neighbours
<1>2. \A c \in U : c \in Cores /\ <<a, c>> \in CoreLinks \ D
  BY DEF Uplinks
<1>3. \A c \in U : f[c] \in P
  BY <1>1, <1>2 DEF LivePaths
<1>4. ASSUME NEW p \in P PROVE \E c \in U : f[c] = p
  <2>1. /\ p \in (TorLinks \ D) \X (CoreLinks \ D)
        /\ p[1][1] = t /\ p[1][2] = a /\ p[2][1] = a
    BY DEF LivePaths
  <2>2. p[1] \in TorLinks \ D /\ p[2] \in CoreLinks \ D /\ p = <<p[1], p[2]>>
    BY <2>1
  <2>3. /\ p[1] = <<t, a>> /\ p[2] = <<a, p[2][2]>> /\ p[2][2] \in Cores
    BY <2>1, <2>2, LinkPairs
  <2>4. p[2][2] \in U
    BY <2>2, <2>3 DEF Uplinks
  <2> QED
    BY <2>2, <2>3, <2>4
<1>5. f \in [U -> P] /\ \A c, d \in U : f[c] = f[d] => c = d
  BY <1>3
<1>6. IsFiniteSet(U)
  BY LinksFinite
<1> HIDE DEF f, U, P
<1>7. IsFiniteSet(P) /\ Cardinality(P) = Cardinality(U)
  BY <1>4, <1>5, <1>6, SameSize
<1> QED
  BY <1>7 DEF P, U

\* A ToR has finitely many live paths.
LEMMA PathsFinite ==
    ASSUME NEW t, NEW D
    PROVE  IsFiniteSet(LivePaths(t, D)) /\ Cardinality(LivePaths(t, D)) \in Nat
<1>1. IsFiniteSet(TorLinks \X CoreLinks)
  BY LinksFinite, FS_Product
<1>2. LivePaths(t, D) \subseteq TorLinks \X CoreLinks
  BY DEF LivePaths
<1> QED
  BY <1>1, <1>2, FS_Subset, FS_CardinalityType

\* The sum over the aggregation switches of a ToR is the number of its paths.
LEMMA PathsCounted ==
    ASSUME NEW t \in Tors, NEW D, NEW f,
           \A a \in Neighbours(t, D) : f[a] = Cardinality(Uplinks(a, D))
    PROVE  SumOver(f, Neighbours(t, D)) = Cardinality(LivePaths(t, D))
<1> DEFINE N       == Neighbours(t, D)
           Over(R) == {p \in LivePaths(t, D) : p[1][2] \in R}
           Bad     == {R \in SUBSET N : SumOver(f, R) # Cardinality(Over(R))}
<1>1. Over(N) = LivePaths(t, D)
  <2>1. ASSUME NEW p \in LivePaths(t, D) PROVE p[1][2] \in N
    <3>1. p[1] \in TorLinks \ D /\ p[1][1] = t
      BY DEF LivePaths
    <3> QED
      BY <3>1, LinkPairs DEF Neighbours
  <2> QED
    BY <2>1
<1>2. Bad = {}
  <2> SUFFICES ASSUME Bad # {} PROVE FALSE
    OBVIOUS
  <2>1. IsFiniteSet(N)
    BY LinksFinite
  <2>2. PICK R \in Bad : \A Q \in Bad : Q \subseteq R => Q = R
    <3>1. Bad \subseteq SUBSET N
      OBVIOUS
    <3> HIDE DEF Bad, N
    <3> QED
      BY <2>1, <3>1, MinimalSubset
  <2>3. CASE R = {}
    <3>1. Over(R) = {}
      BY <2>3
    <3> QED
      BY <2>2, <2>3, <3>1, SumEmpty, FS_EmptySet
  <2>4. CASE R # {}
    <3> DEFINE a == Taken(R)
               Q == R \ {a}
               A == {p \in LivePaths(t, D) : p[1][2] = a}
    <3>1. a \in R /\ a \in N /\ Q \in SUBSET N /\ Q # R /\ IsFiniteSet(R)
      BY <2>1, <2>4, Smaller
    <3>2. SumOver(f, Q) = Cardinality(Over(Q))
      BY <2>2, <3>1
    <3>3. /\ IsFiniteSet(A) /\ Cardinality(A) = f[a]
      BY <3>1, PathsThrough
    <3>4. IsFiniteSet(Over(Q))
      <4>1. Over(Q) \subseteq LivePaths(t, D)
        OBVIOUS
      <4> QED
        BY <4>1, PathsFinite, FS_Subset
    <3>5. Over(R) = Over(Q) \cup A /\ Over(Q) \cap A = {}
      BY <3>1
    <3>6. Cardinality(Over(R)) = Cardinality(Over(Q)) + Cardinality(A)
      <4> DEFINE X == Over(Q)
      <4> HIDE DEF X, A
      <4>1. /\ IsFiniteSet(X) /\ IsFiniteSet(A) /\ X \cap A = {}
            /\ Over(R) = X \cup A
        BY <3>3, <3>4, <3>5 DEF X
      <4>2. Cardinality(X \cup A) = Cardinality(X) + Cardinality(A)
        BY <4>1, DisjointSizes
      <4> QED
        BY <4>1, <4>2 DEF X
    <3>7. SumOver(f, R) = f[a] + SumOver(f, Q)
      BY <2>4, <3>1, SumStep
    <3>8. Cardinality(Over(Q)) \in Nat /\ f[a] \in Nat
      BY <3>3, <3>4, FS_CardinalityType
    <3> HIDE DEF Over, Q, a, A
    <3>9. SumOver(f, R) = Cardinality(Over(R))
      BY <3>2, <3>3, <3>6, <3>7, <3>8
    <3> QED
      BY <2>2, <3>9
  <2> QED
    BY <2>3, <2>4
<1> QED
  BY <1>1, <1>2

\* Without the links of S, an aggregation switch loses their uplinks.
LostUplinks(a, S) == {l \in S \cap CoreLinks : l[1] = a}

\* An aggregation switch loses its uplinks in S.
LEMMA UplinksLost ==
    ASSUME NEW a \in Aggs, NEW D, NEW S \in SUBSET Links, S \cap D = {}
    PROVE  /\ Cardinality(LostUplinks(a, S)) \in Nat
           /\ Cardinality(Uplinks(a, D \cup S)) =
                Cardinality(Uplinks(a, D)) - Cardinality(LostUplinks(a, S))
<1> DEFINE L == {l \in S \cap CoreLinks : l[1] = a}
           X == {c \in Cores : <<a, c>> \in S \cap CoreLinks}
           f == [l \in L |-> l[2]]
           U == Uplinks(a, D \cup S)
<1>1. \A l \in L : l = <<a, l[2]>> /\ l[2] \in X
  BY LinkPairs
<1>2. /\ f \in [L -> X]
      /\ \A k, l \in L : f[k] = f[l] => k = l
      /\ \A c \in X : \E l \in L : f[l] = c
  <2>1. f \in [L -> X]
    BY <1>1
  <2>2. \A k, l \in L : f[k] = f[l] => k = l
    BY <1>1
  <2>3. ASSUME NEW c \in X PROVE f[<<a, c>>] = c /\ <<a, c>> \in L
    OBVIOUS
  <2> QED
    BY <2>1, <2>2, <2>3
<1>3. IsFiniteSet(L)
  <2>1. L \subseteq CoreLinks
    OBVIOUS
  <2> QED
    BY <2>1, LinksFinite, FS_Subset
<1>4. Uplinks(a, D) = U \cup X /\ U \cap X = {}
  BY DEF Uplinks
<1>5. IsFiniteSet(U) /\ Cardinality(U) \in Nat
  BY LinksFinite
<1> HIDE DEF f, L, X, U
<1>6. IsFiniteSet(X) /\ Cardinality(X) = Cardinality(L)
  BY <1>2, <1>3, SameSize
<1>7. Cardinality(Uplinks(a, D)) = Cardinality(U) + Cardinality(X)
  BY <1>4, <1>5, <1>6, DisjointSizes
<1>8. Cardinality(L) \in Nat
  BY <1>3, FS_CardinalityType
<1> QED
  BY <1>5, <1>6, <1>7, <1>8 DEF L, U, LostUplinks

\* The case of one link.
LEMMA OneUplinkLost ==
    ASSUME NEW D, NEW l \in Links, l \notin D
    PROVE  /\ l \in TorLinks => \A a \in Aggs :
                    Uplinks(a, D \cup {l}) = Uplinks(a, D)
           /\ l \in CoreLinks => \A a \in Aggs :
                Cardinality(Uplinks(a, D \cup {l})) =
                    IF a = l[1] THEN Cardinality(Uplinks(a, D)) - 1
                    ELSE Cardinality(Uplinks(a, D))
<1>1. CASE l \in TorLinks
  BY <1>1, LinkEnds DEF Uplinks
<1>2. CASE l \in CoreLinks
  <2> SUFFICES ASSUME NEW a \in Aggs
               PROVE  Cardinality(Uplinks(a, D \cup {l})) =
                        IF a = l[1] THEN Cardinality(Uplinks(a, D)) - 1
                        ELSE Cardinality(Uplinks(a, D))
    BY <1>2, LinkEnds
  <2>1. {l} \in SUBSET Links /\ {l} \cap D = {}
    OBVIOUS
  <2>2. /\ a = l[1] => LostUplinks(a, {l}) = {l}
        /\ a # l[1] => LostUplinks(a, {l}) = {}
    BY <1>2 DEF LostUplinks
  <2>3. Cardinality(LostUplinks(a, {l})) = IF a = l[1] THEN 1 ELSE 0
    BY <2>2, FS_Singleton, FS_EmptySet
  <2>4. Cardinality(Uplinks(a, D)) \in Nat
    BY LinksFinite
  <2> DEFINE S == {l}
  <2>5. S \in SUBSET Links /\ S \cap D = {}
    BY <2>1
  <2> HIDE DEF S
  <2>6. Cardinality(Uplinks(a, D \cup S)) =
            Cardinality(Uplinks(a, D)) - Cardinality(LostUplinks(a, S))
    BY <2>5, UplinksLost
  <2> QED
    BY <2>2, <2>3, <2>4, <2>6 DEF S
<1> QED
  BY <1>1, <1>2 DEF Links

\* The built network's graph is the one of its links.
LEMMA GraphBuilt == GraphExact(BuiltTopology)
BY DEF GraphExact, BuiltTopology, Neighbours, Uplinks

\* Disabling a link keeps it so.
LEMMA GraphDisabled ==
    ASSUME NEW T \in Networks, GraphExact(T), NEW l \in Links \ T.disabled,
           NEW U, Disabled(T, l, U)
    PROVE  GraphExact(U)
<1>1. /\ T.aggSwitches \in [Tors -> SUBSET Aggs]
      /\ T.activeUplinks \in [Aggs -> Int]
      /\ U.disabled = T.disabled \cup {l}
      /\ l \in TorLinks =>
            /\ U.aggSwitches = [T.aggSwitches EXCEPT ![l[1]] = @ \ {l[2]}]
            /\ U.activeUplinks = T.activeUplinks
      /\ l \in CoreLinks =>
            /\ U.aggSwitches = T.aggSwitches
            /\ U.activeUplinks = [T.activeUplinks EXCEPT ![l[1]] = @ - 1]
  BY DEF Disabled, Networks
<1>2. ASSUME NEW t \in Tors
      PROVE  U.aggSwitches[t] = Neighbours(t, U.disabled)
  <2>1. T.aggSwitches[t] = Neighbours(t, T.disabled)
    BY DEF GraphExact
  <2>2. CASE l \in TorLinks
    <3>1. l[1] \in Tors /\ l = <<l[1], l[2]>>
      BY <2>2, LinkPairs, LinkEnds
    <3> QED
      BY <1>1, <2>1, <2>2, <3>1 DEF Neighbours
  <2>3. CASE l \in CoreLinks
    <3>1. l \notin TorLinks
      BY <2>3, LinkEnds
    <3> QED
      BY <1>1, <2>1, <2>3, <3>1 DEF Neighbours
  <2> QED
    BY <2>2, <2>3 DEF Links
<1>3. ASSUME NEW a \in Aggs
      PROVE  U.activeUplinks[a] = Cardinality(Uplinks(a, U.disabled))
  <2>1. T.activeUplinks[a] = Cardinality(Uplinks(a, T.disabled))
    BY DEF GraphExact
  <2>2. CASE l \in TorLinks
    BY <1>1, <2>1, <2>2, OneUplinkLost
  <2>3. CASE l \in CoreLinks
    BY <1>1, <2>1, <2>3, OneUplinkLost
  <2> QED
    BY <2>2, <2>3 DEF Links
<1> QED
  BY <1>2, <1>3 DEF GraphExact

\* Enabling a link keeps it so.
LEMMA GraphEnabled ==
    ASSUME NEW T \in Networks, GraphExact(T), NEW l \in T.disabled,
           NEW U, Enabled(T, l, U)
    PROVE  GraphExact(U)
<1>1. /\ T.aggSwitches \in [Tors -> SUBSET Aggs]
      /\ T.activeUplinks \in [Aggs -> Int]
      /\ U.disabled = T.disabled \ {l}
      /\ T.disabled = U.disabled \cup {l} /\ l \notin U.disabled
      /\ l \in Links
      /\ l \in TorLinks =>
            /\ U.aggSwitches = [T.aggSwitches EXCEPT ![l[1]] = @ \cup {l[2]}]
            /\ U.activeUplinks = T.activeUplinks
      /\ l \in CoreLinks =>
            /\ U.aggSwitches = T.aggSwitches
            /\ U.activeUplinks = [T.activeUplinks EXCEPT ![l[1]] = @ + 1]
  BY DEF Enabled, Networks
<1>2. ASSUME NEW t \in Tors
      PROVE  U.aggSwitches[t] = Neighbours(t, U.disabled)
  <2>1. T.aggSwitches[t] = Neighbours(t, T.disabled)
    BY DEF GraphExact
  <2>2. CASE l \in TorLinks
    <3>1. l[1] \in Tors /\ l[2] \in Aggs /\ l = <<l[1], l[2]>>
      BY <2>2, LinkPairs, LinkEnds
    <3> QED
      BY <1>1, <2>1, <2>2, <3>1 DEF Neighbours
  <2>3. CASE l \in CoreLinks
    <3>1. l \notin TorLinks
      BY <1>1, <2>3, LinkEnds
    <3> QED
      BY <1>1, <2>1, <2>3, <3>1 DEF Neighbours
  <2> QED
    BY <1>1, <2>2, <2>3 DEF Links
<1>3. ASSUME NEW a \in Aggs
      PROVE  U.activeUplinks[a] = Cardinality(Uplinks(a, U.disabled))
  <2> DEFINE D == U.disabled
  <2>1. T.activeUplinks[a] = Cardinality(Uplinks(a, D \cup {l}))
    BY <1>1 DEF GraphExact
  <2> HIDE DEF D
  <2>2. CASE l \in TorLinks
    <3>1. Uplinks(a, D \cup {l}) = Uplinks(a, D)
      BY <1>1, <2>2, OneUplinkLost DEF D
    <3> QED
      BY <1>1, <2>1, <2>2, <3>1 DEF D
  <2>3. CASE l \in CoreLinks
    <3>1. Cardinality(Uplinks(a, D \cup {l})) =
            IF a = l[1] THEN Cardinality(Uplinks(a, D)) - 1
            ELSE Cardinality(Uplinks(a, D))
      <4>1. l \notin D
        BY <1>1 DEF D
      <4> QED
        BY <1>1, <2>3, <4>1, OneUplinkLost
    <3>2. Cardinality(Uplinks(a, D)) \in Nat
      BY LinksFinite
    <3> QED
      BY <1>1, <2>1, <2>3, <3>1, <3>2 DEF D
  <2> QED
    BY <1>1, <2>2, <2>3 DEF Links
<1> QED
  BY <1>2, <1>3 DEF GraphExact

-----------------------------------------------------------------------------
(* What the checks of CorrOpt mean in the graph *)

Enough(t, D) == Cardinality(LivePaths(t, D)) >= MinActivePaths

\* More disabled links never leave more paths.
LEMMA FewerPaths ==
    ASSUME NEW t, NEW D, NEW E, D \subseteq E
    PROVE  /\ Cardinality(LivePaths(t, E)) <= Cardinality(LivePaths(t, D))
           /\ Enough(t, E) /\ MinActivePaths \in Nat => Enough(t, D)
<1>1. LivePaths(t, E) \subseteq LivePaths(t, D)
  BY DEF LivePaths
<1>2. Cardinality(LivePaths(t, E)) <= Cardinality(LivePaths(t, D))
  BY <1>1, PathsFinite, FS_Subset
<1>3. /\ Cardinality(LivePaths(t, E)) \in Nat
      /\ Cardinality(LivePaths(t, D)) \in Nat
  BY PathsFinite
<1> QED
  BY <1>2, <1>3 DEF Enough

\* The affected ToRs of a link are those that have a path over it.
LEMMA SamePaths ==
    ASSUME NEW t \in Tors, NEW D, NEW S \in SUBSET Links,
           \A l \in S : t \notin AffectedTors(l)
    PROVE  LivePaths(t, D \cup S) = LivePaths(t, D)
<1>1. ASSUME NEW p \in LivePaths(t, D) PROVE p[1] \notin S /\ p[2] \notin S
  <2>1. /\ p[1] \in TorLinks /\ p[2] \in CoreLinks
        /\ p[1][1] = t /\ p[1][2] = p[2][1]
    BY DEF LivePaths
  <2>2. p[1] = <<t, p[2][1]>> /\ p[2] \notin TorLinks
    BY <2>1, LinkPairs, LinkEnds DEF Links
  <2> QED
    BY <2>1, <2>2 DEF AffectedTors
<1> QED
  BY <1>1 DEF LivePaths

\* What numPaths counts are the live paths.
LEMMA CountsOf ==
    ASSUME NEW T \in Networks, GraphExact(T), NEW t \in Tors
    PROVE  NumPathsToCore(T, t, {}, T.activeUplinks)
                = Cardinality(LivePaths(t, T.disabled))
<1> DEFINE f == T.activeUplinks
           N == Neighbours(t, T.disabled)
<1>1. T.aggSwitches[t] \ {} = N
  BY DEF GraphExact
<1>2. \A a \in N : f[a] = Cardinality(Uplinks(a, T.disabled))
  BY DEF Neighbours, GraphExact
<1> QED
  BY <1>1, <1>2, PathsCounted DEF NumPathsToCore

\* What CorrOpt counts for a set of links are the paths live without them.
LEMMA CountsWithout ==
    ASSUME NEW T \in Networks, GraphExact(T), NEW t \in Tors,
           NEW S \in SUBSET Links, S \cap T.disabled = {}
    PROVE  NumPathsToCore(T, t, {l[2] : l \in {k \in S \cap TorLinks : k[1] = t}},
                          UplinksWithout(T, S))
                = Cardinality(LivePaths(t, T.disabled \cup S))
<1> DEFINE f == UplinksWithout(T, S)
           D == T.disabled \cup S
           X == {l[2] : l \in {k \in S \cap TorLinks : k[1] = t}}
<1>1. T.aggSwitches[t] \ X = Neighbours(t, D)
  <2>1. T.aggSwitches[t] = Neighbours(t, T.disabled)
    BY DEF GraphExact
  <2>2. \A a \in Aggs : a \in X <=> <<t, a>> \in S \cap TorLinks
    BY LinkPairs
  <2> QED
    BY <2>1, <2>2 DEF Neighbours
<1>2. ASSUME NEW a \in Neighbours(t, D)
      PROVE  f[a] = Cardinality(Uplinks(a, D))
  <2>1. a \in Aggs
    BY DEF Neighbours
  <2>2. T.activeUplinks[a] = Cardinality(Uplinks(a, T.disabled))
    BY <2>1 DEF GraphExact
  <2>3. f[a] = T.activeUplinks[a] - Cardinality(LostUplinks(a, S))
    BY <2>1 DEF UplinksWithout, LostUplinks
  <2> QED
    BY <2>1, <2>2, <2>3, UplinksLost
<1> HIDE DEF f, D, X
<1>3. SumOver(f, Neighbours(t, D)) = Cardinality(LivePaths(t, D))
  BY <1>2, PathsCounted
<1> QED
  BY <1>1, <1>3 DEF NumPathsToCore, f, D, X

\* The ToRs CorrOpt finds violated are those left with too few live paths.
LEMMA ViolatingMeans ==
    ASSUME NEW T \in Networks, GraphExact(T),
           NEW S \in SUBSET Links, S \cap T.disabled = {}
    PROVE  Violating(T, S) =
            {t \in Tors : /\ \E l \in S : t \in AffectedTors(l)
                          /\ Cardinality(LivePaths(t, T.disabled \cup S))
                                < MinActivePaths}
<1>1. \A l \in S : AffectedTors(l) \subseteq Tors
  BY LinkEnds DEF AffectedTors
<1>2. UNION {AffectedTors(l) : l \in S} =
            {t \in Tors : \E l \in S : t \in AffectedTors(l)}
  BY <1>1
<1> QED
  BY <1>2, CountsWithout DEF Violating

\* The fast checker accepts a link iff every ToR below it keeps enough.
LEMMA CanDisableMeans ==
    ASSUME NEW T \in Networks, GraphExact(T), NEW l \in Links \ T.disabled
    PROVE  CanDisable(T, l) <=>
            \A t \in AffectedTors(l) : Enough(t, T.disabled \cup {l})
<1> DEFINE D == T.disabled \cup {l}
<1> SUFFICES ASSUME NEW t \in AffectedTors(l)
             PROVE  (IF l \in CoreLinks
                     THEN NumPathsToCore(T, t, {},
                                [T.activeUplinks EXCEPT ![l[1]] = @ - 1])
                     ELSE NumPathsToCore(T, t, {l[2]}, T.activeUplinks))
                    = Cardinality(LivePaths(t, D))
  <2>1. ASSUME NEW t \in AffectedTors(l)
        PROVE  Cardinality(LivePaths(t, D)) \in Nat
    BY PathsFinite
  <2> QED
    BY <2>1 DEF CanDisable, Enough
<1>1. t \in Tors
  BY LinkEnds DEF AffectedTors
<1>2. /\ T.aggSwitches[t] = Neighbours(t, T.disabled)
      /\ \A a \in Aggs :
            T.activeUplinks[a] = Cardinality(Uplinks(a, T.disabled))
  BY <1>1 DEF GraphExact
<1>3. CASE l \in CoreLinks
  <2> DEFINE f == [T.activeUplinks EXCEPT ![l[1]] = @ - 1]
  <2>1. T.aggSwitches[t] \ {} = Neighbours(t, D)
    BY <1>2, <1>3, LinkEnds DEF Neighbours
  <2>2. ASSUME NEW a \in Neighbours(t, D)
        PROVE  f[a] = Cardinality(Uplinks(a, D))
    <3>1. a \in Aggs /\ T.activeUplinks \in [Aggs -> Int]
      BY DEF Neighbours, Networks
    <3> QED
      BY <1>2, <1>3, <3>1, OneUplinkLost
  <2> HIDE DEF f, D
  <2>3. SumOver(f, Neighbours(t, D)) = Cardinality(LivePaths(t, D))
    BY <1>1, <2>2, PathsCounted
  <2> QED
    BY <1>3, <2>1, <2>3 DEF NumPathsToCore, f
<1>4. CASE l \in TorLinks
  <2> DEFINE f == T.activeUplinks
  <2>1. l = <<t, l[2]>> /\ l \notin CoreLinks
    BY <1>4, LinkPairs, LinkEnds DEF AffectedTors
  <2>2. T.aggSwitches[t] \ {l[2]} = Neighbours(t, D)
    BY <1>2, <1>4, <2>1 DEF Neighbours
  <2>3. ASSUME NEW a \in Neighbours(t, D)
        PROVE  f[a] = Cardinality(Uplinks(a, D))
    BY <1>2, <1>4, OneUplinkLost DEF Neighbours
  <2> HIDE DEF f, D
  <2>4. SumOver(f, Neighbours(t, D)) = Cardinality(LivePaths(t, D))
    BY <1>1, <2>3, PathsCounted
  <2> QED
    BY <2>1, <2>2, <2>4 DEF NumPathsToCore, f
<1> QED
  BY <1>3, <1>4 DEF Links

\* The constraint is a number of paths, and the whole network meets it.
LEMMA MinimumPaths ==
    ASSUME NEW t \in Tors
    PROVE  MinActivePaths \in Nat /\ Enough(t, {})
<1> DEFINE u == CHOOSE v \in Tors : TRUE
           n == Cardinality(LivePaths(u, {}))
           c == CapacityConstraintPercent
<1>1. u \in Tors
  OBVIOUS
<1> HIDE DEF u
<1>2. /\ n \in Nat /\ c \in 0 .. 100
      /\ Cardinality(LivePaths(t, {})) = n
  BY <1>1, PathsFinite, CorrOptAssumption
<1>3. MinActivePaths = (n * c + 99) \div 100
  BY <1>1 DEF MinActivePaths, BuiltTopology, u
<1> HIDE DEF n, c
<1>4. n * c \in Nat /\ n * c <= n * 100
  BY <1>2
<1>5. ASSUME NEW m \in Nat, NEW k \in Nat, m <= k * 100
      PROVE  (m + 99) \div 100 \in Nat /\ (m + 99) \div 100 <= k
  BY <1>5
<1> QED
  BY <1>2, <1>3, <1>4, <1>5 DEF Enough

-----------------------------------------------------------------------------
(***************************************************************************)
(* The caches.  Every method that changes a link leaves each cache as      *)
(* computing it anew from the links would.                                 *)
(***************************************************************************)
UpLinks(D, k)    == {l \in Links \ D : CapacityKey(l) = k}
CountsExact(T)   == T.numPaths = PathsOf(T)
CapacityExact(T) == T.podCapacity = CapacitiesOf(T)
RatesExact(T)    ==
    /\ T.totalLossRate = SumOver(T.lossRate, Links \ T.disabled)
    /\ T.totalEffLossRate = SumOver(T.effLossRate, Links \ T.disabled)
    /\ T.topLossRates = HeapOf(InitialLossRate, T.lossRate, T.corrupting)

Exact(T) ==
    /\ T \in Networks
    /\ T.disabled \cap T.corrupting = {}
    /\ GraphExact(T) /\ CountsExact(T)
    /\ CapacityExact(T) /\ RatesExact(T) /\ PortsExact(T)

\* Sets of links are finite.
LEMMA SubsetsOfLinks ==
    ASSUME NEW S \in SUBSET Links
    PROVE  /\ IsFiniteSet(S) /\ \A D : IsFiniteSet(S \ D)
           /\ \A D, k : IsFiniteSet(UpLinks(D, k))
<1>1. \A D, k : UpLinks(D, k) \subseteq Links
  BY DEF UpLinks
<1>2. \A D : S \ D \subseteq Links
  OBVIOUS
<1> QED
  BY <1>1, <1>2, LinksFinite, FS_Subset

\* CapacityExact, pod by pod and layer by layer.
LEMMA CapacityIs ==
    ASSUME NEW T \in Networks
    PROVE  CapacityExact(T) <=>
            \A k \in Pods \X {"TOR_AGG", "AGG_CORE"} :
                T.podCapacity[k] = SumOver(T.effCapacity, UpLinks(T.disabled, k))
<1>1. CapacitiesOf(T) = [k \in Pods \X {"TOR_AGG", "AGG_CORE"} |->
                            SumOver(T.effCapacity, UpLinks(T.disabled, k))]
  BY DEF CapacitiesOf, UpLinks
<1>2. T.podCapacity \in [Pods \X {"TOR_AGG", "AGG_CORE"} -> Int]
  BY DEF Networks
<1> QED
  BY <1>1, <1>2 DEF CapacityExact

\* CountsExact, ToR by ToR.
LEMMA CountsIs ==
    ASSUME NEW T \in Networks
    PROVE  CountsExact(T) <=>
            \A t \in Tors :
                T.numPaths[t] = Cardinality(LivePaths(t, T.disabled))
<1>1. T.numPaths \in [Tors -> Int]
  BY DEF Networks
<1> QED
  BY <1>1 DEF CountsExact, PathsOf

\* Recounting the ToRs below a link is enough: the others keep their paths.
LEMMA CountsKept ==
    ASSUME NEW T \in Networks, GraphExact(T), CountsExact(T), NEW l \in Links,
           NEW U \in Networks, GraphExact(U),
           U.numPaths = [t \in Tors |->
                            IF t \in AffectedTors(l)
                            THEN NumPathsToCore(U, t, {}, U.activeUplinks)
                            ELSE T.numPaths[t]],
           U.disabled \cup {l} = T.disabled \cup {l}
    PROVE  CountsExact(U)
<1> SUFFICES ASSUME NEW t \in Tors
             PROVE  U.numPaths[t] = Cardinality(LivePaths(t, U.disabled))
  BY CountsIs
<1>1. CASE t \in AffectedTors(l)
  BY <1>1, CountsOf
<1>2. CASE t \notin AffectedTors(l)
  <2> DEFINE S == {l}
  <2>1. S \in SUBSET Links /\ \A k \in S : t \notin AffectedTors(k)
    BY <1>2
  <2>2. U.disabled \cup S = T.disabled \cup S
    OBVIOUS
  <2> HIDE DEF S
  <2>3. LivePaths(t, U.disabled \cup S) = LivePaths(t, U.disabled)
        /\ LivePaths(t, T.disabled \cup S) = LivePaths(t, T.disabled)
    BY <2>1, SamePaths
  <2>4. LivePaths(t, U.disabled) = LivePaths(t, T.disabled)
    BY <2>2, <2>3
  <2>5. T.numPaths[t] = Cardinality(LivePaths(t, T.disabled))
    BY CountsIs
  <2> QED
    BY <1>2, <2>4, <2>5
<1> QED
  BY <1>1, <1>2

\* Disabling a link keeps the capacities exact.
LEMMA CapacityDisabled ==
    ASSUME NEW T \in Networks, CapacityExact(T), NEW l \in Links \ T.disabled,
           NEW U, Disabled(T, l, U)
    PROVE  CapacityExact(U)
<1>1. /\ U \in Networks /\ U.disabled = T.disabled \cup {l}
      /\ U.effCapacity = T.effCapacity
      /\ U.podCapacity = [T.podCapacity EXCEPT ![CapacityKey(l)] =
                                @ - T.effCapacity[l]]
      /\ T.effCapacity \in [Links -> Int]
      /\ T.podCapacity \in [Pods \X {"TOR_AGG", "AGG_CORE"} -> Int]
  BY DEF Disabled, Networks
<1> SUFFICES ASSUME NEW k \in Pods \X {"TOR_AGG", "AGG_CORE"}
             PROVE  U.podCapacity[k]
                        = SumOver(U.effCapacity, UpLinks(U.disabled, k))
  BY <1>1, CapacityIs
<1> DEFINE S == UpLinks(T.disabled, k)
           f == T.effCapacity
<1>2. T.podCapacity[k] = SumOver(f, S)
  BY CapacityIs
<1>3. CASE k = CapacityKey(l)
  <2>1. l \in S /\ UpLinks(U.disabled, k) = S \ {l}
    BY <1>1, <1>3 DEF UpLinks
  <2>2. IsFiniteSet(S) /\ \A x \in S : f[x] \in Int
    BY <1>1, SubsetsOfLinks DEF UpLinks
  <2> HIDE DEF S, f
  <2>3. SumOver(f, S \ {l}) = SumOver(f, S) - f[l]
    BY <2>1, <2>2, SumLess
  <2> QED
    BY <1>1, <1>2, <1>3, <2>1, <2>3 DEF f
<1>4. CASE k # CapacityKey(l)
  <2>1. UpLinks(U.disabled, k) = S
    BY <1>1, <1>4 DEF UpLinks
  <2> QED
    BY <1>1, <1>2, <1>4, <2>1
<1> QED
  BY <1>3, <1>4

\* Disabling a corrupting link keeps the loss rates exact.
LEMMA RatesDisabled ==
    ASSUME NEW T \in Networks, RatesExact(T), NEW l \in T.corrupting,
           l \notin T.disabled, NEW U, Disabled(T, l, U)
    PROVE  RatesExact(U)
<1> DEFINE S == Links \ T.disabled
           f == T.lossRate
           g == T.effLossRate
           C == T.corrupting
<1>1. /\ f \in [Links -> Int] /\ g \in [Links -> Int]
      /\ C \in SUBSET Links /\ l \in Links
      /\ InitialLossRate \in Int
  BY TopologyAssumption DEF Networks
<1>2. IsFiniteSet(S) /\ IsFiniteSet(C) /\ l \in S
  BY <1>1, SubsetsOfLinks
<1>3. /\ \A x \in S : f[x] \in Int /\ g[x] \in Int
      /\ \A x \in C : f[x] \in Int
  BY <1>1
<1>4. /\ T.totalLossRate = SumOver(f, S)
      /\ T.totalEffLossRate = SumOver(g, S)
      /\ T.topLossRates = HeapOf(InitialLossRate, f, C)
  BY DEF RatesExact
<1>5. /\ Links \ U.disabled = S \ {l} /\ U.corrupting = C \ {l}
      /\ U.lossRate = f /\ U.effLossRate = g
      /\ U.totalLossRate = T.totalLossRate - f[l]
      /\ U.totalEffLossRate = T.totalEffLossRate - g[l]
      /\ U.topLossRates = Removed(T.topLossRates, f[l])
  BY DEF Disabled
<1> HIDE DEF S, f, g, C
<1>6. SumOver(f, S \ {l}) = SumOver(f, S) - f[l]
  BY <1>2, <1>3, SumLess
<1>7. SumOver(g, S \ {l}) = SumOver(g, S) - g[l]
  BY <1>2, <1>3, SumLess
<1>8. Removed(HeapOf(InitialLossRate, f, C), f[l])
            = HeapOf(InitialLossRate, f, C \ {l})
  <2>1. l \in C
    BY DEF C
  <2> QED
    BY <1>1, <1>2, <1>3, <2>1, HeapTaken
<1> QED
  BY <1>4, <1>5, <1>6, <1>7, <1>8 DEF RatesExact

\* Disabling a corrupting link keeps every cache exact.
LEMMA ExactDisabled ==
    ASSUME NEW T, Exact(T), NEW l \in T.corrupting
    PROVE  Exact(DisableLink(T, l))
<1> DEFINE U == DisableLink(T, l)
<1>1. /\ T \in Networks /\ l \in Links \ T.disabled
      /\ GraphExact(T) /\ CountsExact(T)
      /\ CapacityExact(T) /\ RatesExact(T) /\ PortsExact(T)
      /\ T.disabled \cap T.corrupting = {}
  BY DEF Exact, Networks
<1>2. Disabled(T, l, U)
  BY <1>1, DisableEffect
<1> HIDE DEF U
<1>3. /\ U \in Networks /\ PortsExact(U)
      /\ U.disabled \cap U.corrupting = {}
      /\ U.disabled \cup {l} = T.disabled \cup {l}
      /\ U.numPaths = [t \in Tors |->
                        IF t \in AffectedTors(l)
                        THEN NumPathsToCore(U, t, {}, U.activeUplinks)
                        ELSE T.numPaths[t]]
  BY <1>1, <1>2 DEF Disabled
<1>4. GraphExact(U)
  BY <1>1, <1>2, GraphDisabled
<1>5. CountsExact(U)
  BY <1>1, <1>3, <1>4, CountsKept
<1>6. CapacityExact(U)
  BY <1>1, <1>2, CapacityDisabled
<1>7. RatesExact(U)
  BY <1>1, <1>2, RatesDisabled
<1> QED
  BY <1>3, <1>4, <1>5, <1>6, <1>7 DEF Exact, U

\* Enabling a link keeps the capacities exact.
LEMMA CapacityEnabled ==
    ASSUME NEW T \in Networks, CapacityExact(T), NEW l \in T.disabled,
           NEW U, Enabled(T, l, U)
    PROVE  CapacityExact(U)
<1>1. /\ U \in Networks /\ U.disabled = T.disabled \ {l} /\ l \in Links
      /\ U.effCapacity = [T.effCapacity EXCEPT ![l] = LinkCapacity]
      /\ U.podCapacity = [T.podCapacity EXCEPT ![CapacityKey(l)] =
                                @ + LinkCapacity]
      /\ T.effCapacity \in [Links -> Int] /\ LinkCapacity \in Int
      /\ T.podCapacity \in [Pods \X {"TOR_AGG", "AGG_CORE"} -> Int]
  BY TopologyAssumption DEF Enabled, Networks
<1> SUFFICES ASSUME NEW k \in Pods \X {"TOR_AGG", "AGG_CORE"}
             PROVE  U.podCapacity[k]
                        = SumOver(U.effCapacity, UpLinks(U.disabled, k))
  BY <1>1, CapacityIs
<1> DEFINE S == UpLinks(T.disabled, k)
           f == T.effCapacity
           g == U.effCapacity
<1>2. T.podCapacity[k] = SumOver(f, S)
  BY CapacityIs
<1>3. /\ IsFiniteSet(S) /\ l \notin S
      /\ \A x \in S : f[x] \in Int /\ g[x] = f[x]
      /\ g[l] = LinkCapacity /\ g[l] \in Int
  BY <1>1, SubsetsOfLinks DEF UpLinks
<1>4. CASE k = CapacityKey(l)
  <2>1. UpLinks(U.disabled, k) = S \cup {l}
    BY <1>1, <1>4 DEF UpLinks
  <2> HIDE DEF S, f, g
  <2>2. SumOver(g, S \cup {l}) = SumOver(f, S) + g[l]
    BY <1>3, SumMore
  <2>3. U.podCapacity[k] = T.podCapacity[k] + LinkCapacity
    BY <1>1, <1>4
  <2> QED
    BY <1>2, <1>3, <2>1, <2>2, <2>3 DEF g
<1>5. CASE k # CapacityKey(l)
  <2>1. UpLinks(U.disabled, k) = S
    BY <1>1, <1>5 DEF UpLinks
  <2>2. U.podCapacity[k] = T.podCapacity[k]
    BY <1>1, <1>5
  <2> HIDE DEF S, f, g
  <2>3. SumOver(f, S) = SumOver(g, S)
    BY <1>3, SumCongruent
  <2> QED
    BY <1>2, <2>1, <2>2, <2>3 DEF g
<1> QED
  BY <1>4, <1>5

\* Enabling a repaired link keeps the loss rates exact.
LEMMA RatesEnabled ==
    ASSUME NEW T \in Networks, RatesExact(T), NEW l \in T.disabled,
           l \notin T.corrupting, NEW U, Enabled(T, l, U)
    PROVE  RatesExact(U)
<1> DEFINE S == Links \ T.disabled
           f == T.lossRate
           g == T.effLossRate
           h == U.lossRate
           k == U.effLossRate
           C == T.corrupting
<1>1. /\ f \in [Links -> Int] /\ g \in [Links -> Int]
      /\ C \in SUBSET Links /\ l \in Links /\ l \notin S
      /\ InitialLossRate \in Int /\ T.disabled \in SUBSET Links
  BY TopologyAssumption DEF Networks
<1>2. /\ h = [f EXCEPT ![l] = InitialLossRate]
      /\ k = [g EXCEPT ![l] = InitialLossRate]
      /\ U.disabled = T.disabled \ {l} /\ U.corrupting = C
      /\ U.totalLossRate = T.totalLossRate + InitialLossRate
      /\ U.totalEffLossRate = T.totalEffLossRate + InitialLossRate
      /\ U.topLossRates = T.topLossRates
  BY DEF Enabled
<1>3. /\ \A x \in S : f[x] \in Int /\ h[x] = f[x]
      /\ \A x \in S : g[x] \in Int /\ k[x] = g[x]
      /\ h[l] = InitialLossRate /\ k[l] = InitialLossRate
      /\ \A x \in C : f[x] \in Int /\ h[x] = f[x]
  BY <1>1, <1>2
<1>4. /\ T.totalLossRate = SumOver(f, S)
      /\ T.totalEffLossRate = SumOver(g, S)
      /\ T.topLossRates = HeapOf(InitialLossRate, f, C)
  BY DEF RatesExact
<1>5. IsFiniteSet(S) /\ IsFiniteSet(C) /\ Links \ U.disabled = S \cup {l}
  BY <1>1, <1>2, SubsetsOfLinks
<1> HIDE DEF S, f, g, h, k, C
<1>6. SumOver(h, S \cup {l}) = SumOver(f, S) + h[l]
  BY <1>1, <1>3, <1>5, SumMore
<1>7. SumOver(k, S \cup {l}) = SumOver(g, S) + k[l]
  BY <1>1, <1>3, <1>5, SumMore
<1>8. HeapOf(InitialLossRate, h, C) = HeapOf(InitialLossRate, f, C)
  BY <1>1, <1>3, <1>5, HeapCongruent
<1> QED
  BY <1>2, <1>3, <1>4, <1>5, <1>6, <1>7, <1>8 DEF RatesExact, h, k

\* Enabling a repaired link keeps every cache exact.
LEMMA ExactEnabled ==
    ASSUME NEW T, Exact(T), NEW l \in T.disabled
    PROVE  Exact(EnableLink(T, l))
<1> DEFINE U == EnableLink(T, l)
<1>1. /\ T \in Networks /\ l \in Links /\ l \notin T.corrupting
      /\ GraphExact(T) /\ CountsExact(T)
      /\ CapacityExact(T) /\ RatesExact(T) /\ PortsExact(T)
      /\ T.disabled \cap T.corrupting = {}
  BY DEF Exact, Networks
<1>2. Enabled(T, l, U)
  BY <1>1, EnableEffect
<1> HIDE DEF U
<1>3. /\ U \in Networks
      /\ U.disabled \cap U.corrupting = {}
      /\ U.disabled \cup {l} = T.disabled \cup {l}
      /\ U.numPaths = [t \in Tors |->
                        IF t \in AffectedTors(l)
                        THEN NumPathsToCore(U, t, {}, U.activeUplinks)
                        ELSE T.numPaths[t]]
      /\ U.lgEnabled = T.lgEnabled
      /\ U.lgPorts = T.lgPorts /\ U.topLgPorts = T.topLgPorts
  BY <1>1, <1>2 DEF Enabled
<1>4. GraphExact(U)
  BY <1>1, <1>2, GraphEnabled
<1>5. CountsExact(U)
  BY <1>1, <1>3, <1>4, CountsKept
<1>6. CapacityExact(U)
  BY <1>1, <1>2, CapacityEnabled
<1>7. RatesExact(U)
  BY <1>1, <1>2, RatesEnabled
<1>8. PortsExact(U)
  BY <1>1, <1>3, SamePorts
<1> QED
  BY <1>3, <1>4, <1>5, <1>6, <1>7, <1>8 DEF Exact, U

\* The heap of the initial value alone.
LEMMA HeapAlone ==
    ASSUME NEW i \in Int, NEW f
    PROVE  SetToBag({i}) = HeapOf(i, f, {}) /\ SetToBag({i}) \in Heaps
<1>1. {f[x] : x \in {}} = {}
  OBVIOUS
<1>2. SetToBag({i}) = HeapOf(i, f, {})
  BY <1>1 DEF HeapOf, Histogram, SetToBag, (+)
<1>3. SetToBag({i}) \in [{i} -> Nat \ {0}] /\ {i} \in SUBSET Int
  BY DEF SetToBag
<1> DEFINE D == {i}
<1>4. SetToBag({i}) \in Heaps
  <2>1. SetToBag({i}) \in [D -> Nat \ {0}] /\ D \in SUBSET Int
    BY <1>3
  <2> HIDE DEF D
  <2> QED
    BY <2>1 DEF Heaps
<1> QED
  BY <1>2, <1>4

\* The built network's caches are exact.
LEMMA ExactBuilt == Exact(BuiltTopology)
<1> DEFINE T    == BuiltTopology
           K    == Pods \X {"TOR_AGG", "AGG_CORE"}
           caps == [k \in K |-> LinkCapacity * Cardinality(UpLinks({}, k))]
           sum  == InitialLossRate * Cardinality(Links)
           flat == [l \in Links |-> InitialLossRate]
           full == [l \in Links |-> LinkCapacity]
           aggs == [t \in Tors |-> Neighbours(t, {})]
           ups  == [a \in Aggs |-> Cardinality(Uplinks(a, {}))]
           nums == [t \in Tors |-> Cardinality(LivePaths(t, {}))]
           zero == [p \in Ports |-> 0]
           top  == SetToBag({InitialLossRate})
           none == SetToBag({0})
<1>1. /\ T.disabled = {} /\ T.corrupting = {} /\ T.lgEnabled = {}
      /\ T.lossRate = flat /\ T.effLossRate = flat /\ T.effCapacity = full
      /\ T.numPaths = nums /\ T.podCapacity = caps
      /\ T.totalLossRate = sum /\ T.totalEffLossRate = sum
      /\ T.topLossRates = top /\ T.lgPorts = zero /\ T.topLgPorts = none
  BY DEF BuiltTopology, UpLinks
<1>2. T = [disabled |-> {}, corrupting |-> {}, lgEnabled |-> {},
           lossRate |-> flat, effLossRate |-> flat, effCapacity |-> full,
           aggSwitches |-> aggs, activeUplinks |-> ups, numPaths |-> nums,
           podCapacity |-> caps, totalLossRate |-> sum,
           totalEffLossRate |-> sum, topLossRates |-> top,
           lgPorts |-> zero, topLgPorts |-> none]
  BY DEF BuiltTopology, UpLinks, Neighbours, Uplinks
<1>3. InitialLossRate \in Int /\ LinkCapacity \in Int
  BY TopologyAssumption
<1>4. \A k : IsFiniteSet(UpLinks({}, k)) /\ Cardinality(UpLinks({}, k)) \in Nat
  <2>1. Links \in SUBSET Links
    OBVIOUS
  <2> QED
    BY <2>1, SubsetsOfLinks, FS_CardinalityType
<1>5. IsFiniteSet(Links) /\ Cardinality(Links) \in Nat
  BY LinksFinite, FS_CardinalityType
<1>6. caps \in [K -> Int] /\ sum \in Int
  BY <1>3, <1>4, <1>5
<1>7. /\ flat \in [Links -> Int] /\ full \in [Links -> Int]
      /\ aggs \in [Tors -> SUBSET Aggs] /\ ups \in [Aggs -> Int]
      /\ nums \in [Tors -> Int] /\ zero \in [Ports -> Int]
  <2>1. \A t : Neighbours(t, {}) \in SUBSET Aggs
    BY DEF Neighbours
  <2> QED
    BY <1>3, <2>1, LinksFinite, PathsFinite
<1>8. top \in Heaps /\ none \in Heaps
  BY <1>3, HeapAlone
<1>9. /\ top = HeapOf(InitialLossRate, flat, {})
      /\ none = HeapOf(0, zero, {})
  BY <1>3, HeapAlone
<1>10. \A k \in K : caps[k] = SumOver(full, UpLinks({}, k))
  <2> SUFFICES ASSUME NEW k \in K
               PROVE  LinkCapacity * Cardinality(UpLinks({}, k))
                        = SumOver(full, UpLinks({}, k))
    OBVIOUS
  <2>1. \A l \in UpLinks({}, k) : full[l] = LinkCapacity
    BY DEF UpLinks
  <2> HIDE DEF full
  <2> QED
    BY <1>3, <1>4, <2>1, SumConstant
<1>11. sum = SumOver(flat, Links)
  <2>1. \A l \in Links : flat[l] = InitialLossRate
    OBVIOUS
  <2> HIDE DEF flat
  <2> QED
    BY <1>3, <1>5, <2>1, SumConstant
<1>12. {p \in Ports : zero[p] # 0} = {} /\ \A p \in Ports : zero[p] = 0
  OBVIOUS
<1> HIDE DEF caps, sum, flat, full, aggs, ups, nums, zero, top, none, T
<1>13. T \in Networks
  BY <1>2, <1>6, <1>7, <1>8 DEF Networks
<1>14. CapacityExact(T)
  BY <1>1, <1>10, <1>13, CapacityIs
<1>15. RatesExact(T)
  BY <1>1, <1>9, <1>11 DEF RatesExact
<1>16. PortsExact(T)
  <2>1. \A p : OnPort({}, p) = {}
    BY DEF OnPort
  <2>2. LgPortSet(T) = {}
    BY <1>1, <1>12 DEF LgPortSet
  <2>3. HeapExact(T)
    BY <1>1, <1>9, <2>2 DEF HeapExact
  <2> QED
    BY <1>1, <1>12, <2>1, <2>3, FS_EmptySet DEF PortsExact
<1>17. CountsExact(T)
  BY <1>1, <1>13, CountsIs DEF nums
<1> QED
  BY <1>1, <1>13, <1>14, <1>15, <1>16, <1>17, GraphBuilt DEF Exact, T

-----------------------------------------------------------------------------
(***************************************************************************)
(* Links disabled one after another.  As for sums, the fold is a function  *)
(* on sets that an equation defines.                                       *)
(***************************************************************************)
DisablesOf(T, S) ==
    LET iter[s \in SUBSET S] ==
            IF s = {} THEN T
            ELSE LET x == Taken(s) IN DisableLink(iter[s \ {x}], x)
    IN  iter

IsDisables(T, S, g) ==
    g = [s \in SUBSET S |->
            IF s = {} THEN T ELSE DisableLink(g[s \ {Taken(s)}], Taken(s))]

\* There is a function from the sets of links to the networks without them.
LEMMA DisablesExist ==
    ASSUME NEW T, NEW S, IsFiniteSet(S)
    PROVE  \E h : IsDisables(T, S, h)
<1> DEFINE Small(n)   == {R \in SUBSET S : Cardinality(R) <= n}
           Step(h, s) == IF s = {} THEN T
                         ELSE DisableLink(h[s \ {Taken(s)}], Taken(s))
           Exists(n)  == \E h : h = [s \in Small(n) |-> Step(h, s)]
           Bad        == {n \in Nat : ~Exists(n)}
<1>1. Exists(0)
  <2> DEFINE h == [s \in Small(0) |-> T]
  <2>1. ASSUME NEW s \in Small(0) PROVE s = {}
    <3>1. Cardinality(s) \in Nat /\ Cardinality(s) <= 0
      BY Smaller
    <3>2. Cardinality(s) = 0
      BY <3>1
    <3> QED
      BY <3>2, Smaller
  <2>2. h = [s \in Small(0) |-> Step(h, s)]
    BY <2>1
  <2> QED
    BY <2>2
<1>2. ASSUME NEW n \in Nat, Exists(n) PROVE Exists(n + 1)
  <2>1. PICK h : h = [s \in Small(n) |-> Step(h, s)]
    BY <1>2
  <2> DEFINE k == [s \in Small(n + 1) |-> Step(h, s)]
  <2>2. ASSUME NEW s \in Small(n + 1) PROVE Step(h, s) = Step(k, s)
    <3>1. CASE s = {}
      BY <3>1
    <3>2. CASE s # {}
      <4> DEFINE r == s \ {Taken(s)}
      <4>1. r \in Small(n) /\ r \in Small(n + 1)
        BY <3>2, Smaller
      <4>2. h[r] = Step(h, r) /\ k[r] = Step(h, r)
        BY <2>1, <4>1
      <4> QED
        BY <3>2, <4>2
    <3> QED
      BY <3>1, <3>2
  <2> QED
    BY <2>2
<1>3. Bad = {}
  <2> SUFFICES ASSUME Bad # {} PROVE FALSE
    OBVIOUS
  <2> HIDE DEF Exists
  <2>1. PICK n \in Bad : \A m \in Bad : n <= m
    BY LeastNat
  <2>2. n - 1 \in Nat /\ n - 1 \notin Bad /\ (n - 1) + 1 = n
    BY <1>1, <2>1
  <2> QED
    BY <1>2, <2>2
<1>4. Small(Cardinality(S)) = SUBSET S
  BY Smaller
<1>5. Exists(Cardinality(S))
  <2>1. Cardinality(S) \in Nat
    BY FS_CardinalityType
  <2> HIDE DEF Exists
  <2> QED
    BY <1>3, <2>1
<1> QED
  BY <1>4, <1>5 DEF IsDisables

\* DisableLinks is its value.
LEMMA DisablesIsDisables ==
    ASSUME NEW T, NEW S
    PROVE  DisableLinks(T, S) = DisablesOf(T, S)[S]
BY DEF DisableLinks, DisablesOf, FoldSet, MapThenFoldSet, Taken

\* The chosen function is such a function.
LEMMA DisablesUnfold ==
    ASSUME NEW T, NEW S, IsFiniteSet(S)
    PROVE  /\ IsDisables(T, S, DisablesOf(T, S))
           /\ DisableLinks(T, S) = DisablesOf(T, S)[S]
<1>1. PICK h : IsDisables(T, S, h)
  BY DisablesExist
<1>2. IsDisables(T, S, DisablesOf(T, S))
  BY <1>1 DEF DisablesOf, IsDisables
<1> QED
  BY <1>2, DisablesIsDisables

\* What disabling the corrupting links of S comes to in U.
AllDisabled(T, S, U) ==
    /\ Exact(U)
    /\ U.disabled = T.disabled \cup S
    /\ U.corrupting = T.corrupting \ S
    /\ U.lgEnabled = T.lgEnabled \ S
    /\ U.lossRate = T.lossRate
    /\ U.effLossRate = T.effLossRate
    /\ U.effCapacity = T.effCapacity

\* Disabling a set of corrupting links, one after the other, disables these
\* and keeps the rest.
LEMMA DisableLinksEffect ==
    ASSUME NEW T, Exact(T), NEW S \in SUBSET T.corrupting
    PROVE  AllDisabled(T, S, DisableLinks(T, S))
<1> DEFINE h   == DisablesOf(T, S)
           Bad == {R \in SUBSET S : ~AllDisabled(T, R, h[R])}
<1>1. IsFiniteSet(S) /\ T.corrupting \in SUBSET Links
  <2>1. T.corrupting \in SUBSET Links
    BY DEF Exact, Networks
  <2> QED
    BY <2>1, SubsetsOfLinks
<1>2. IsDisables(T, S, h) /\ DisableLinks(T, S) = h[S]
  BY <1>1, DisablesUnfold
<1> HIDE DEF h
<1>3. \A R \in SUBSET S :
        h[R] = IF R = {} THEN T
               ELSE DisableLink(h[R \ {Taken(R)}], Taken(R))
  BY <1>2 DEF IsDisables
<1>4. Bad = {}
  <2> SUFFICES ASSUME Bad # {} PROVE FALSE
    OBVIOUS
  <2>1. PICK R \in Bad : \A Q \in Bad : Q \subseteq R => Q = R
    <3>1. Bad \subseteq SUBSET S
      OBVIOUS
    <3> HIDE DEF Bad
    <3> QED
      BY <1>1, <3>1, MinimalSubset
  <2>2. CASE R = {}
    <3>1. h[R] = T
      BY <1>3, <2>2
    <3> QED
      BY <2>1, <2>2, <3>1 DEF AllDisabled
  <2>3. CASE R # {}
    <3> DEFINE l == Taken(R)
               Q == R \ {l}
               V == h[Q]
               U == h[R]
    <3>1. l \in R /\ Q \in SUBSET S /\ Q \notin Bad
      BY <1>1, <2>1, <2>3, Smaller
    <3>2. AllDisabled(T, Q, V)
      BY <3>1
    <3>3. U = DisableLink(V, l)
      BY <1>3, <2>3
    <3> HIDE DEF l, Q, V, U
    <3>4. V \in Networks /\ l \in Links /\ l \in V.corrupting /\ Exact(V)
      BY <1>1, <3>1, <3>2 DEF AllDisabled, Exact, Q
    <3>5. Exact(U)
      BY <3>3, <3>4, ExactDisabled
    <3>6. Disabled(V, l, U)
      BY <3>3, <3>4, DisableEffect
    <3>7. R = Q \cup {l}
      BY <3>1 DEF Q
    <3>8. AllDisabled(T, R, U)
      BY <3>2, <3>5, <3>6, <3>7 DEF AllDisabled, Disabled
    <3> QED
      BY <2>1, <3>8 DEF U
  <2> QED
    BY <2>2, <2>3
<1> QED
  BY <1>2, <1>4

-----------------------------------------------------------------------------
(***************************************************************************)
(* CorrOpt's optimizer.  The corrupting links that are not upstream of a   *)
(* violation can be disabled besides any safe set; the candidates are the  *)
(* safe sets of the others.                                                *)
(***************************************************************************)
Holds(D) == \A t \in Tors : Enough(t, D)

\* The constraint holds all the more with fewer disabled links.
LEMMA FewerHolds ==
    ASSUME NEW D, NEW E, D \subseteq E, Holds(E)
    PROVE  Holds(D)
BY FewerPaths, MinimumPaths DEF Holds

\* The sets of corrupting links that may be disabled together.
LEMMA SafeSetsAre ==
    ASSUME NEW T, NEW S
    PROVE  S \in SafeSets(T) <=> S \in SUBSET T.corrupting
                                 /\ Holds(T.disabled \cup S)
BY DEF SafeSets, Holds, Enough

\* Enough, in the code's comparison.
LEMMA EnoughMeans ==
    ASSUME NEW t \in Tors, NEW D
    PROVE  Enough(t, D) <=> ~(Cardinality(LivePaths(t, D)) < MinActivePaths)
<1> DEFINE n == Cardinality(LivePaths(t, D))
           m == MinActivePaths
<1>1. n \in Nat /\ m \in Nat
  BY PathsFinite, MinimumPaths
<1>2. Enough(t, D) <=> n >= m
  BY DEF Enough
<1> HIDE DEF n, m
<1>3. Enough(t, D) <=> ~(n < m)
  BY <1>1, <1>2
<1> QED
  BY <1>3 DEF n, m

\* CorrOpt finds no violated ToR iff the constraint holds for all ToRs.
LEMMA ViolatingNone ==
    ASSUME NEW T, Exact(T), NEW S \in SUBSET T.corrupting, Holds(T.disabled)
    PROVE  Violating(T, S) = {} <=> Holds(T.disabled \cup S)
<1> DEFINE D == T.disabled \cup S
<1>1. /\ T \in Networks /\ GraphExact(T)
      /\ S \in SUBSET Links /\ S \cap T.disabled = {}
  BY DEF Exact, Networks
<1>2. Violating(T, S) =
        {t \in Tors : /\ \E l \in S : t \in AffectedTors(l)
                      /\ Cardinality(LivePaths(t, D)) < MinActivePaths}
  BY <1>1, ViolatingMeans
<1>3. \A t \in Tors :
        Enough(t, D) <=> ~(Cardinality(LivePaths(t, D)) < MinActivePaths)
  BY EnoughMeans
<1> HIDE DEF D
<1>4. ASSUME Violating(T, S) = {}, NEW t \in Tors PROVE Enough(t, D)
  <2>1. CASE \E l \in S : t \in AffectedTors(l)
    BY <1>2, <1>3, <1>4, <2>1
  <2>2. CASE \A l \in S : t \notin AffectedTors(l)
    <3>1. LivePaths(t, D) = LivePaths(t, T.disabled)
      BY <1>1, <2>2, SamePaths DEF D
    <3> QED
      BY <3>1 DEF Enough, Holds
  <2> QED
    BY <2>1, <2>2
<1>5. ASSUME Holds(D) PROVE Violating(T, S) = {}
  <2>1. \A t \in Tors : ~(Cardinality(LivePaths(t, D)) < MinActivePaths)
    BY <1>3, <1>5 DEF Holds
  <2> QED
    BY <1>2, <2>1
<1> QED
  BY <1>4, <1>5 DEF Holds, D

\* Disabling the links that are not upstream takes nothing from a safe set.
LEMMA NotUpstreamIsFree ==
    ASSUME NEW T, Exact(T), Holds(T.disabled), NEW S \in SafeSets(T)
    PROVE  /\ NotUpstream(T) \in SUBSET T.corrupting
           /\ Holds(T.disabled \cup (NotUpstream(T) \cup S))
<1> DEFINE C == T.corrupting
           F == NotUpstream(T)
           V == Violating(T, C)
           D == T.disabled
<1>1. /\ T \in Networks /\ GraphExact(T)
      /\ C \in SUBSET Links /\ C \cap D = {}
  BY DEF Exact, Networks
<1>2. F \in SUBSET C /\ \A l \in F : AffectedTors(l) \cap V = {}
  BY DEF NotUpstream
<1>3. S \in SUBSET C /\ Holds(D \cup S)
  BY SafeSetsAre
<1>4. V = {t \in Tors : /\ \E l \in C : t \in AffectedTors(l)
                        /\ Cardinality(LivePaths(t, D \cup C))
                                < MinActivePaths}
  BY <1>1, ViolatingMeans
<1> HIDE DEF F, V
<1>5. ASSUME NEW t \in Tors PROVE Enough(t, D \cup (F \cup S))
  <2> DEFINE A == D \cup S
             B == D \cup (F \cup S)
             E == D \cup C
  <2>1. A \cup F = B /\ B \subseteq E
    BY <1>2, <1>3
  <2>2. CASE t \in V
    <3>1. \A l \in F : t \notin AffectedTors(l)
      BY <1>2, <2>2
    <3>2. F \in SUBSET Links
      BY <1>1, <1>2
    <3> HIDE DEF A, B
    <3>3. LivePaths(t, A \cup F) = LivePaths(t, A)
      BY <3>1, <3>2, SamePaths
    <3>4. Enough(t, A)
      BY <1>3 DEF Holds, A
    <3> QED
      BY <2>1, <3>3, <3>4 DEF Enough, B
  <2>3. CASE t \notin V
    <3>1. MinActivePaths \in Nat
      BY MinimumPaths
    <3>2. Enough(t, E)
      <4>1. CASE \E l \in C : t \in AffectedTors(l)
        <5>1. ~(Cardinality(LivePaths(t, E)) < MinActivePaths)
          BY <1>4, <2>3, <4>1
        <5> QED
          BY <5>1, EnoughMeans
      <4>2. CASE \A l \in C : t \notin AffectedTors(l)
        <5>1. LivePaths(t, E) = LivePaths(t, D)
          BY <1>1, <4>2, SamePaths
        <5> QED
          BY <5>1 DEF Enough, Holds
      <4> QED
        BY <4>1, <4>2
    <3> HIDE DEF B, E
    <3> QED
      BY <2>1, <3>1, <3>2, FewerPaths DEF B
  <2> QED
    BY <2>2, <2>3
<1> QED
  BY <1>2, <1>5 DEF Holds, F

\* The candidates CorrOpt searches are exactly the nonempty sets that may be
\* disabled: skipping combinations of shorter violating ones loses none.
LEMMA CandidatesAre ==
    ASSUME NEW T, Exact(T), Holds(T.disabled)
    PROVE  Candidates(T) = SafeSets(T) \ {{}}
<1> DEFINE singles  == {l \in T.corrupting : Violating(T, {l}) = {}}
           subsets  == (SUBSET singles) \ {{}}
           rejected == {S \in subsets : Violating(T, S) # {}}
<1>1. Candidates(T) = {S \in subsets : ~\E R \in rejected : R \subseteq S}
  BY DEF Candidates, Combinations
<1>2. \A S \in SUBSET T.corrupting :
        Violating(T, S) = {} <=> Holds(T.disabled \cup S)
  BY ViolatingNone
<1>3. ASSUME NEW S \in Candidates(T) PROVE S \in SafeSets(T) \ {{}}
  <2>1. S \in subsets /\ S \notin rejected
    BY <1>1
  <2>2. S \in SUBSET T.corrupting /\ Violating(T, S) = {} /\ S # {}
    BY <2>1
  <2> QED
    BY <1>2, <2>2, SafeSetsAre
<1>4. ASSUME NEW S \in SafeSets(T), S # {} PROVE S \in Candidates(T)
  <2>1. S \in SUBSET T.corrupting /\ Holds(T.disabled \cup S)
    BY SafeSetsAre
  <2>2. ASSUME NEW R \in SUBSET S PROVE Violating(T, R) = {}
    <3> DEFINE A == T.disabled \cup R
               B == T.disabled \cup S
    <3>1. R \in SUBSET T.corrupting /\ A \subseteq B /\ Holds(B)
      BY <2>1
    <3> HIDE DEF A, B
    <3>2. Holds(A)
      BY <3>1, FewerHolds
    <3> QED
      BY <1>2, <3>1, <3>2 DEF A
  <2>3. \A l \in S : l \in singles
    BY <2>1, <2>2
  <2>4. S \in subsets
    BY <1>4, <2>3
  <2>5. ~\E R \in rejected : R \subseteq S
    BY <2>2
  <2> QED
    BY <1>1, <2>4, <2>5
<1> QED
  BY <1>3, <1>4

\* The candidates that leave the least loss are those with the largest sum.
LEMMA LeastMeans ==
    ASSUME NEW T, Exact(T), NEW Q \in LeastSubsets(T, Candidates(T)),
           NEW R \in Candidates(T), Candidates(T) \subseteq SUBSET T.corrupting
    PROVE  SumOver(T.lossRate, R) <= SumOver(T.lossRate, Q)
<1> DEFINE f == T.lossRate
<1>1. Q \in Candidates(T) /\ RemainingLossRate(T, Q) <= RemainingLossRate(T, R)
  BY DEF LeastSubsets
<1>2. T.totalLossRate \in Int /\ f \in [Links -> Int]
      /\ T.corrupting \in SUBSET Links
  BY DEF Exact, Networks
<1>3. /\ IsFiniteSet(Q) /\ \A x \in Q : f[x] \in Int
      /\ IsFiniteSet(R) /\ \A x \in R : f[x] \in Int
  <2>1. Q \in SUBSET Links /\ R \in SUBSET Links
    BY <1>1, <1>2
  <2> HIDE DEF f
  <2> QED
    BY <1>2, <2>1, SubsetsOfLinks
<1>4. SumOver(f, Q) \in Int /\ SumOver(f, R) \in Int
  BY <1>3, SumType
<1>5. T.totalLossRate - SumOver(f, Q) <= T.totalLossRate - SumOver(f, R)
  BY <1>1 DEF RemainingLossRate
<1> HIDE DEF f
<1>6. SumOver(f, R) <= SumOver(f, Q)
  BY <1>2, <1>4, <1>5
<1> QED
  BY <1>6 DEF f

\* The optimizer returns a set that may be disabled, of the largest total
\* loss rate among these.
LEMMA OptimizerMeans ==
    ASSUME NEW T, Exact(T), Holds(T.disabled),
           \A l \in T.corrupting : T.lossRate[l] \in Nat,
           NEW S \in Optimizer(T)
    PROVE  /\ S \in SafeSets(T)
           /\ \A R \in SafeSets(T) :
                SumOver(T.lossRate, R) <= SumOver(T.lossRate, S)
<1> DEFINE f     == T.lossRate
           D     == T.disabled
           C     == T.corrupting
           F     == NotUpstream(T)
           rest  == DisableLinks(T, F)
           cands == Candidates(rest)
<1>1. C \in SUBSET Links /\ IsFiniteSet(C)
  <2>1. C \in SUBSET Links
    BY DEF Exact, Networks
  <2> QED
    BY <2>1, SubsetsOfLinks
<1>2. {} \in SafeSets(T)
  <2>1. D \cup {} = D
    OBVIOUS
  <2> QED
    BY <2>1, SafeSetsAre
<1>3. \A R \in SafeSets(T) : F \in SUBSET C /\ Holds(D \cup (F \cup R))
  BY NotUpstreamIsFree
<1>4. F \in SUBSET C /\ Holds(D \cup F)
  <2>1. F \in SUBSET C /\ Holds(D \cup (F \cup {}))
    BY <1>2, <1>3
  <2>2. F \cup {} = F
    OBVIOUS
  <2> HIDE DEF F, D, C
  <2> QED
    BY <2>1, <2>2
<1>5. AllDisabled(T, F, rest)
  BY <1>4, DisableLinksEffect
<1>6. S = F \/ \E Q \in LeastSubsets(rest, cands) : S = F \cup Q
  BY DEF Optimizer
<1>7. cands = {} => S = F
  BY DEF Optimizer
<1> HIDE DEF rest, F
<1>8. /\ Exact(rest) /\ rest.disabled = D \cup F
      /\ rest.corrupting = C \ F /\ rest.lossRate = f
  BY <1>5 DEF AllDisabled
<1>9. cands = SafeSets(rest) \ {{}}
  BY <1>4, <1>8, CandidatesAre
<1>10. \A R : R \in SafeSets(rest) <=> /\ R \in SUBSET (C \ F)
                                       /\ Holds(D \cup (F \cup R))
  <2>1. \A R : (D \cup F) \cup R = D \cup (F \cup R)
    OBVIOUS
  <2> HIDE DEF D, C
  <2> QED
    BY <1>8, <2>1, SafeSetsAre
<1>11. \A R \in SafeSets(T) : R \ F \in SafeSets(rest)
  <2> TAKE R \in SafeSets(T)
  <2>1. R \in SUBSET C /\ Holds(D \cup (F \cup R))
    BY <1>3, SafeSetsAre
  <2>2. F \cup R = F \cup (R \ F)
    OBVIOUS
  <2> QED
    BY <1>10, <2>1, <2>2
<1> HIDE DEF cands
<1>12. PICK Q \in SUBSET (C \ F) :
        /\ S = F \cup Q /\ Holds(D \cup (F \cup Q))
        /\ \A R \in SafeSets(rest) : SumOver(f, R) <= SumOver(f, Q)
  <2>1. CASE cands = {}
    <3>1. S = F \cup {} /\ Holds(D \cup (F \cup {}))
      <4>1. F \cup {} = F
        OBVIOUS
      <4> QED
        BY <1>4, <1>7, <2>1, <4>1
    <3>2. \A R \in SafeSets(rest) : R = {}
      BY <1>9, <2>1
    <3>3. SumOver(f, {}) = 0
      BY SumEmpty
    <3>4. ASSUME NEW R \in SafeSets(rest)
          PROVE  SumOver(f, R) <= SumOver(f, {})
      <4> HIDE DEF f
      <4>1. R = {}
        BY <3>2
      <4>2. SumOver(f, R) = 0
        BY <3>3, <4>1
      <4> QED
        BY <3>3, <4>2
    <3>5. {} \in SUBSET (C \ F)
      OBVIOUS
    <3> QED
      BY <3>1, <3>4, <3>5
  <2>2. CASE cands # {}
    <3>1. PICK Q \in LeastSubsets(rest, cands) : S = F \cup Q
      BY <2>2 DEF Optimizer, rest, cands, F
    <3>2. Q \in cands
      BY <3>1 DEF LeastSubsets
    <3>3. Q \in SUBSET (C \ F) /\ Holds(D \cup (F \cup Q))
      BY <1>9, <1>10, <3>2
    <3>4. cands \subseteq SUBSET rest.corrupting
      BY <1>8, <1>9, <1>10
    <3>5. ASSUME NEW R \in SafeSets(rest)
          PROVE  SumOver(f, R) <= SumOver(f, Q)
      <4>1. CASE R = {}
        <5>1. IsFiniteSet(Q) /\ \A x \in Q : f[x] \in Nat
          BY <1>1, <3>3, FS_Subset
        <5>2. SumOver(f, Q) \in Nat /\ SumOver(f, R) = 0
          BY <4>1, <5>1, SumNat, SumEmpty
        <5> QED
          BY <5>2
      <4>2. CASE R # {}
        <5>1. R \in cands
          BY <1>9, <4>2
        <5> QED
          BY <1>8, <3>1, <3>4, <5>1, LeastMeans DEF cands
      <4> QED
        BY <4>1, <4>2
    <3> QED
      BY <3>1, <3>3, <3>5
  <2> QED
    BY <2>1, <2>2
<1>13. S \in SafeSets(T)
  BY <1>4, <1>12, SafeSetsAre
<1>14. ASSUME NEW R \in SafeSets(T)
       PROVE  SumOver(f, R) <= SumOver(f, S)
  <2> DEFINE A == R \cap F
             B == R \ F
  <2>1. R \in SUBSET C /\ B \in SafeSets(rest) /\ A \cup B = R
    BY <1>11, SafeSetsAre
  <2>2. SumOver(f, B) <= SumOver(f, Q)
    BY <1>12, <2>1
  <2>3. /\ IsFiniteSet(A) /\ IsFiniteSet(B) /\ IsFiniteSet(F)
        /\ IsFiniteSet(Q)
        /\ A \cap B = {} /\ F \cap Q = {} /\ A \in SUBSET F
    BY <1>1, <1>4, <2>1, FS_Subset
  <2>4. /\ \A x \in A : f[x] \in Nat
        /\ \A x \in B : f[x] \in Nat
        /\ \A x \in F : f[x] \in Nat
        /\ \A x \in Q : f[x] \in Nat
        /\ \A x \in A \cup B : f[x] \in Int
        /\ \A x \in F \cup Q : f[x] \in Int
    BY <1>4, <2>1
  <2> HIDE DEF A, B, f
  <2>5. SumOver(f, A) <= SumOver(f, F)
    BY <2>3, <2>4, SumMonotone
  <2>6. /\ SumOver(f, A \cup B) = SumOver(f, A) + SumOver(f, B)
        /\ SumOver(f, F \cup Q) = SumOver(f, F) + SumOver(f, Q)
    BY <2>3, <2>4, SumUnion
  <2>7. /\ SumOver(f, A) \in Nat /\ SumOver(f, B) \in Nat
        /\ SumOver(f, F) \in Nat /\ SumOver(f, Q) \in Nat
    BY <2>3, <2>4, SumNat
  <2>8. SumOver(f, A \cup B) <= SumOver(f, F \cup Q)
    BY <2>2, <2>5, <2>6, <2>7
  <2> QED
    BY <1>12, <2>1, <2>8
<1> QED
  BY <1>13, <1>14
=============================================================================
