----------------------------- MODULE FoldProofs -----------------------------
(***************************************************************************)
(* Folds, for every set and sequence: least elements, sums of sequences,   *)
(* and the schedule that EventQueue folds from a sequence of events.       *)
(***************************************************************************)
EXTENDS EventQueue, FiniteSetTheorems, SequenceTheorems, TLAPS

-----------------------------------------------------------------------------
(***************************************************************************)
(* Least elements.  Induction over naturals and over finite sets is by a   *)
(* least counterexample: a set of naturals has a least element, a set of   *)
(* subsets of a finite set a minimal one.                                  *)
(***************************************************************************)

\* Every nonempty set of naturals has a least element.
LEMMA LeastNat ==
    ASSUME NEW T, T \subseteq Nat, T # {}
    PROVE  \E n \in T : \A m \in T : n <= m
<1>1. IsWellFoundedOn(OpToRel(<, Nat), Nat)
  BY NatLessThanWellFounded
<1>2. PICK n \in T : \A m \in T : ~(<<m, n>> \in OpToRel(<, Nat))
  BY <1>1, WFMin
<1>3. \A m \in T : ~(m < n)
  BY <1>2 DEF OpToRel
<1> QED
  BY <1>3

\* A nonempty collection of subsets of a finite set has a minimal one;
\* inductions over finite sets take it from their counterexamples.
LEMMA MinimalSubset ==
    ASSUME NEW S, IsFiniteSet(S), NEW T, T \subseteq SUBSET S, T # {}
    PROVE  \E R \in T : \A Q \in T : Q \subseteq R => Q = R
<1>1. IsWellFoundedOn(StrictSubsetOrdering(S), FiniteSubsetsOf(S))
  BY FS_StrictSubsetOrderingWellFounded
<1>2. T \subseteq FiniteSubsetsOf(S)
  BY FS_FiniteSubsetsOfFinite
<1>3. PICK R \in T : \A Q \in T : ~(<<Q, R>> \in StrictSubsetOrdering(S))
  BY <1>1, <1>2, WFMin
<1> QED
  BY <1>3 DEF StrictSubsetOrdering

\* The element that a fold over R takes.
Taken(R) == CHOOSE x \in R : TRUE

\* Subsets of finite sets, and what is left when an element is taken.
LEMMA Smaller ==
    ASSUME NEW S, IsFiniteSet(S), NEW R \in SUBSET S
    PROVE  /\ IsFiniteSet(R) /\ Cardinality(R) \in Nat
           /\ Cardinality(R) <= Cardinality(S)
           /\ Cardinality(R) = 0 <=> R = {}
           /\ \A x \in R : /\ R \ {x} \in SUBSET S
                           /\ Cardinality(R \ {x}) = Cardinality(R) - 1
           /\ R # {} => Taken(R) \in R
<1>1. IsFiniteSet(R) /\ Cardinality(R) <= Cardinality(S)
  BY FS_Subset
<1>2. R # {} => Taken(R) \in R
  BY DEF Taken
<1> QED
  BY <1>1, <1>2, FS_RemoveElement, FS_EmptySet, FS_CardinalityType

\* The largest place of a set of places is one of them.
LEMMA MaxTaken ==
    ASSUME NEW n \in Nat, NEW R \in SUBSET (1 .. n), R # {}
    PROVE  Max(R) \in R
<1> DEFINE gaps == {n - x : x \in R}
<1>1. gaps \subseteq Nat /\ gaps # {}
  <2>1. ASSUME NEW x \in R PROVE x \in 1 .. n /\ n - x \in Nat
    BY SMT
  <2> QED
    BY <2>1
<1>2. PICK g \in gaps : \A h \in gaps : g <= h
  <2> HIDE DEF gaps
  <2> QED
    BY <1>1, LeastNat
<1>3. PICK m \in R : g = n - m
  BY DEF gaps
<1>4. \A y \in R : m >= y
  BY <1>2, <1>3
<1> QED
  BY <1>4 DEF Max

-----------------------------------------------------------------------------
(***************************************************************************)
(* Sums of sequences.                                                      *)
(***************************************************************************)
SumOf(seq) == FoldLeft(+, 0, seq)

SumsOfParts(seq) ==
    LET iter[s \in SUBSET DOMAIN seq] ==
            IF s = {} THEN 0 ELSE LET i == Max(s) IN iter[s \ {i}] + seq[i]
    IN  iter

IsSumsOfParts(seq, g) ==
    g = [s \in SUBSET DOMAIN seq |->
            IF s = {} THEN 0 ELSE g[s \ {Max(s)}] + seq[Max(s)]]

\* The sum is the value of the recursive function on all places.
LEMMA SumIsOfParts ==
    ASSUME NEW seq
    PROVE  SumOf(seq) = SumsOfParts(seq)[DOMAIN seq]
BY DEF SumOf, SumsOfParts, FoldLeft, MapThenFoldSet

\* There is such a function.
LEMMA SumsOfPartsExist ==
    ASSUME NEW seq, NEW len \in Nat, DOMAIN seq = 1 .. len
    PROVE  \E h : IsSumsOfParts(seq, h)
<1> DEFINE S          == 1 .. len
           Small(n)   == {R \in SUBSET S : Cardinality(R) <= n}
           Step(h, s) == IF s = {} THEN 0
                         ELSE h[s \ {Max(s)}] + seq[Max(s)]
           Exists(n)  == \E h : h = [s \in Small(n) |-> Step(h, s)]
           Bad        == {n \in Nat : ~Exists(n)}
<1>1. IsFiniteSet(S)
  BY FS_Interval
<1>2. DOMAIN seq = S /\ \A R \in SUBSET S : R # {} => Max(R) \in R
  BY MaxTaken
<1> HIDE DEF S
<1>3. Exists(0)
  <2> DEFINE h == [s \in Small(0) |-> 0]
  <2>1. ASSUME NEW s \in Small(0) PROVE s = {}
    <3>1. Cardinality(s) \in Nat /\ Cardinality(s) <= 0
      BY <1>1, Smaller
    <3>2. Cardinality(s) = 0
      BY <3>1
    <3> QED
      BY <1>1, <3>2, Smaller
  <2>2. h = [s \in Small(0) |-> Step(h, s)]
    BY <2>1
  <2> QED
    BY <2>2
<1>4. ASSUME NEW n \in Nat, Exists(n) PROVE Exists(n + 1)
  <2>1. PICK h : h = [s \in Small(n) |-> Step(h, s)]
    BY <1>4
  <2> DEFINE k == [s \in Small(n + 1) |-> Step(h, s)]
  <2>2. ASSUME NEW s \in Small(n + 1) PROVE Step(h, s) = Step(k, s)
    <3>1. CASE s = {}
      BY <3>1
    <3>2. CASE s # {}
      <4> DEFINE r == s \ {Max(s)}
      <4>1. Max(s) \in s
        BY <1>2, <3>2
      <4>2. r \in SUBSET S /\ Cardinality(r) = Cardinality(s) - 1
        BY <1>1, <4>1, Smaller
      <4>3. Cardinality(s) \in Nat /\ Cardinality(s) <= n + 1
        BY <1>1, Smaller
      <4>4. r \in Small(n) /\ r \in Small(n + 1)
        BY <4>2, <4>3
      <4>5. h[r] = Step(h, r) /\ k[r] = Step(h, r)
        BY <2>1, <4>4
      <4> QED
        BY <3>2, <4>5
    <3> QED
      BY <3>1, <3>2
  <2> QED
    BY <2>2
<1>5. Bad = {}
  <2> SUFFICES ASSUME Bad # {} PROVE FALSE
    OBVIOUS
  <2> HIDE DEF Exists
  <2>1. PICK n \in Bad : \A m \in Bad : n <= m
    BY LeastNat
  <2>2. n - 1 \in Nat /\ n - 1 \notin Bad /\ (n - 1) + 1 = n
    BY <1>3, <2>1
  <2> QED
    BY <1>4, <2>2
<1>6. Small(Cardinality(S)) = SUBSET S
  BY <1>1, Smaller
<1>7. Exists(Cardinality(S))
  <2>1. Cardinality(S) \in Nat
    BY <1>1, FS_CardinalityType
  <2> HIDE DEF Exists
  <2> QED
    BY <1>5, <2>1
<1> QED
  BY <1>2, <1>6, <1>7 DEF IsSumsOfParts

\* The chosen function is one.
LEMMA SumsOfPartsUnfold ==
    ASSUME NEW seq, NEW len \in Nat, DOMAIN seq = 1 .. len
    PROVE  IsSumsOfParts(seq, SumsOfParts(seq))
<1>1. PICK h : IsSumsOfParts(seq, h)
  BY SumsOfPartsExist
<1> QED
  BY <1>1 DEF SumsOfParts, IsSumsOfParts

\* The last place.
LEMMA LastPlace ==
    ASSUME NEW n \in Nat \ {0}
    PROVE  Max(1 .. n) = n /\ (1 .. n) \ {n} = 1 .. n - 1
<1>1. Max(1 .. n) \in 1 .. n
  <2>1. 1 .. n \in SUBSET (1 .. n) /\ 1 .. n # {}
    OBVIOUS
  <2> QED
    BY <2>1, MaxTaken
<1>2. \A y \in 1 .. n : Max(1 .. n) >= y
  BY DEF Max
<1> QED
  BY <1>1, <1>2

\* Sums over the first places depend on these only.
LEMMA SumsOfFirst ==
    ASSUME NEW a, NEW m \in Nat, DOMAIN a = 1 .. m,
           NEW b, NEW n \in Nat, DOMAIN b = 1 .. n,
           NEW i \in Nat, i <= m, i <= n, \A k \in 1 .. i : a[k] = b[k]
    PROVE  SumsOfParts(a)[1 .. i] = SumsOfParts(b)[1 .. i]
<1> DEFINE f == SumsOfParts(a)
           g == SumsOfParts(b)
           Bad == {k \in Nat : k <= i /\ f[1 .. k] # g[1 .. k]}
<1>1. IsSumsOfParts(a, f) /\ IsSumsOfParts(b, g)
  BY SumsOfPartsUnfold
<1> HIDE DEF f, g
<1>2. ASSUME NEW k \in 1 .. i
      PROVE  /\ f[1 .. k] = f[1 .. k - 1] + a[k]
             /\ g[1 .. k] = g[1 .. k - 1] + b[k]
  <2>1. /\ 1 .. k \in SUBSET DOMAIN a /\ 1 .. k \in SUBSET DOMAIN b
        /\ 1 .. k # {}
    OBVIOUS
  <2>2. Max(1 .. k) = k /\ (1 .. k) \ {k} = 1 .. k - 1
    BY LastPlace
  <2> QED
    BY <1>1, <2>1, <2>2 DEF IsSumsOfParts
<1>3. f[1 .. 0] = 0 /\ g[1 .. 0] = 0
  <2>1. 1 .. 0 = {}
    OBVIOUS
  <2> QED
    BY <1>1, <2>1 DEF IsSumsOfParts
<1>4. Bad = {}
  <2> SUFFICES ASSUME Bad # {} PROVE FALSE
    OBVIOUS
  <2>1. PICK k \in Bad : \A j \in Bad : k <= j
    BY LeastNat
  <2>2. k # 0
    BY <1>3, <2>1
  <2>3. k \in 1 .. i /\ k - 1 \in 0 .. i /\ k - 1 \notin Bad
    BY <2>1, <2>2
  <2> QED
    BY <1>2, <2>1, <2>3
<1> QED
  BY <1>4 DEF f, g

\* The sums of the first elements of a sequence, one after the other.
LEMMA PrefixSums ==
    ASSUME NEW S, NEW seq \in Seq(S)
    PROVE  /\ SumOf(SubSeq(seq, 1, 0)) = 0
           /\ \A i \in 1 .. Len(seq) :
                SumOf(SubSeq(seq, 1, i)) = SumOf(SubSeq(seq, 1, i - 1)) + seq[i]
           /\ SumOf(SubSeq(seq, 1, Len(seq))) = SumOf(seq)
<1>1. ASSUME NEW i \in 0 .. Len(seq)
      PROVE  /\ DOMAIN SubSeq(seq, 1, i) = 1 .. i
             /\ \A k \in 1 .. i : SubSeq(seq, 1, i)[k] = seq[k]
  OBVIOUS
<1>2. Len(seq) \in Nat /\ DOMAIN seq = 1 .. Len(seq)
  OBVIOUS
<1>3. ASSUME NEW i \in 0 .. Len(seq)
      PROVE  SumOf(SubSeq(seq, 1, i)) = SumsOfParts(seq)[1 .. i]
  <2> DEFINE part == SubSeq(seq, 1, i)
  <2>1. DOMAIN part = 1 .. i /\ \A k \in 1 .. i : part[k] = seq[k]
    BY <1>1
  <2> HIDE DEF part
  <2>2. SumOf(part) = SumsOfParts(part)[1 .. i]
    BY <2>1, SumIsOfParts
  <2>3. SumsOfParts(part)[1 .. i] = SumsOfParts(seq)[1 .. i]
    BY <1>2, <2>1, SumsOfFirst
  <2> QED
    BY <2>2, <2>3 DEF part
<1>4. IsSumsOfParts(seq, SumsOfParts(seq))
  BY <1>2, SumsOfPartsUnfold
<1>5. ASSUME NEW i \in 1 .. Len(seq)
      PROVE  SumsOfParts(seq)[1 .. i] = SumsOfParts(seq)[1 .. i - 1] + seq[i]
  <2>1. 1 .. i \in SUBSET DOMAIN seq /\ 1 .. i # {}
    <3> DEFINE n == Len(seq)
    <3>1. n \in Nat /\ DOMAIN seq = 1 .. n /\ i \in 1 .. n
      BY <1>2
    <3> HIDE DEF n
    <3>2. i \in Nat /\ i \in 1 .. i /\ \A k \in 1 .. i : k \in 1 .. n
      BY <3>1
    <3> QED
      BY <3>1, <3>2
  <2>2. Max(1 .. i) = i /\ (1 .. i) \ {i} = 1 .. i - 1
    BY LastPlace
  <2> QED
    BY <1>4, <2>1, <2>2 DEF IsSumsOfParts
<1>6. SumsOfParts(seq)[1 .. 0] = 0
  <2>1. 1 .. 0 = {}
    OBVIOUS
  <2> QED
    BY <1>4, <2>1 DEF IsSumsOfParts
<1>7. SumOf(seq) = SumsOfParts(seq)[1 .. Len(seq)]
  BY <1>2, SumIsOfParts
<1>8. ASSUME NEW i \in 1 .. Len(seq)
      PROVE  SumOf(SubSeq(seq, 1, i)) = SumOf(SubSeq(seq, 1, i - 1)) + seq[i]
  <2>1. i \in 0 .. Len(seq) /\ i - 1 \in 0 .. Len(seq)
    OBVIOUS
  <2> QED
    BY <1>3, <1>5, <2>1
<1> QED
  BY <1>2, <1>3, <1>6, <1>7, <1>8

\* Sums of naturals are naturals, and grow with each positive element.
LEMMA PrefixSumsRise ==
    ASSUME NEW seq \in Seq(Nat)
    PROVE  /\ \A i \in 0 .. Len(seq) : SumOf(SubSeq(seq, 1, i)) \in Nat
           /\ \A i, j \in 0 .. Len(seq) :
                i <= j => SumOf(SubSeq(seq, 1, i)) <= SumOf(SubSeq(seq, 1, j))
<1> DEFINE P(i) == SumOf(SubSeq(seq, 1, i))
           n    == Len(seq)
           Low  == {i \in Nat : i <= n /\ P(i) \notin Nat}
<1>1. P(0) = 0 /\ \A i \in 1 .. n : P(i) = P(i - 1) + seq[i] /\ seq[i] \in Nat
  BY PrefixSums
<1>2. n \in Nat
  OBVIOUS
<1> HIDE DEF P, n
<1>3. Low = {}
  <2> SUFFICES ASSUME Low # {} PROVE FALSE
    OBVIOUS
  <2>1. PICK i \in Low : \A j \in Low : i <= j
    BY <1>2, LeastNat
  <2>2. i # 0
    BY <1>1, <2>1
  <2>3. i \in 1 .. n /\ P(i - 1) \in Nat
    <3>1. i \in 1 .. n /\ i - 1 \in Nat /\ i - 1 <= n /\ i - 1 \notin Low
      BY <1>2, <2>1, <2>2
    <3> QED
      BY <3>1
  <2>4. P(i) = P(i - 1) + seq[i] /\ seq[i] \in Nat
    BY <1>1, <2>3
  <2>5. P(i) \in Nat
    BY <2>3, <2>4
  <2> QED
    BY <2>1, <2>5
<1>4. ASSUME NEW i \in 0 .. n, NEW j \in 0 .. n, i <= j
      PROVE  P(i) <= P(j)
  <2> DEFINE Less == {k \in Nat : k <= n /\ i <= k /\ ~(P(i) <= P(k))}
  <2>1. Less = {}
    <3> SUFFICES ASSUME Less # {} PROVE FALSE
      OBVIOUS
    <3>1. PICK k \in Less : \A m \in Less : k <= m
      BY <1>2, LeastNat
    <3>2. k # i
      BY <1>3, <3>1
    <3>3. /\ k \in 1 .. n /\ k - 1 \in Nat /\ k - 1 <= n /\ i <= k - 1
          /\ k - 1 \notin Less /\ ~(P(i) <= P(k))
      BY <1>2, <3>1, <3>2
    <3>4. P(i) \in Nat /\ P(k - 1) \in Nat /\ P(i) <= P(k - 1)
      BY <1>2, <1>3, <3>3
    <3>5. P(k) = P(k - 1) + seq[k] /\ seq[k] \in Nat
      BY <1>1, <3>3
    <3>6. P(i) <= P(k)
      BY <3>4, <3>5
    <3> QED
      BY <3>3, <3>6
  <2> QED
    BY <1>4, <2>1
<1> QED
  BY <1>3, <1>4 DEF P, n

-----------------------------------------------------------------------------
(***************************************************************************)
(* The queue of events.  A schedule moves the times of the events apart,   *)
(* to times no event had before, and changes nothing else of them.         *)
(***************************************************************************)
\* The search for a free time finds one, not before the time asked for.
LEMMA FreeTimeIsFree ==
    ASSUME NEW used \in SUBSET Nat, IsFiniteSet(used), NEW time \in Nat
    PROVE  LET t == FreeTime(time, used)
           IN  t \in Nat /\ t >= time /\ t \notin used
<1> DEFINE n     == Cardinality(used)
           near  == time .. time + n
           frees == {t \in near : t \notin used}
<1>1. n \in Nat
  BY FS_CardinalityType
<1>2. frees # {}
  <2> SUFFICES ASSUME near \subseteq used PROVE FALSE
    OBVIOUS
  <2>1. Cardinality(near) <= Cardinality(used)
    BY FS_Subset
  <2>2. Cardinality(near) = n + 1
    BY <1>1, FS_Interval
  <2> QED
    BY <1>1, <2>1, <2>2
<1>3. frees \subseteq Nat
  BY <1>1
<1>4. PICK t \in frees : \A u \in frees : t <= u
  <2> HIDE DEF frees
  <2> QED
    BY <1>2, <1>3, LeastNat
<1>5. t \in near /\ t \notin used
  OBVIOUS
<1>6. time .. t - 1 \subseteq used
  <2> SUFFICES ASSUME NEW u \in time .. t - 1, u \notin used PROVE FALSE
    OBVIOUS
  <2>1. u \in near /\ u \in Nat /\ ~(t <= u)
    BY <1>1, <1>5
  <2> QED
    BY <1>4, <2>1
<1>7. FreeTime(time, used) \in near /\ FreeTime(time, used) \notin used
  BY <1>5, <1>6 DEF FreeTime
<1> QED
  BY <1>1, <1>7

AddEvent(acc, e) ==
    LET t == FreeTime(e.time, acc.used)
    IN  [events |-> acc.events \cup {[e EXCEPT !.time = t]},
         used   |-> acc.used \cup {t}]

SchedulesOf(events, used) ==
    LET iter[s \in SUBSET DOMAIN events] ==
            IF s = {} THEN [events |-> {}, used |-> used]
            ELSE LET i == Max(s) IN AddEvent(iter[s \ {i}], events[i])
    IN  iter

IsSchedules(events, used, g) ==
    g = [s \in SUBSET DOMAIN events |->
            IF s = {} THEN [events |-> {}, used |-> used]
            ELSE AddEvent(g[s \ {Max(s)}], events[Max(s)])]

\* Scheduled is the value of the recursive function on all events.
LEMMA SchedulesIsScheduled ==
    ASSUME NEW events, NEW used
    PROVE  Scheduled(events, used) = SchedulesOf(events, used)[DOMAIN events]
BY DEF Scheduled, SchedulesOf, FoldLeft, MapThenFoldSet, AddEvent

\* There is such a function.
LEMMA SchedulesExist ==
    ASSUME NEW events, NEW used, NEW len \in Nat, DOMAIN events = 1 .. len
    PROVE  \E h : IsSchedules(events, used, h)
<1> DEFINE S          == 1 .. len
           Small(n)   == {R \in SUBSET S : Cardinality(R) <= n}
           Step(h, s) == IF s = {} THEN [events |-> {}, used |-> used]
                         ELSE AddEvent(h[s \ {Max(s)}], events[Max(s)])
           Exists(n)  == \E h : h = [s \in Small(n) |-> Step(h, s)]
           Bad        == {n \in Nat : ~Exists(n)}
<1>1. IsFiniteSet(S)
  BY FS_Interval
<1>2. DOMAIN events = S /\ \A R \in SUBSET S : R # {} => Max(R) \in R
  BY MaxTaken
<1> HIDE DEF S
<1>3. Exists(0)
  <2> DEFINE h == [s \in Small(0) |-> [events |-> {}, used |-> used]]
  <2>1. ASSUME NEW s \in Small(0) PROVE s = {}
    <3>1. Cardinality(s) \in Nat /\ Cardinality(s) <= 0
      BY <1>1, Smaller
    <3>2. Cardinality(s) = 0
      BY <3>1
    <3> QED
      BY <1>1, <3>2, Smaller
  <2>2. h = [s \in Small(0) |-> Step(h, s)]
    BY <2>1
  <2> QED
    BY <2>2
<1>4. ASSUME NEW n \in Nat, Exists(n) PROVE Exists(n + 1)
  <2>1. PICK h : h = [s \in Small(n) |-> Step(h, s)]
    BY <1>4
  <2> DEFINE k == [s \in Small(n + 1) |-> Step(h, s)]
  <2>2. ASSUME NEW s \in Small(n + 1) PROVE Step(h, s) = Step(k, s)
    <3>1. CASE s = {}
      BY <3>1
    <3>2. CASE s # {}
      <4> DEFINE r == s \ {Max(s)}
      <4>1. Max(s) \in s
        BY <1>2, <3>2
      <4>2. r \in SUBSET S /\ Cardinality(r) = Cardinality(s) - 1
        BY <1>1, <4>1, Smaller
      <4>3. Cardinality(s) \in Nat /\ Cardinality(s) <= n + 1
        BY <1>1, Smaller
      <4>4. r \in Small(n) /\ r \in Small(n + 1)
        BY <4>2, <4>3
      <4>5. h[r] = Step(h, r) /\ k[r] = Step(h, r)
        BY <2>1, <4>4
      <4> QED
        BY <3>2, <4>5
    <3> QED
      BY <3>1, <3>2
  <2> QED
    BY <2>2
<1>5. Bad = {}
  <2> SUFFICES ASSUME Bad # {} PROVE FALSE
    OBVIOUS
  <2> HIDE DEF Exists
  <2>1. PICK n \in Bad : \A m \in Bad : n <= m
    BY LeastNat
  <2>2. n - 1 \in Nat /\ n - 1 \notin Bad /\ (n - 1) + 1 = n
    BY <1>3, <2>1
  <2> QED
    BY <1>4, <2>2
<1>6. Small(Cardinality(S)) = SUBSET S
  BY <1>1, Smaller
<1>7. Exists(Cardinality(S))
  <2>1. Cardinality(S) \in Nat
    BY <1>1, FS_CardinalityType
  <2> HIDE DEF Exists
  <2> QED
    BY <1>5, <2>1
<1> QED
  BY <1>2, <1>6, <1>7 DEF IsSchedules

\* The chosen function is one.
LEMMA SchedulesUnfold ==
    ASSUME NEW events, NEW used, NEW len \in Nat, DOMAIN events = 1 .. len
    PROVE  IsSchedules(events, used, SchedulesOf(events, used))
<1>1. PICK h : IsSchedules(events, used, h)
  BY SchedulesExist
<1> QED
  BY <1>1 DEF SchedulesOf, IsSchedules

\* The times of the events i of s in a schedule with these events and times.
IsSchedule(events, used, s, at, acc) ==
    /\ at \in [s -> Nat]
    /\ \A i \in s : at[i] >= events[i].time /\ at[i] \notin used
    /\ \A i, j \in s : at[i] = at[j] => i = j
    /\ acc.events = {[events[i] EXCEPT !.time = at[i]] : i \in s}
    /\ acc.used = used \cup {at[i] : i \in s}
    /\ IsFiniteSet(acc.used)

\* One more event gets a time of its own.
LEMMA ScheduleStep ==
    ASSUME NEW events, NEW used \in SUBSET Nat, NEW s, NEW i \in s,
           events[i].time \in Nat,
           NEW before, NEW acc, IsSchedule(events, used, s \ {i}, before, acc)
    PROVE  \E at : IsSchedule(events, used, s, at, AddEvent(acc, events[i]))
<1> DEFINE r  == s \ {i}
           t  == FreeTime(events[i].time, acc.used)
           at == [k \in s |-> IF k = i THEN t ELSE before[k]]
           e  == AddEvent(acc, events[i])
<1>1. before \in [r -> Nat] /\ acc.used = used \cup {before[k] : k \in r}
  BY DEF IsSchedule
<1>2. acc.used \in SUBSET Nat /\ IsFiniteSet(acc.used)
  BY <1>1 DEF IsSchedule
<1>3. t \in Nat /\ t >= events[i].time /\ t \notin acc.used
  BY <1>2, FreeTimeIsFree
<1>4. /\ e.events = acc.events \cup {[events[i] EXCEPT !.time = t]}
      /\ e.used = acc.used \cup {t}
  BY DEF AddEvent
<1> HIDE DEF t, e
<1>5. at \in [s -> Nat] /\ at[i] = t /\ \A k \in r : at[k] = before[k]
  BY <1>1, <1>3
<1> HIDE DEF at
<1>6. \A k \in s : at[k] >= events[k].time /\ at[k] \notin used
  BY <1>1, <1>3, <1>5 DEF IsSchedule
<1>7. \A k \in r : before[k] # t
  BY <1>1, <1>3
<1>8. \A j, k \in s : at[j] = at[k] => j = k
  BY <1>5, <1>7 DEF IsSchedule
<1>9. e.events = {[events[k] EXCEPT !.time = at[k]] : k \in s}
  <2>1. acc.events = {[events[k] EXCEPT !.time = before[k]] : k \in r}
    BY DEF IsSchedule
  <2> QED
    BY <1>4, <1>5, <2>1
<1>10. e.used = used \cup {at[k] : k \in s}
  BY <1>1, <1>4, <1>5
<1>11. IsFiniteSet(e.used)
  BY <1>2, <1>4, FS_AddElement
<1>12. IsSchedule(events, used, s, at, e)
  BY <1>5, <1>6, <1>8, <1>9, <1>10, <1>11 DEF IsSchedule
<1> QED
  BY <1>12 DEF e

\* All events get times of their own, each not before the one asked for.
THEOREM ScheduledIsSchedule ==
    ASSUME NEW events, NEW used \in SUBSET Nat, IsFiniteSet(used),
           NEW len \in Nat, DOMAIN events = 1 .. len,
           \A i \in 1 .. len : events[i].time \in Nat
    PROVE  \E at : IsSchedule(events, used, 1 .. len, at,
                              Scheduled(events, used))
<1> DEFINE S      == 1 .. len
           h      == SchedulesOf(events, used)
           Fit(R) == \E at : IsSchedule(events, used, R, at, h[R])
           Bad    == {R \in SUBSET S : ~Fit(R)}
<1>1. IsFiniteSet(S)
  BY FS_Interval
<1>2. DOMAIN events = S /\ (\A R \in SUBSET S : R # {} => Max(R) \in R)
  BY MaxTaken
<1>3. IsSchedules(events, used, h) /\ Scheduled(events, used) = h[S]
  BY SchedulesUnfold, SchedulesIsScheduled
<1> HIDE DEF S, h
<1>4. \A R \in SUBSET S :
        h[R] = IF R = {} THEN [events |-> {}, used |-> used]
               ELSE AddEvent(h[R \ {Max(R)}], events[Max(R)])
  BY <1>2, <1>3 DEF IsSchedules
<1>5. Bad = {}
  <2> SUFFICES ASSUME Bad # {} PROVE FALSE
    OBVIOUS
  <2>1. PICK R \in Bad : \A Q \in Bad : Q \subseteq R => Q = R
    <3>1. Bad \subseteq SUBSET S
      OBVIOUS
    <3> HIDE DEF Bad
    <3> QED
      BY <1>1, <3>1, MinimalSubset
  <2>2. CASE R = {}
    <3>1. h[R] = [events |-> {}, used |-> used]
      BY <1>4, <2>2
    <3> DEFINE at == [i \in R |-> 0]
    <3>2. at \in [R -> Nat]
      OBVIOUS
    <3> HIDE DEF at
    <3>3. h[R].events = {} /\ h[R].used = used
      BY <3>1
    <3>4. IsSchedule(events, used, R, at, h[R])
      BY <2>2, <3>2, <3>3 DEF IsSchedule
    <3> QED
      BY <2>1, <3>4
  <2>3. CASE R # {}
    <3> DEFINE i == Max(R)
               Q == R \ {i}
    <3>1. i \in R /\ Q \in SUBSET S /\ Q \notin Bad
      BY <1>2, <2>1, <2>3
    <3>2. PICK before : IsSchedule(events, used, Q, before, h[Q])
      BY <3>1
    <3>3. h[R] = AddEvent(h[Q], events[i])
      BY <1>4, <2>3
    <3>4. events[i].time \in Nat
      BY <3>1 DEF S
    <3>5. Fit(R)
      <4> HIDE DEF i
      <4> QED
        BY <3>1, <3>2, <3>3, <3>4, ScheduleStep
    <3> QED
      BY <2>1, <3>5
  <2> QED
    BY <2>2, <2>3
<1> QED
  BY <1>3, <1>5 DEF S

\* A time that is free is kept.
LEMMA FreeTimeKept ==
    ASSUME NEW used, IsFiniteSet(used), NEW time \in Nat, time \notin used
    PROVE  FreeTime(time, used) = time
<1> DEFINE n == Cardinality(used)
           Fits(t) == t \in time .. time + n /\ t \notin used
                        /\ time .. t - 1 \subseteq used
<1>1. n \in Nat
  BY FS_CardinalityType
<1>2. Fits(time)
  BY <1>1
<1>3. ASSUME NEW t, Fits(t) PROVE t = time
  <2>1. t \in Nat /\ time <= t
    BY <1>1, <1>3
  <2>2. time \notin time .. t - 1
    BY <1>3
  <2> QED
    BY <2>1, <2>2
<1>4. FreeTime(time, used) = CHOOSE t : Fits(t)
  BY DEF FreeTime
<1> HIDE DEF Fits
<1> QED
  BY <1>2, <1>3, <1>4

\* Events whose times are their own are scheduled as they are.
LEMMA ScheduledAsTheyAre ==
    ASSUME NEW events, NEW len \in Nat, DOMAIN events = 1 .. len,
           \A i \in 1 .. len :
                /\ events[i].time \in Nat
                /\ [events[i] EXCEPT !.time = events[i].time] = events[i],
           \A i, j \in 1 .. len : events[i].time = events[j].time => i = j
    PROVE  Scheduled(events, {}).events = {events[i] : i \in 1 .. len}
<1> DEFINE S       == 1 .. len
           h       == SchedulesOf(events, {})
           Kept(R) == /\ h[R].events = {events[i] : i \in R}
                      /\ h[R].used = {events[i].time : i \in R}
                      /\ IsFiniteSet(h[R].used)
           Bad     == {R \in SUBSET S : ~Kept(R)}
<1>1. IsFiniteSet(S)
  BY FS_Interval
<1>2. DOMAIN events = S /\ (\A R \in SUBSET S : R # {} => Max(R) \in R)
  BY MaxTaken
<1>3. IsSchedules(events, {}, h) /\ Scheduled(events, {}) = h[S]
  BY SchedulesUnfold, SchedulesIsScheduled
<1>4. /\ \A i \in S : /\ events[i].time \in Nat
                      /\ [events[i] EXCEPT !.time = events[i].time] = events[i]
      /\ \A i, j \in S : events[i].time = events[j].time => i = j
  OBVIOUS
<1> HIDE DEF S, h
<1>5. \A R \in SUBSET S :
        h[R] = IF R = {} THEN [events |-> {}, used |-> {}]
               ELSE AddEvent(h[R \ {Max(R)}], events[Max(R)])
  BY <1>2, <1>3 DEF IsSchedules
<1>6. Bad = {}
  <2> SUFFICES ASSUME Bad # {} PROVE FALSE
    OBVIOUS
  <2>1. PICK R \in Bad : \A Q \in Bad : Q \subseteq R => Q = R
    <3>1. Bad \subseteq SUBSET S
      OBVIOUS
    <3> HIDE DEF Bad
    <3> QED
      BY <1>1, <3>1, MinimalSubset
  <2>2. CASE R = {}
    <3>1. h[R] = [events |-> {}, used |-> {}]
      BY <1>5, <2>2
    <3>2. h[R].events = {} /\ h[R].used = {} /\ IsFiniteSet({})
      BY <3>1, FS_EmptySet
    <3> QED
      BY <2>1, <2>2, <3>2
  <2>3. CASE R # {}
    <3> DEFINE i == Max(R)
               Q == R \ {i}
               e == events[i]
    <3>1. i \in R /\ i \in S /\ Q \in SUBSET S /\ Q \notin Bad
      BY <1>2, <2>1, <2>3
    <3>2. Kept(Q)
      BY <3>1
    <3>3. h[R] = AddEvent(h[Q], e)
      BY <1>5, <2>3
    <3>4. e.time \in Nat /\ [e EXCEPT !.time = e.time] = e
      BY <1>4, <3>1
    <3> HIDE DEF e
    <3>5. e.time \notin h[Q].used
      BY <1>4, <3>1, <3>2 DEF e
    <3>6. FreeTime(e.time, h[Q].used) = e.time
      BY <3>2, <3>4, <3>5, FreeTimeKept
    <3>7. /\ h[R].events = h[Q].events \cup {e}
          /\ h[R].used = h[Q].used \cup {e.time}
      BY <3>3, <3>4, <3>6 DEF AddEvent
    <3>8. IsFiniteSet(h[R].used)
      <4> DEFINE used == h[Q].used
      <4>1. IsFiniteSet(used)
        BY <3>2
      <4> HIDE DEF used
      <4>2. IsFiniteSet(used \cup {e.time})
        BY <4>1, FS_AddElement
      <4> QED
        BY <3>7, <4>2 DEF used
    <3> HIDE DEF i
    <3>9. /\ h[R].events = {events[k] : k \in R}
          /\ h[R].used = {events[k].time : k \in R}
      BY <3>1, <3>2, <3>7 DEF e
    <3> QED
      BY <2>1, <3>8, <3>9
  <2> QED
    BY <2>2, <2>3
<1>7. S \in SUBSET S
  OBVIOUS
<1> QED
  BY <1>3, <1>6, <1>7 DEF S
=============================================================================
