----------------------------- MODULE ToolsProofs -----------------------------
(***************************************************************************)
(* The programs around the simulator.  For every distribution of the loss  *)
(* rates, every number of links and failures and every duration the trace  *)
(* that the generator writes is complete; for every size of a network its  *)
(* links are those the builder builds, and the network that is built is    *)
(* the one the simulation starts from.                                     *)
(***************************************************************************)
EXTENDS LossTrace, TopologyBuilder, FoldProofs

-----------------------------------------------------------------------------
(***************************************************************************)
(* The distribution of the loss rates: the ranges of the buckets part the  *)
(* numbers from 0 to Whole.                                                *)
(***************************************************************************)

\* The ranges, by the sums of the first shares.
LEMMA RangesAreSums ==
    ASSUME shares \in Shares
    PROVE  LET n    == Len(shares)
               P(i) == SumOf(SubSeq(shares, 1, i))
           IN  /\ n \in Nat \ {0} /\ DOMAIN shares = 1 .. n
               /\ P(0) = 0 /\ P(n) = Whole
               /\ \A i \in 0 .. n : P(i) \in 0 .. Whole
               /\ \A i, j \in 0 .. n : i <= j => P(i) <= P(j)
               /\ \A i \in 1 .. n :
                    /\ shares[i] \in Nat \ {0}
                    /\ P(i) = P(i - 1) + shares[i]
                    /\ RangeStart(i) = IF i = 1 THEN 0 ELSE P(i - 1) + 1
                    /\ RangeEnd(i) = P(i)
<1> DEFINE n    == Len(shares)
           P(i) == SumOf(SubSeq(shares, 1, i))
<1>1. shares \in Seq(Nat \ {0}) /\ Whole \in Nat \ {0}
  BY LossTraceAssumption
<1>10. SumOf(shares) = Whole
  BY LossTraceAssumption DEF SumOf
<1>2. shares \in Seq(Nat) /\ n \in Nat /\ DOMAIN shares = 1 .. n
      /\ \A i \in 1 .. n : shares[i] \in Nat \ {0}
  BY <1>1
<1>3. /\ P(0) = 0 /\ P(n) = SumOf(shares)
      /\ \A i \in 1 .. n : P(i) = P(i - 1) + shares[i]
  BY <1>2, PrefixSums
<1>4. P(n) = Whole
  BY <1>10, <1>3
<1>5. /\ \A i \in 0 .. n : P(i) \in Nat
      /\ \A i, j \in 0 .. n : i <= j => P(i) <= P(j)
  BY <1>2, PrefixSumsRise
<1>6. \A i \in 1 .. n : /\ RangeStart(i) = IF i = 1 THEN 0 ELSE P(i - 1) + 1
                        /\ RangeEnd(i) = P(i)
  BY DEF RangeStart, RangeEnd, SumOf
<1> HIDE DEF P, n
<1>7. n # 0
  BY <1>1, <1>3, <1>4
<1>8. ASSUME NEW i \in 0 .. n PROVE P(i) \in 0 .. Whole
  <2>1. i \in Nat /\ i <= n /\ n \in 0 .. n
    BY <1>2
  <2>2. P(i) <= P(n) /\ P(i) \in Nat
    BY <1>5, <2>1
  <2> QED
    BY <1>1, <1>4, <2>2
<1>9. /\ n \in Nat \ {0} /\ DOMAIN shares = 1 .. n
      /\ P(0) = 0 /\ P(n) = Whole
      /\ \A i \in 0 .. n : P(i) \in 0 .. Whole
      /\ \A i, j \in 0 .. n : i <= j => P(i) <= P(j)
      /\ \A i \in 1 .. n :
            /\ shares[i] \in Nat \ {0}
            /\ P(i) = P(i - 1) + shares[i]
            /\ RangeStart(i) = IF i = 1 THEN 0 ELSE P(i - 1) + 1
            /\ RangeEnd(i) = P(i)
  BY <1>2, <1>3, <1>4, <1>5, <1>6, <1>7, <1>8
<1> QED
  BY <1>9 DEF P, n

\* Every number has a range, and no other.
LEMMA OneRange ==
    ASSUME shares \in Shares, NEW number \in 0 .. Whole
    PROVE  \E k \in DOMAIN shares :
                {i \in DOMAIN shares : InRange(number, i)} = {k}
<1> DEFINE n    == Len(shares)
           P(i) == SumOf(SubSeq(shares, 1, i))
           Up   == {i \in Nat : i <= n /\ i # 0 /\ number <= P(i)}
<1>1. /\ n \in Nat \ {0} /\ DOMAIN shares = 1 .. n
      /\ P(0) = 0 /\ P(n) = Whole
      /\ \A i \in 0 .. n : P(i) \in 0 .. Whole
      /\ \A i, j \in 0 .. n : i <= j => P(i) <= P(j)
      /\ \A i \in 1 .. n :
            /\ RangeStart(i) = IF i = 1 THEN 0 ELSE P(i - 1) + 1
            /\ RangeEnd(i) = P(i)
  BY RangesAreSums
<1>2. Whole \in Nat
  BY LossTraceAssumption
<1> HIDE DEF P, n
<1>3. n \in Up
  BY <1>1, <1>2
<1>4. PICK k \in Up : \A i \in Up : k <= i
  BY <1>3, LeastNat
<1>5. k \in 1 .. n /\ k - 1 \in 0 .. n /\ number <= P(k) /\ k - 1 \notin Up
  BY <1>1, <1>4
<1>6. InRange(number, k)
  <2>1. P(k - 1) \in Nat
    BY <1>1, <1>2, <1>5
  <2>2. k = 1 \/ P(k - 1) < number
    BY <1>2, <1>5, <2>1
  <2>3. RangeStart(k) <= number
    BY <1>1, <1>2, <1>5, <2>1, <2>2
  <2> QED
    BY <1>1, <1>5, <2>3 DEF InRange
<1>7. ASSUME NEW i \in 1 .. n, NEW j \in 1 .. n, i < j,
             InRange(number, i), InRange(number, j)
      PROVE  FALSE
  <2>1. i \in 0 .. n /\ j - 1 \in 0 .. n /\ i <= j - 1 /\ j # 1
    BY <1>1, <1>7
  <2>2. P(i) \in Nat /\ P(j - 1) \in Nat /\ P(i) <= P(j - 1)
    BY <1>1, <1>2, <2>1
  <2>3. number <= P(i) /\ P(j - 1) + 1 <= number
    BY <1>1, <1>7, <2>1 DEF InRange
  <2> QED
    BY <1>2, <2>2, <2>3
<1>8. ASSUME NEW i \in 1 .. n, InRange(number, i) PROVE i = k
  <2>1. ~(i < k) /\ ~(k < i)
    BY <1>5, <1>6, <1>7, <1>8
  <2> QED
    BY <1>1, <1>5, <2>1
<1>9. \A i \in 1 .. n : InRange(number, i) <=> i = k
  BY <1>6, <1>8
<1>10. k \in DOMAIN shares
  BY <1>1, <1>5
<1>11. {i \in DOMAIN shares : InRange(number, i)} = {k}
  BY <1>1, <1>9, <1>10
<1> QED
  BY <1>10, <1>11

\* The bucket of a number is the one whose range has it.
LEMMA BucketHasNumber ==
    ASSUME shares \in Shares, NEW number \in 0 .. Whole,
           NEW k \in DOMAIN shares,
           {i \in DOMAIN shares : InRange(number, i)} = {k}
    PROVE  BucketOf(number) = k
<1> DEFINE places == [i \in DOMAIN shares |-> i]
           found  == {i \in 1 .. Len(places) : InRange(number, places[i])}
<1>1. shares \in Seq(Nat \ {0})
  BY LossTraceAssumption
<1>2. Len(shares) \in Nat /\ DOMAIN shares = 1 .. Len(shares)
  BY <1>1
<1>3. Len(places) = Len(shares)
  BY <1>2
<1>4. found = {k}
  BY <1>2, <1>3
<1>5. BucketOf(number) = IF found # {} THEN Min(found) ELSE 0
  BY DEF BucketOf, SelectInSeq
<1> HIDE DEF found
<1>6. k \in Nat
  BY <1>2
<1>7. Min({k}) = k
  BY <1>6 DEF Min
<1> QED
  BY <1>4, <1>5, <1>7

\* The assertion of the generator, and the shares of the buckets.
LEMMA SharesAreKept ==
    ASSUME shares \in Shares
    PROVE  RatesInShare /\ Buckets \subseteq DOMAIN shares
<1>1. ASSUME NEW number \in 0 .. Whole
      PROVE  /\ Cardinality({i \in DOMAIN shares : InRange(number, i)}) = 1
             /\ BucketOf(number) \in DOMAIN shares
             /\ \A i \in DOMAIN shares :
                    BucketOf(number) = i <=> InRange(number, i)
  <2>1. PICK k \in DOMAIN shares :
                {i \in DOMAIN shares : InRange(number, i)} = {k}
    BY OneRange
  <2>2. BucketOf(number) = k
    BY <2>1, BucketHasNumber
  <2>3. \A i \in DOMAIN shares : InRange(number, i) <=> i = k
    BY <2>1
  <2>4. Cardinality({k}) = 1
    BY FS_Singleton
  <2> QED
    BY <2>1, <2>2, <2>3, <2>4
<1>2. ASSUME NEW i \in DOMAIN shares
      PROVE  Cardinality({number \in 0 .. Whole : BucketOf(number) = i})
                = shares[i] + IF i = 1 THEN 1 ELSE 0
  <2> DEFINE n    == Len(shares)
             P(j) == SumOf(SubSeq(shares, 1, j))
             low  == RangeStart(i)
             high == RangeEnd(i)
  <2>1. /\ n \in Nat /\ DOMAIN shares = 1 .. n
        /\ P(0) = 0
        /\ \A j \in 0 .. n : P(j) \in 0 .. Whole
        /\ \A j \in 1 .. n :
            /\ shares[j] \in Nat \ {0}
            /\ P(j) = P(j - 1) + shares[j]
            /\ RangeStart(j) = IF j = 1 THEN 0 ELSE P(j - 1) + 1
            /\ RangeEnd(j) = P(j)
    BY RangesAreSums
  <2>2. Whole \in Nat
    BY LossTraceAssumption
  <2> HIDE DEF P, n
  <2>3. i \in 1 .. n /\ i \in 0 .. n /\ i - 1 \in 0 .. n
    BY <2>1
  <2>4. P(i) \in 0 .. Whole /\ P(i - 1) \in 0 .. Whole
        /\ shares[i] \in Nat \ {0} /\ P(i) = P(i - 1) + shares[i]
        /\ low = (IF i = 1 THEN 0 ELSE P(i - 1) + 1) /\ high = P(i)
        /\ (i = 1 => P(i - 1) = 0)
    BY <2>1, <2>3
  <2>5. {number \in 0 .. Whole : BucketOf(number) = i}
            = {number \in 0 .. Whole : low <= number /\ number <= high}
    BY <1>1 DEF InRange
  <2> HIDE DEF low, high
  <2>6. low \in Nat /\ high \in Nat /\ high <= Whole /\ low <= high
        /\ high - low + 1 = shares[i] + IF i = 1 THEN 1 ELSE 0
    BY <2>2, <2>3, <2>4
  <2>7. {number \in 0 .. Whole : low <= number /\ number <= high} = low .. high
    BY <2>2, <2>6
  <2>8. Cardinality(low .. high) = high - low + 1
    BY <2>6, FS_Interval
  <2> QED
    BY <2>5, <2>6, <2>7, <2>8
<1> QED
  BY <1>1, <1>2 DEF RatesInShare, Buckets


-----------------------------------------------------------------------------
(***************************************************************************)
(* The inductive invariant of the generator.                               *)
(***************************************************************************)

\* The failures that are added, and what the trace may hold: NopEvents too.
FailuresOfLinks == [time : Nat, link : 0 .. TraceLinks - 1, rate : DOMAIN shares]
TracedEvents == [time : Nat, link : Nat, rate : Nat]

GenTypeOK ==
    /\ shares \in Shares
    /\ genLink \in 0 .. TraceLinks
    /\ genQueue \in SUBSET FailuresOfLinks /\ IsFiniteSet(genQueue)
    /\ genUsed \in SUBSET Nat /\ IsFiniteSet(genUsed)
    /\ firstTime \in Nat \cup {-1}
    /\ trace \in Seq(TracedEvents)
    /\ dumped \in BOOLEAN

\* No two failures have the same time, and all times are recorded.
TimesApart ==
    /\ \A e \in genQueue : e.time \in genUsed
    /\ \A e, f \in genQueue : e.time = f.time => e = f

\* While failures are added, there are all those of the links so far.
AllAdded ==
    IF firstTime = -1
    THEN /\ trace = <<>> /\ ~dumped
         /\ Cardinality(genQueue) = genLink * EventsPerLink
    ELSE genLink = TraceLinks

\* The first failure is always within the duration.
FirstIsTaken ==
    trace = <<>> /\ firstTime # -1 =>
        /\ genQueue # {} /\ HeadTime(genQueue) = firstTime
        /\ ~dumped

\* As long as there are failures, none is lost; those that are taken are in
\* the duration and before the others, in the order of their times.
TakenInOrder ==
    genQueue # {} /\ firstTime # -1 =>
        /\ Len(trace) + Cardinality(genQueue) = TraceLinks * EventsPerLink
        /\ \A i \in DOMAIN trace :
            LET time == trace[i].time - StartEndOffset
            IN  /\ trace[i].rate \in DOMAIN shares
                /\ time \in Nat /\ time <= ExpectedLastTime
                /\ \A e \in genQueue : time < e.time
        /\ \A i, j \in DOMAIN trace : i < j => trace[i].time < trace[j].time

\* The trace is written when the next failure is too late.
WrittenWhenOver ==
    dumped => /\ genQueue # {}
              /\ \A e \in genQueue : e.time > ExpectedLastTime

GenInv ==
    /\ GenTypeOK /\ TimesApart /\ AllAdded /\ FirstIsTaken /\ TakenInOrder
    /\ WrittenWhenOver

\* The head of a queue has the least time, and this is the time of a head.
LEMMA HeadIsFirst ==
    ASSUME NEW queue, queue # {}, \A e \in queue : e.time \in Nat
    PROVE  /\ HeadTime(queue) \in Nat
           /\ \A e \in queue : HeadTime(queue) <= e.time
           /\ \A e : IsHead(e, queue) => e.time = HeadTime(queue)
<1> DEFINE times == {e.time : e \in queue}
           head  == CHOOSE e \in queue : IsHead(e, queue)
<1>1. times \subseteq Nat /\ times # {}
  OBVIOUS
<1>2. PICK t \in times : \A u \in times : t <= u
  <2> HIDE DEF times
  <2> QED
    BY <1>1, LeastNat
<1>3. \E e \in queue : IsHead(e, queue)
  BY <1>2 DEF IsHead
<1>4. head \in queue /\ IsHead(head, queue) /\ HeadTime(queue) = head.time
  BY <1>3 DEF HeadTime
<1> HIDE DEF head
<1>5. \A e \in queue : head.time <= e.time
  BY <1>4 DEF IsHead
<1>6. ASSUME NEW e, IsHead(e, queue) PROVE e.time = head.time
  <2>1. e \in queue /\ e.time <= head.time
    BY <1>4, <1>6 DEF IsHead
  <2>2. head.time <= e.time /\ e.time \in Nat /\ head.time \in Nat
    BY <1>4, <1>5, <2>1
  <2> QED
    BY <2>1, <2>2
<1> QED
  BY <1>4, <1>5, <1>6

-----------------------------------------------------------------------------
(***************************************************************************)
(* The failures of a link, each with a time of its own.                    *)
(***************************************************************************)

\* As many records as places, if no two have the same time.
LEMMA AsManyAsPlaces ==
    ASSUME NEW n \in Nat, NEW U, NEW f \in [1 .. n -> U],
           \A i, j \in 1 .. n : f[i] = f[j] => i = j,
           NEW T, \A t : t \in T <=> \E i \in 1 .. n : t = f[i]
    PROVE  IsFiniteSet(T) /\ Cardinality(T) = n
<1> DEFINE S == 1 .. n
<1>1. IsFiniteSet(S) /\ Cardinality(S) = n
  BY FS_Interval
<1>2. f \in [S -> T] /\ \A t \in T : \E i \in S : f[i] = t
  OBVIOUS
<1>3. f \in Bijection(S, T)
  <2>1. f \in Injection(S, T)
    BY <1>2 DEF Injection, IsInjective
  <2>2. f \in Surjection(S, T)
    BY <1>2 DEF Surjection
  <2> QED
    BY <2>1, <2>2 DEF Bijection
<1>4. ExistsBijection(S, T)
  BY <1>3 DEF ExistsBijection
<1> HIDE DEF S
<1> QED
  BY <1>1, <1>4, FS_Bijection

\* The failures of the next link, at the times that are drawn for them.
AddedFailures(gaps, rates) ==
    [i \in 1 .. EventsPerLink |->
        Loss(FoldLeft(+, 0, SubSeq(gaps, 1, i)) * Hour, genLink, rates[i])]

\* The failures of a link are moved to times no failure had before.
LEMMA FailuresOfLink ==
    ASSUME GenTypeOK, genLink < TraceLinks,
           NEW gaps \in [1 .. EventsPerLink -> Gaps],
           NEW rates \in [1 .. EventsPerLink -> Buckets]
    PROVE  LET added == Scheduled(AddedFailures(gaps, rates), genUsed)
           IN  /\ added.events \in SUBSET FailuresOfLinks
               /\ IsFiniteSet(added.events)
               /\ Cardinality(added.events) = EventsPerLink
               /\ added.used \in SUBSET Nat /\ IsFiniteSet(added.used)
               /\ genUsed \subseteq added.used
               /\ \A e \in added.events :
                    e.time \in added.used /\ e.time \notin genUsed
               /\ \A e, f \in added.events : e.time = f.time => e = f
<1> DEFINE n      == EventsPerLink
           events == AddedFailures(gaps, rates)
           added  == Scheduled(events, genUsed)
<1>1. n \in Nat /\ Gaps \subseteq Nat /\ Hour \in Nat /\ TraceLinks \in Nat
  BY LossTraceAssumption
<1>2. /\ shares \in Shares /\ genLink \in 0 .. TraceLinks - 1
      /\ genUsed \in SUBSET Nat /\ IsFiniteSet(genUsed)
  BY <1>1 DEF GenTypeOK
<1>3. \A i \in 1 .. n : rates[i] \in DOMAIN shares
  BY <1>2, SharesAreKept
<1>4. ASSUME NEW i \in 1 .. n PROVE SumOf(SubSeq(gaps, 1, i)) * Hour \in Nat
  <2>1. gaps \in Seq(Nat) /\ Len(gaps) = n
    <3>1. gaps \in [1 .. n -> Nat]
      BY <1>1
    <3> QED
      BY <1>1, <3>1
  <2>2. i \in 0 .. n
    BY <1>1
  <2>3. SumOf(SubSeq(gaps, 1, i)) \in Nat
    BY <2>1, <2>2, PrefixSumsRise
  <2> QED
    BY <1>1, <2>3
<1>5. /\ DOMAIN events = 1 .. n
      /\ \A i \in 1 .. n :
            events[i] = Loss(SumOf(SubSeq(gaps, 1, i)) * Hour, genLink, rates[i])
  BY DEF AddedFailures, SumOf
<1> HIDE DEF events
<1>6. \A i \in 1 .. n :
        /\ events[i].time \in Nat
        /\ \A t : [events[i] EXCEPT !.time = t] = Loss(t, genLink, rates[i])
  BY <1>4, <1>5 DEF Loss
<1>7. PICK at : IsSchedule(events, genUsed, 1 .. n, at, added)
  BY <1>1, <1>2, <1>5, <1>6, ScheduledIsSchedule
<1> HIDE DEF added
<1> DEFINE f == [i \in 1 .. n |-> Loss(at[i], genLink, rates[i])]
<1>8. /\ \A i \in 1 .. n : at[i] \in Nat /\ at[i] \notin genUsed
      /\ \A i, j \in 1 .. n : at[i] = at[j] => i = j
      /\ added.used = genUsed \cup {at[i] : i \in 1 .. n}
      /\ IsFiniteSet(added.used)
  BY <1>7 DEF IsSchedule
<1>9. \A e : e \in added.events <=> \E i \in 1 .. n : e = f[i]
  <2> DEFINE g(i) == [events[i] EXCEPT !.time = at[i]]
  <2>1. added.events = {g(i) : i \in 1 .. n}
    BY <1>7 DEF IsSchedule
  <2>2. \A i \in 1 .. n : g(i) = f[i]
    BY <1>6
  <2> HIDE DEF f, g
  <2>3. \A e : e \in added.events <=> \E i \in 1 .. n : e = g(i)
    BY <2>1
  <2> QED
    BY <2>2, <2>3
<1>10. \A i \in 1 .. n : f[i].time = at[i] /\ f[i] \in FailuresOfLinks
  BY <1>2, <1>3, <1>8 DEF Loss, FailuresOfLinks
<1>11. f \in [1 .. n -> FailuresOfLinks]
  BY <1>10
<1> HIDE DEF f
<1>12. \A i, j \in 1 .. n : f[i] = f[j] => i = j
  BY <1>8, <1>10
<1>13. IsFiniteSet(added.events) /\ Cardinality(added.events) = n
  <2> DEFINE T == added.events
             U == FailuresOfLinks
  <2>1. /\ n \in Nat /\ f \in [1 .. n -> U]
        /\ \A i, j \in 1 .. n : f[i] = f[j] => i = j
        /\ \A t : t \in T <=> \E i \in 1 .. n : t = f[i]
    BY <1>1, <1>9, <1>11, <1>12
  <2> HIDE DEF n, T, U
  <2>2. IsFiniteSet(T) /\ Cardinality(T) = n
    BY <2>1, AsManyAsPlaces
  <2> QED
    BY <2>2 DEF T
<1>14. added.events \in SUBSET FailuresOfLinks
  BY <1>9, <1>10
<1>15. \A e \in added.events : e.time \in added.used /\ e.time \notin genUsed
  BY <1>8, <1>9, <1>10
<1>16. \A e, g \in added.events : e.time = g.time => e = g
  BY <1>8, <1>9, <1>10
<1>17. added.used \in SUBSET Nat /\ genUsed \subseteq added.used
  <2>1. \A t : t \in added.used <=> t \in genUsed \/ \E i \in 1 .. n : t = at[i]
    BY <1>8
  <2>2. ASSUME NEW t \in added.used PROVE t \in Nat
    <3>1. CASE t \in genUsed
      BY <1>2, <3>1
    <3>2. CASE \E i \in 1 .. n : t = at[i]
      BY <1>8, <3>2
    <3> QED
      BY <2>1, <3>1, <3>2
  <2> QED
    BY <2>1, <2>2
<1> QED
  BY <1>8, <1>13, <1>14, <1>15, <1>16, <1>17 DEF added, events

-----------------------------------------------------------------------------
(***************************************************************************)
(* The invariant is inductive.                                             *)
(***************************************************************************)

\* An empty trace, and a failure of every link to come.
LEMMA GenInvInit == GenInit => GenInv
<1> SUFFICES ASSUME GenInit PROVE GenInv
  OBVIOUS
<1> USE DEF GenInit
<1>1. TraceLinks \in Nat \ {0} /\ EventsPerLink \in Nat
  BY LossTraceAssumption
<1>2. IsFiniteSet({}) /\ Cardinality({}) = 0
  BY FS_EmptySet
<1>3. GenTypeOK
  <2>1. genLink \in 0 .. TraceLinks
    BY <1>1
  <2>2. genQueue \in SUBSET FailuresOfLinks /\ IsFiniteSet(genQueue)
    BY <1>2
  <2>3. genUsed \in SUBSET Nat /\ IsFiniteSet(genUsed)
    BY <1>2
  <2>4. firstTime \in Nat \cup {-1} /\ dumped \in BOOLEAN
    OBVIOUS
  <2>5. trace \in Seq(TracedEvents)
    OBVIOUS
  <2> QED
    BY <2>1, <2>2, <2>3, <2>4, <2>5 DEF GenTypeOK
<1>4. TimesApart /\ AllAdded /\ FirstIsTaken /\ TakenInOrder /\ WrittenWhenOver
  BY <1>1, <1>2 DEF TimesApart, AllAdded, FirstIsTaken, TakenInOrder,
                    WrittenWhenOver
<1> QED
  BY <1>3, <1>4 DEF GenInv

\* The failures of a link are added to those of the links before.
LEMMA AddLinkKeeps == GenInv /\ AddLink => GenInv'
<1> SUFFICES ASSUME GenInv, AddLink PROVE GenInv'
  OBVIOUS
<1>1. PICK gaps \in [1 .. EventsPerLink -> Gaps],
           rates \in [1 .. EventsPerLink -> Buckets] :
        LET added == Scheduled(AddedFailures(gaps, rates), genUsed)
        IN  /\ genLink < TraceLinks
            /\ genLink' = genLink + 1
            /\ genQueue' = genQueue \cup added.events
            /\ genUsed' = added.used
            /\ UNCHANGED <<shares, firstTime, trace, dumped>>
  BY DEF AddLink, AddedFailures
<1> DEFINE added == Scheduled(AddedFailures(gaps, rates), genUsed)
           new   == added.events
<1>2. GenTypeOK /\ TimesApart /\ AllAdded
  BY DEF GenInv
<1>3. /\ new \in SUBSET FailuresOfLinks /\ IsFiniteSet(new)
      /\ Cardinality(new) = EventsPerLink
      /\ added.used \in SUBSET Nat /\ IsFiniteSet(added.used)
      /\ genUsed \subseteq added.used
      /\ \A e \in new : e.time \in added.used /\ e.time \notin genUsed
      /\ \A e, f \in new : e.time = f.time => e = f
  BY <1>1, <1>2, FailuresOfLink
<1>4. /\ genLink < TraceLinks /\ genLink' = genLink + 1
      /\ genQueue' = genQueue \cup new /\ genUsed' = added.used
      /\ shares' = shares /\ firstTime' = firstTime
      /\ trace' = trace /\ dumped' = dumped
  BY <1>1
<1> HIDE DEF added, new
<1>5. EventsPerLink \in Nat /\ TraceLinks \in Nat
  BY LossTraceAssumption
<1>6. /\ shares \in Shares /\ genLink \in 0 .. TraceLinks
      /\ genQueue \in SUBSET FailuresOfLinks /\ IsFiniteSet(genQueue)
      /\ genUsed \in SUBSET Nat
      /\ trace \in Seq(TracedEvents) /\ dumped \in BOOLEAN
  BY <1>2 DEF GenTypeOK
<1>7. /\ firstTime = -1 /\ trace = <<>> /\ ~dumped
      /\ Cardinality(genQueue) = genLink * EventsPerLink
  BY <1>2, <1>4, <1>5, <1>6 DEF AllAdded
<1>8. FailuresOfLinks' = FailuresOfLinks
  BY <1>4 DEF FailuresOfLinks
<1>9. IsFiniteSet(genQueue \cup new)
      /\ Cardinality(genQueue \cup new) = Cardinality(genQueue) + Cardinality(new)
  <2>1. genQueue \cap new = {}
    BY <1>2, <1>3 DEF TimesApart
  <2>2. Cardinality({}) = 0
    BY FS_EmptySet
  <2>3. IsFiniteSet(genQueue \cup new)
        /\ Cardinality(genQueue \cup new) =
            Cardinality(genQueue) + Cardinality(new)
                - Cardinality(genQueue \cap new)
    BY <1>3, <1>6, FS_Union
  <2>4. Cardinality(genQueue) \in Nat /\ Cardinality(new) \in Nat
    BY <1>3, <1>5, <1>6, FS_CardinalityType
  <2>5. Cardinality(genQueue \cap new) = 0
    BY <2>1, <2>2
  <2> QED
    BY <2>3, <2>4, <2>5
<1>10. GenTypeOK'
  <2>1. genLink' \in 0 .. TraceLinks
    BY <1>4, <1>5, <1>6
  <2> QED
    BY <1>3, <1>4, <1>6, <1>7, <1>8, <1>9, <2>1 DEF GenTypeOK
<1>11. TimesApart'
  BY <1>2, <1>3, <1>4 DEF TimesApart
<1>12. AllAdded'
  <2>1. Cardinality(genQueue') = genLink * EventsPerLink + EventsPerLink
    BY <1>3, <1>4, <1>7, <1>9
  <2>2. (genLink + 1) * EventsPerLink = genLink * EventsPerLink + EventsPerLink
    BY <1>5, <1>6
  <2> QED
    BY <1>4, <1>7, <2>1, <2>2 DEF AllAdded
<1>13. FirstIsTaken' /\ TakenInOrder' /\ WrittenWhenOver'
  BY <1>4, <1>7 DEF FirstIsTaken, TakenInOrder, WrittenWhenOver
<1> QED
  BY <1>10, <1>11, <1>12, <1>13 DEF GenInv

\* The first failure starts the duration.
LEMMA StartCuttingKeeps == GenInv /\ StartCutting => GenInv'
<1> SUFFICES ASSUME GenInv, StartCutting PROVE GenInv'
  OBVIOUS
<1>1. /\ GenTypeOK /\ TimesApart /\ AllAdded
      /\ genLink = TraceLinks /\ firstTime = -1
      /\ firstTime' = HeadTime(genQueue)
      /\ UNCHANGED <<shares, genLink, genQueue, genUsed, trace, dumped>>
  BY DEF GenInv, StartCutting
<1>2. /\ trace = <<>> /\ ~dumped
      /\ Cardinality(genQueue) = TraceLinks * EventsPerLink
  BY <1>1 DEF AllAdded
<1>3. genQueue # {}
  <2>1. TraceLinks \in Nat \ {0} /\ EventsPerLink \in Nat \ {0}
    BY LossTraceAssumption
  <2>2. TraceLinks * EventsPerLink # 0
    BY <2>1
  <2> QED
    BY <1>2, <2>2, FS_EmptySet
<1>4. HeadTime(genQueue) \in Nat
  <2>1. \A e \in genQueue : e.time \in Nat
    BY <1>1 DEF GenTypeOK, FailuresOfLinks
  <2> QED
    BY <1>3, <2>1, HeadIsFirst
<1>5. GenTypeOK'
  BY <1>1, <1>4 DEF GenTypeOK, FailuresOfLinks
<1>6. TimesApart'
  BY <1>1 DEF TimesApart
<1>7. AllAdded' /\ FirstIsTaken' /\ WrittenWhenOver'
  BY <1>1, <1>2, <1>3, <1>4 DEF AllAdded, FirstIsTaken, WrittenWhenOver
<1>8. TakenInOrder'
  <2>1. Len(trace') = 0 /\ DOMAIN trace' = {}
    BY <1>1, <1>2
  <2>2. Cardinality(genQueue') \in Nat
    BY <1>1, FS_CardinalityType DEF GenTypeOK
  <2>3. Len(trace') + Cardinality(genQueue') = TraceLinks * EventsPerLink
    BY <1>1, <1>2, <2>1, <2>2
  <2> QED
    BY <2>1, <2>3 DEF TakenInOrder
<1> QED
  BY <1>5, <1>6, <1>7, <1>8 DEF GenInv

\* The list is written.
LEMMA DumpTraceKeeps == GenInv /\ DumpTrace => GenInv'
<1> SUFFICES ASSUME GenInv, DumpTrace PROVE GenInv'
  OBVIOUS
<1>1. /\ firstTime # -1 /\ ~InDuration /\ dumped'
      /\ UNCHANGED <<shares, genLink, genQueue, genUsed, firstTime, trace>>
      /\ dumped' \in BOOLEAN
  BY DEF DumpTrace
<1>2. /\ GenTypeOK /\ TimesApart /\ AllAdded /\ FirstIsTaken /\ TakenInOrder
  BY DEF GenInv
<1>3. firstTime \in Nat /\ ExpectedLastTime \in Nat
      /\ firstTime <= ExpectedLastTime
  <2>1. Hour \in Nat /\ MaxDuration \in Nat
    BY LossTraceAssumption
  <2>2. MaxDuration * Hour \in Nat
    BY <2>1
  <2>3. firstTime \in Nat
    BY <1>1, <1>2 DEF GenTypeOK
  <2> QED
    BY <2>2, <2>3 DEF ExpectedLastTime
<1>4. genQueue # {}
  BY <1>1, <1>3 DEF InDuration, HeadTime
<1>5. /\ HeadTime(genQueue) \in Nat
      /\ \A e \in genQueue : e.time \in Nat /\ HeadTime(genQueue) <= e.time
  <2>1. \A e \in genQueue : e.time \in Nat
    BY <1>2 DEF GenTypeOK, FailuresOfLinks
  <2> QED
    BY <1>4, <2>1, HeadIsFirst
<1>6. HeadTime(genQueue) > ExpectedLastTime
  BY <1>1, <1>3, <1>5 DEF InDuration
<1>7. trace # <<>>
  BY <1>1, <1>2, <1>3, <1>6 DEF FirstIsTaken
<1>8. \A e \in genQueue : e.time > ExpectedLastTime
  BY <1>3, <1>5, <1>6
<1>9. ExpectedLastTime' = ExpectedLastTime
  BY <1>1 DEF ExpectedLastTime
<1>10. GenTypeOK' /\ TimesApart'
  BY <1>1, <1>2 DEF GenTypeOK, FailuresOfLinks, TimesApart
<1>11. AllAdded' /\ FirstIsTaken' /\ WrittenWhenOver'
  BY <1>1, <1>2, <1>4, <1>7, <1>8, <1>9
    DEF AllAdded, FirstIsTaken, WrittenWhenOver
<1>12. TakenInOrder'
  BY <1>1, <1>2, <1>9 DEF TakenInOrder
<1> QED
  BY <1>10, <1>11, <1>12 DEF GenInv

\* What is taken from the queue goes to the end of the trace.
LEMMA TakeEventKeeps == GenInv /\ TakeEvent => GenInv'
<1> SUFFICES ASSUME GenInv, TakeEvent PROVE GenInv'
  OBVIOUS
<1>1. /\ firstTime # -1 /\ ~dumped /\ InDuration
      /\ UNCHANGED <<shares, genLink, genUsed, firstTime, dumped>>
  BY DEF TakeEvent
<1>2. PICK e \in IF genQueue = {} THEN {NopEvent} ELSE genQueue :
        /\ genQueue # {} => IsHead(e, genQueue)
        /\ trace' = Append(trace, [e EXCEPT !.time = @ + StartEndOffset])
        /\ genQueue' = genQueue \ {e}
  BY DEF TakeEvent
<1> DEFINE taken == [e EXCEPT !.time = @ + StartEndOffset]
<1>3. GenTypeOK /\ TimesApart /\ AllAdded /\ TakenInOrder
  BY DEF GenInv
<1>4. /\ genQueue \in SUBSET FailuresOfLinks /\ IsFiniteSet(genQueue)
      /\ trace \in Seq(TracedEvents) /\ shares \in Shares
  BY <1>3 DEF GenTypeOK
<1>5. StartEndOffset \in Nat /\ TraceLinks \in Nat \ {0}
  BY LossTraceAssumption
<1>6. DOMAIN shares \subseteq Nat
  BY <1>4, RangesAreSums
<1>7. e \in TracedEvents
  BY <1>2, <1>4, <1>5, <1>6
    DEF TracedEvents, FailuresOfLinks, NopEvent, Loss, NoBucket
<1>8. taken \in TracedEvents /\ taken.time = e.time + StartEndOffset
      /\ taken.rate = e.rate /\ e.time \in Nat
  BY <1>5, <1>7 DEF TracedEvents
<1> HIDE DEF taken
<1>9. /\ trace' \in Seq(TracedEvents) /\ trace' # <<>>
      /\ Len(trace') = Len(trace) + 1 /\ Len(trace) \in Nat
      /\ DOMAIN trace = 1 .. Len(trace) /\ DOMAIN trace' = 1 .. Len(trace) + 1
      /\ \A i \in 1 .. Len(trace) : trace'[i] = trace[i]
      /\ trace'[Len(trace) + 1] = taken
  <2>1. trace' = Append(trace, taken)
    BY <1>2 DEF taken
  <2> QED
    BY <1>4, <1>8, <2>1
<1>10. GenTypeOK'
  <2>1. IsFiniteSet(genQueue')
    BY <1>2, <1>4, FS_RemoveElement
  <2>2. genQueue' \in SUBSET FailuresOfLinks'
    BY <1>1, <1>2, <1>4 DEF FailuresOfLinks
  <2> QED
    BY <1>1, <1>3, <1>9, <2>1, <2>2 DEF GenTypeOK
<1>11. TimesApart'
  BY <1>1, <1>2, <1>3 DEF TimesApart
<1>12. AllAdded' /\ FirstIsTaken' /\ WrittenWhenOver'
  BY <1>1, <1>3, <1>9 DEF AllAdded, FirstIsTaken, WrittenWhenOver
<1>13. TakenInOrder'
  <2> SUFFICES ASSUME genQueue' # {} PROVE TakenInOrder'
    BY DEF TakenInOrder
  <2>1. genQueue # {} /\ e \in genQueue /\ IsHead(e, genQueue)
    BY <1>2
  <2>2. /\ Len(trace) + Cardinality(genQueue) = TraceLinks * EventsPerLink
        /\ \A i \in 1 .. Len(trace) :
            LET time == trace[i].time - StartEndOffset
            IN  /\ trace[i].rate \in DOMAIN shares
                /\ time \in Nat /\ time <= ExpectedLastTime
                /\ \A f \in genQueue : time < f.time
        /\ \A i, j \in 1 .. Len(trace) : i < j => trace[i].time < trace[j].time
    BY <1>1, <1>3, <1>9, <2>1 DEF TakenInOrder
  <2>3. ExpectedLastTime' = ExpectedLastTime /\ DOMAIN shares' = DOMAIN shares
    BY <1>1 DEF ExpectedLastTime
  <2>4. Len(trace') + Cardinality(genQueue') = TraceLinks * EventsPerLink
    <3>1. Cardinality(genQueue') = Cardinality(genQueue) - 1
      BY <1>2, <1>4, <2>1, FS_RemoveElement
    <3>2. Cardinality(genQueue) \in Nat
      BY <1>4, FS_CardinalityType
    <3>3. Len(trace') = Len(trace) + 1 /\ Len(trace) \in Nat
      BY <1>9
    <3> QED
      BY <2>2, <3>1, <3>2, <3>3
  <2>5. e.time = HeadTime(genQueue) /\ e.time <= ExpectedLastTime
    <3>1. \A f \in genQueue : f.time \in Nat
      BY <1>4 DEF FailuresOfLinks
    <3>2. e.time = HeadTime(genQueue)
      BY <2>1, <3>1, HeadIsFirst
    <3> QED
      BY <1>1, <3>2 DEF InDuration
  <2>6. e.rate \in DOMAIN shares
    BY <1>4, <2>1 DEF FailuresOfLinks
  <2>7. \A f \in genQueue' : f \in genQueue /\ e.time < f.time
    <3> SUFFICES ASSUME NEW f \in genQueue' PROVE f \in genQueue /\ e.time < f.time
      OBVIOUS
    <3>1. f \in genQueue /\ f # e
      BY <1>2
    <3>2. e.time <= f.time /\ e.time # f.time
      BY <1>3, <2>1, <3>1 DEF IsHead, TimesApart
    <3>3. f.time \in Nat
      BY <1>4, <3>1 DEF FailuresOfLinks
    <3> QED
      BY <1>8, <3>1, <3>2, <3>3
  <2>8. taken.time - StartEndOffset = e.time
    BY <1>5, <1>8
  <2>9. ASSUME NEW i \in 1 .. Len(trace) + 1
        PROVE  LET time == trace'[i].time - StartEndOffset
               IN  /\ trace'[i].rate \in DOMAIN shares
                   /\ time \in Nat /\ time <= ExpectedLastTime
                   /\ \A f \in genQueue' : time < f.time
    <3>1. CASE i = Len(trace) + 1
      BY <1>8, <1>9, <2>5, <2>6, <2>7, <2>8, <3>1
    <3>2. CASE i # Len(trace) + 1
      <4>1. i \in 1 .. Len(trace) /\ trace'[i] = trace[i]
        BY <1>9, <3>2
      <4> QED
        BY <2>2, <2>7, <4>1
    <3> QED
      BY <3>1, <3>2
  <2>10. ASSUME NEW i \in 1 .. Len(trace) + 1, NEW j \in 1 .. Len(trace) + 1, i < j
         PROVE  trace'[i].time < trace'[j].time
    <3>1. i \in 1 .. Len(trace) /\ trace'[i] = trace[i]
      BY <1>9, <2>10
    <3>2. CASE j = Len(trace) + 1
      <4>1. trace'[j].time = e.time + StartEndOffset
        BY <1>8, <1>9, <3>2
      <4>2. trace[i].time - StartEndOffset < e.time
        BY <2>1, <2>2, <3>1
      <4>3. trace[i].time \in Nat
        <5>1. trace[i] \in TracedEvents
          BY <1>4, <3>1
        <5> QED
          BY <5>1 DEF TracedEvents
      <4> QED
        BY <1>5, <1>8, <3>1, <4>1, <4>2, <4>3
    <3>3. CASE j # Len(trace) + 1
      <4>1. j \in 1 .. Len(trace) /\ trace'[j] = trace[j]
        BY <1>9, <3>3
      <4> QED
        BY <2>2, <2>10, <3>1, <4>1
    <3> QED
      BY <3>2, <3>3
  <2> QED
    BY <1>1, <1>9, <2>3, <2>4, <2>9, <2>10 DEF TakenInOrder
<1> QED
  BY <1>10, <1>11, <1>12, <1>13 DEF GenInv

\* Every step of the generator keeps the invariant.
LEMMA GenInvStep == GenInv /\ [GenNext]_genVars => GenInv'
<1> SUFFICES ASSUME GenInv, [GenNext]_genVars PROVE GenInv'
  OBVIOUS
<1>1. CASE AddLink
  BY <1>1, AddLinkKeeps
<1>2. CASE StartCutting
  BY <1>2, StartCuttingKeeps
<1>3. CASE TakeEvent
  BY <1>3, TakeEventKeeps
<1>4. CASE DumpTrace
  BY <1>4, DumpTraceKeeps
<1>5. CASE UNCHANGED genVars
  <2> USE <1>5 DEF genVars
  <2>1. GenTypeOK' /\ TimesApart'
    BY DEF GenInv, GenTypeOK, FailuresOfLinks, TimesApart
  <2>2. ExpectedLastTime' = ExpectedLastTime
    BY DEF ExpectedLastTime
  <2>3. AllAdded' /\ FirstIsTaken' /\ TakenInOrder' /\ WrittenWhenOver'
    BY <2>2 DEF GenInv, AllAdded, FirstIsTaken, TakenInOrder, WrittenWhenOver
  <2> QED
    BY <2>1, <2>3 DEF GenInv
<1> QED
  BY <1>1, <1>2, <1>3, <1>4, <1>5 DEF GenNext

-----------------------------------------------------------------------------
(***************************************************************************)
(* What is written.                                                        *)
(***************************************************************************)

\* What a trace that is written holds, by its places.
LEMMA WrittenTrace ==
    ASSUME GenInv, dumped
    PROVE  /\ trace # <<>> /\ trace \in Seq(TracedEvents)
           /\ Len(trace) + Cardinality(genQueue) = TraceLinks * EventsPerLink
           /\ \A i \in DOMAIN trace :
                LET time == trace[i].time - StartEndOffset
                IN  /\ trace[i] \in TracedEvents
                    /\ trace[i].rate \in DOMAIN shares
                    /\ time \in Nat /\ time <= ExpectedLastTime
                    /\ \A e \in genQueue : time < e.time
           /\ \A i, j \in DOMAIN trace : i < j => trace[i].time < trace[j].time
           /\ ExpectedLastTime \in Nat
           /\ \A e \in genQueue :
                /\ e.time \in Nat /\ e.time > ExpectedLastTime
                /\ [e EXCEPT !.time = @ + StartEndOffset].time
                        = e.time + StartEndOffset
<1>1. GenTypeOK /\ AllAdded /\ FirstIsTaken /\ TakenInOrder /\ WrittenWhenOver
  BY DEF GenInv
<1>2. firstTime # -1 /\ genQueue # {}
  BY <1>1 DEF AllAdded, WrittenWhenOver
<1>3. trace # <<>>
  BY <1>1, <1>2 DEF FirstIsTaken
<1>4. trace \in Seq(TracedEvents) /\ \A i \in DOMAIN trace : trace[i] \in TracedEvents
  <2>1. trace \in Seq(TracedEvents)
    BY <1>1 DEF GenTypeOK
  <2> HIDE DEF TracedEvents
  <2> QED
    BY <2>1
<1>5. /\ Len(trace) + Cardinality(genQueue) = TraceLinks * EventsPerLink
      /\ \A i \in DOMAIN trace :
            LET time == trace[i].time - StartEndOffset
            IN  /\ trace[i].rate \in DOMAIN shares
                /\ time \in Nat /\ time <= ExpectedLastTime
                /\ \A e \in genQueue : time < e.time
      /\ \A i, j \in DOMAIN trace : i < j => trace[i].time < trace[j].time
  BY <1>1, <1>2 DEF TakenInOrder
<1>6. ExpectedLastTime \in Nat
  <2>1. Hour \in Nat /\ MaxDuration \in Nat
    BY LossTraceAssumption
  <2>2. MaxDuration * Hour \in Nat /\ firstTime \in Nat
    BY <1>1, <1>2, <2>1 DEF GenTypeOK
  <2> QED
    BY <2>2 DEF ExpectedLastTime
<1>7. ASSUME NEW e \in genQueue
      PROVE  /\ e.time \in Nat /\ e.time > ExpectedLastTime
             /\ [e EXCEPT !.time = @ + StartEndOffset].time
                    = e.time + StartEndOffset
  <2>1. e \in FailuresOfLinks /\ e.time > ExpectedLastTime
    BY <1>1 DEF GenTypeOK, WrittenWhenOver
  <2> QED
    BY <2>1 DEF FailuresOfLinks
<1> QED
  BY <1>3, <1>4, <1>5, <1>6, <1>7

\* The failures in the duration, and no others, are written.
LEMMA WrittenInDuration ==
    ASSUME GenInv, dumped, NEW e \in Failures
    PROVE  e.time <= ExpectedLastTime <=>
                [e EXCEPT !.time = @ + StartEndOffset] \in ToSet(trace)
<1> DEFINE shifted == [e EXCEPT !.time = @ + StartEndOffset]
<1>1. StartEndOffset \in Nat
  BY LossTraceAssumption
<1>2. /\ \A i \in DOMAIN trace :
            LET time == trace[i].time - StartEndOffset
            IN  /\ trace[i] \in TracedEvents
                /\ time \in Nat /\ time <= ExpectedLastTime
                /\ \A f \in genQueue : time < f.time
      /\ ExpectedLastTime \in Nat
      /\ \A f \in genQueue :
            /\ f.time \in Nat /\ f.time > ExpectedLastTime
            /\ [f EXCEPT !.time = @ + StartEndOffset].time
                    = f.time + StartEndOffset
  BY WrittenTrace
<1>3. CASE e \in genQueue
  <2>1. ~(e.time <= ExpectedLastTime)
    BY <1>2, <1>3
  <2>2. shifted.time = e.time + StartEndOffset /\ e.time \in Nat
    BY <1>2, <1>3
  <2> HIDE DEF shifted
  <2>3. ASSUME NEW i \in DOMAIN trace, trace[i] = shifted PROVE FALSE
    <3>1. trace[i].time - StartEndOffset < e.time
      BY <1>2, <1>3
    <3> QED
      BY <1>1, <2>2, <2>3, <3>1
  <2>4. shifted \notin ToSet(trace)
    BY <2>3 DEF ToSet
  <2> QED
    BY <2>1, <2>4 DEF shifted
<1>4. CASE e \notin genQueue
  <2>1. PICK i \in DOMAIN trace :
            e = [trace[i] EXCEPT !.time = @ - StartEndOffset]
    BY <1>4 DEF Failures, ToSet
  <2>2. trace[i] \in TracedEvents /\ trace[i].time - StartEndOffset <= ExpectedLastTime
    BY <1>2
  <2>3. e.time = trace[i].time - StartEndOffset /\ shifted = trace[i]
    <3> DEFINE r == trace[i]
    <3>1. /\ r = [time |-> r.time, link |-> r.link, rate |-> r.rate]
          /\ r.time \in Nat
      BY <2>2 DEF TracedEvents
    <3> HIDE DEF r
    <3>2. e = [r EXCEPT !.time = @ - StartEndOffset]
      BY <2>1 DEF r
    <3>3. e = [time |-> r.time - StartEndOffset, link |-> r.link, rate |-> r.rate]
      BY <3>1, <3>2
    <3>4. shifted = [time |-> r.time - StartEndOffset + StartEndOffset,
                     link |-> r.link, rate |-> r.rate]
      BY <3>3
    <3>5. r.time - StartEndOffset + StartEndOffset = r.time
      BY <1>1, <3>1
    <3>6. e.time = r.time - StartEndOffset /\ shifted = r
      BY <3>1, <3>3, <3>4, <3>5
    <3> QED
      BY <3>6 DEF r
  <2>4. shifted \in ToSet(trace)
    BY <2>3 DEF ToSet
  <2> QED
    BY <2>2, <2>3, <2>4
<1> QED
  BY <1>3, <1>4

\* The simulation's queue takes the trace as it is.
LEMMA LoadedAsWritten ==
    ASSUME GenInv, dumped
    PROVE  Scheduled(trace, {}).events = ToSet(trace)
<1>1. /\ trace \in Seq(TracedEvents)
      /\ \A i \in DOMAIN trace : trace[i] \in TracedEvents
      /\ \A i, j \in DOMAIN trace : i < j => trace[i].time < trace[j].time
  BY WrittenTrace
<1> DEFINE n == Len(trace)
<1>2. n \in Nat /\ DOMAIN trace = 1 .. n
  BY <1>1
<1>3. \A i \in 1 .. n :
        /\ trace[i].time \in Nat
        /\ [trace[i] EXCEPT !.time = trace[i].time] = trace[i]
  BY <1>1, <1>2 DEF TracedEvents
<1>4. ASSUME NEW i \in 1 .. n, NEW j \in 1 .. n, trace[i].time = trace[j].time
      PROVE  i = j
  <2>1. trace[i].time \in Nat /\ trace[j].time \in Nat
    BY <1>3
  <2>2. ~(i < j) /\ ~(j < i)
    BY <1>1, <1>2, <1>4, <2>1
  <2> QED
    BY <1>2, <2>2
<1> HIDE DEF n
<1>5. Scheduled(trace, {}).events = {trace[i] : i \in 1 .. n}
  BY <1>2, <1>3, <1>4, ScheduledAsTheyAre
<1> QED
  BY <1>2, <1>5 DEF ToSet

\* The invariant says that the trace is complete.
LEMMA GenInvIsEnough == GenInv => TraceComplete
<1> SUFFICES ASSUME GenInv, dumped PROVE TraceComplete
  BY DEF TraceComplete
<1>1. RatesInShare
  BY SharesAreKept DEF GenInv, GenTypeOK
<1>2. /\ trace # <<>> /\ trace \in Seq(TracedEvents)
      /\ Len(trace) + Cardinality(genQueue) = TraceLinks * EventsPerLink
      /\ \A i \in DOMAIN trace :
            /\ trace[i].rate \in DOMAIN shares
            /\ trace[i].time - StartEndOffset \in Nat
      /\ \A i, j \in DOMAIN trace : i < j => trace[i].time < trace[j].time
  BY WrittenTrace
<1>3. trace[1].time - StartEndOffset >= 0
  <2>1. 1 \in DOMAIN trace
    BY <1>2
  <2> QED
    BY <1>2, <2>1
<1>4. \A e \in Failures : e.time <= ExpectedLastTime <=>
                [e EXCEPT !.time = @ + StartEndOffset] \in ToSet(trace)
  BY WrittenInDuration
<1>5. Scheduled(trace, {}).events = ToSet(trace)
  BY LoadedAsWritten
<1> QED
  BY <1>1, <1>2, <1>3, <1>4, <1>5 DEF TraceComplete

(***************************************************************************)
(* The trace that is written is complete: all the failures in the wanted   *)
(* duration and no others, each once, in the order of their times and at   *)
(* times that the simulation's queue keeps, with loss rates from the       *)
(* buckets by their shares (generate_loss_trace.main, EventQueue,          *)
(* LossRateGenerator).                                                     *)
(***************************************************************************)
THEOREM TraceIsComplete == GenSpec => []TraceComplete
<1>1. GenInit => GenInv
  BY GenInvInit
<1>2. GenInv /\ [GenNext]_genVars => GenInv'
  BY GenInvStep
<1>3. GenInv => TraceComplete
  BY GenInvIsEnough
<1> QED
  BY <1>1, <1>2, <1>3, PTL DEF GenSpec

-----------------------------------------------------------------------------
(***************************************************************************)
(* The builder of the topology: how many links there are at every moment.  *)
(***************************************************************************)
BuilderInv ==
    /\ fabric \in Fabrics /\ traced \in Fabrics
    /\ SameTopology(fabric, traced)
    /\ podsBuilt \in 0 .. Pods(fabric)
    /\ coresBuilt \in 0 .. Planes(fabric) * CoresPerPlane(fabric)
    /\ coresBuilt # 0 => podsBuilt = Pods(fabric)
    /\ \E S : links \in Seq(S)
    /\ Len(links) = podsBuilt * (ToRs(fabric) * Planes(fabric))
                        + coresBuilt * Pods(fabric)

\* The parameters are numbers; the ports of a fat tree are even.
LEMMA FabricSizes ==
    ASSUME NEW f \in Fabrics
    PROVE  /\ Pods(f) \in Nat /\ ToRs(f) \in Nat
           /\ Planes(f) \in Nat /\ CoresPerPlane(f) \in Nat
<1>1. CASE f \in [type : {"FatTree"}, k : {n \in Nat \ {0} : n % 2 = 0}]
  <2>1. f.type = "FatTree" /\ f.k \in Nat
    BY <1>1
  <2>2. f.k \div 2 \in Nat
    BY <2>1
  <2> QED
    BY <2>1, <2>2 DEF Pods, ToRs, Planes, CoresPerPlane
<1>2. CASE f \in [type : {"FbFabric"}, pods : Nat \ {0}, tors : Nat \ {0},
                  oversubscription : Nat \ {0}, deployment : 1 .. 100]
  <2>1. /\ f.type = "FbFabric" /\ f.pods \in Nat /\ f.tors \in Nat
        /\ f.oversubscription \in Nat \ {0}
    BY <1>2
  <2>2. f.tors \div f.oversubscription \in Nat
    BY <2>1
  <2> QED
    BY <2>1, <2>2 DEF Pods, ToRs, Planes, CoresPerPlane, Quotient
<1> QED
  BY <1>1, <1>2, BuilderAssumption

\* Links that are added count.
LEMMA JoinedLength ==
    ASSUME NEW s, \E S : s \in Seq(S), NEW n \in Nat, NEW T,
           NEW added \in [1 .. n -> T]
    PROVE  /\ \E S : s \o added \in Seq(S)
           /\ Len(s \o added) = Len(s) + n
           /\ Len(s) \in Nat
<1>1. PICK S : s \in Seq(S)
  OBVIOUS
<1>2. s \in Seq(S \cup T) /\ added \in Seq(S \cup T) /\ Len(added) = n
  BY <1>1
<1> DEFINE U == S \cup T
<1> HIDE DEF U
<1>3. s \o added \in Seq(U) /\ Len(s \o added) = Len(s) + Len(added)
  BY <1>2 DEF U
<1> QED
  BY <1>1, <1>2, <1>3

\* Nothing is built.
LEMMA BuilderInvInit == BuilderInit => BuilderInv
<1> SUFFICES ASSUME BuilderInit PROVE BuilderInv
  OBVIOUS
<1>1. /\ fabric \in Fabrics /\ traced \in Fabrics
      /\ SameTopology(fabric, traced)
      /\ podsBuilt = 0 /\ coresBuilt = 0 /\ links = <<>>
  BY DEF BuilderInit
<1>2. /\ Pods(fabric) \in Nat /\ ToRs(fabric) \in Nat
      /\ Planes(fabric) \in Nat /\ CoresPerPlane(fabric) \in Nat
  BY <1>1, FabricSizes
<1> DEFINE p == Pods(fabric)
           q == ToRs(fabric) * Planes(fabric)
           c == Planes(fabric) * CoresPerPlane(fabric)
<1>3. p \in Nat /\ q \in Nat /\ c \in Nat
  BY <1>2
<1> HIDE DEF p, q, c
<1>4. 0 \in 0 .. p /\ 0 \in 0 .. c /\ 0 * q + 0 * p = 0
  BY <1>3
<1>5. \E S : <<>> \in Seq(S)
  OBVIOUS
<1> QED
  BY <1>1, <1>4, <1>5 DEF BuilderInv, p, q, c

\* A pod brings a link between every ToR and every Agg of it.
LEMMA BuildPodKeeps == BuilderInv /\ BuildPod => BuilderInv'
<1> SUFFICES ASSUME BuilderInv, BuildPod PROVE BuilderInv'
  OBVIOUS
<1> DEFINE p == Pods(fabric)
           q == ToRs(fabric) * Planes(fabric)
           c == Planes(fabric) * CoresPerPlane(fabric)
           L(i) == LET tor == Tor(podsBuilt, (i - 1) \div Planes(fabric))
                   IN  Link(tor, Agg(podsBuilt, (i - 1) % Planes(fabric)),
                            podsBuilt, {tor}, Full(fabric) \/ podsBuilt \in lgPods)
           added == [i \in 1 .. q |-> L(i)]
<1>1. /\ podsBuilt < p /\ podsBuilt' = podsBuilt + 1
      /\ links' = links \o added
      /\ UNCHANGED <<fabric, traced, coresBuilt>>
  BY DEF BuildPod
<1>2. added \in [1 .. q -> {L(i) : i \in 1 .. q}]
  OBVIOUS
<1> HIDE DEF added
<1>3. p \in Nat /\ q \in Nat /\ c \in Nat
  <2>1. /\ p \in Nat /\ ToRs(fabric) \in Nat
        /\ Planes(fabric) \in Nat /\ CoresPerPlane(fabric) \in Nat
    BY FabricSizes DEF BuilderInv
  <2> QED
    BY <2>1
<1>4. /\ podsBuilt \in 0 .. p /\ coresBuilt = 0 /\ \E S : links \in Seq(S)
      /\ Len(links) = podsBuilt * q + coresBuilt * p
  BY <1>1, <1>3 DEF BuilderInv
<1>5. /\ \E S : links' \in Seq(S)
      /\ Len(links') = Len(links) + q
  BY <1>1, <1>2, <1>3, <1>4, JoinedLength
<1> HIDE DEF q
<1>6. Len(links') = (podsBuilt + 1) * q + coresBuilt * p
  BY <1>3, <1>4, <1>5
<1>7. podsBuilt + 1 \in 0 .. p
  BY <1>1, <1>3, <1>4
<1> QED
  BY <1>1, <1>4, <1>5, <1>6, <1>7 DEF BuilderInv, p, q, c

\* A core switch brings a link to every pod.
LEMMA ConnectCoreKeeps == BuilderInv /\ ConnectCore => BuilderInv'
<1> SUFFICES ASSUME BuilderInv, ConnectCore PROVE BuilderInv'
  OBVIOUS
<1> DEFINE p == Pods(fabric)
           q == ToRs(fabric) * Planes(fabric)
           c == Planes(fabric) * CoresPerPlane(fabric)
           plane == coresBuilt \div CoresPerPlane(fabric)
           core  == Core(plane, coresBuilt % CoresPerPlane(fabric))
           L(i) == LET agg == Agg(i - 1, plane)
                   IN  Link(agg, core, i - 1, CoreAffects(agg), Full(fabric))
           added == [i \in 1 .. podsBuilt |-> L(i)]
<1>1. /\ podsBuilt = p /\ coresBuilt < c /\ coresBuilt' = coresBuilt + 1
      /\ links' = links \o added
      /\ UNCHANGED <<fabric, traced, podsBuilt>>
  BY DEF ConnectCore
<1>2. added \in [1 .. p -> {L(i) : i \in 1 .. p}]
  BY <1>1
<1> HIDE DEF added
<1>3. p \in Nat /\ q \in Nat /\ c \in Nat
  <2>1. /\ p \in Nat /\ ToRs(fabric) \in Nat
        /\ Planes(fabric) \in Nat /\ CoresPerPlane(fabric) \in Nat
    BY FabricSizes DEF BuilderInv
  <2> QED
    BY <2>1
<1>4. /\ coresBuilt \in 0 .. c /\ \E S : links \in Seq(S)
      /\ Len(links) = podsBuilt * q + coresBuilt * p
  BY DEF BuilderInv
<1>5. /\ \E S : links' \in Seq(S)
      /\ Len(links') = Len(links) + p
  BY <1>1, <1>2, <1>3, <1>4, JoinedLength
<1> HIDE DEF p, q, c
<1>6. Len(links') = podsBuilt * q + (coresBuilt + 1) * p
  BY <1>1, <1>3, <1>4, <1>5
<1>7. coresBuilt + 1 \in 0 .. c /\ podsBuilt \in 0 .. p
  BY <1>1, <1>3, <1>4
<1> QED
  BY <1>1, <1>4, <1>5, <1>6, <1>7 DEF BuilderInv, p, q, c

\* The number of links stays right.
LEMMA BuilderInvStep == BuilderInv /\ [BuilderNext]_builderVars => BuilderInv'
<1> SUFFICES ASSUME BuilderInv, [BuilderNext]_builderVars PROVE BuilderInv'
  OBVIOUS
<1>1. CASE BuildPod
  BY <1>1, BuildPodKeeps
<1>2. CASE ConnectCore
  BY <1>2, ConnectCoreKeeps
<1>3. CASE UNCHANGED builderVars
  BY <1>3 DEF builderVars, BuilderInv
<1> QED
  BY <1>1, <1>2, <1>3 DEF BuilderNext

\* What a divisor of a product is left with.
LEMMA ExactQuotient ==
    ASSUME NEW n \in Int, NEW m \in Nat \ {0}, NEW x \in Int, x = n * m
    PROVE  x \div m = n
<1> DEFINE d == x \div m
           r == x % m
<1>1. d \in Int /\ r \in 0 .. m - 1 /\ x = m * d + r
  OBVIOUS
<1> HIDE DEF d, r
<1>2. n * m = m * d + r
  BY <1>1
<1>3. m * (n - d) = r
  BY <1>1, <1>2
<1>4. ~(n - d >= 1)
  <2> SUFFICES ASSUME n - d >= 1 PROVE FALSE
    OBVIOUS
  <2>1. m * (n - d) >= m
    BY <1>1
  <2> QED
    BY <1>1, <1>3, <2>1
<1>5. ~(n - d <= -1)
  <2> SUFFICES ASSUME n - d <= -1 PROVE FALSE
    OBVIOUS
  <2>1. m * (n - d) <= -m
    BY <1>1
  <2> QED
    BY <1>1, <1>3, <2>1
<1>6. n = d
  BY <1>1, <1>4, <1>5
<1> QED
  BY <1>6 DEF d

\* In a fat tree both count half the cube of the ports.
LEMMA FatTreeLinks ==
    ASSUME NEW f \in [type : {"FatTree"}, k : {n \in Nat \ {0} : n % 2 = 0}],
           NEW t \in Fabrics, SameTopology(f, t)
    PROVE  TracedLinks(t) = Pods(f) * (ToRs(f) * Planes(f))
                                + Planes(f) * CoresPerPlane(f) * Pods(f)
<1>1. f.type = "FatTree" /\ f.k \in Nat /\ f.k % 2 = 0 /\ "k" \in DOMAIN f
  OBVIOUS
<1>2. t.type = "FatTree" /\ t.k = f.k
  BY <1>1 DEF SameTopology
<1> DEFINE n == f.k \div 2
<1>3. n \in Nat /\ f.k = 2 * n
  BY <1>1
<1>4. /\ Pods(f) = f.k /\ ToRs(f) = n /\ Planes(f) = n /\ CoresPerPlane(f) = n
      /\ TracedLinks(t) = (f.k * f.k * f.k) \div 2
  BY <1>1, <1>2 DEF Pods, ToRs, Planes, CoresPerPlane, TracedLinks, Quotient
<1> HIDE DEF n
<1> DEFINE half == 4 * (n * (n * n))
<1>5. f.k * f.k * f.k = half * 2 /\ half \in Int
  <2>1. f.k * f.k = 4 * (n * n)
    BY <1>3
  <2>2. 4 * (n * n) * (2 * n) = half * 2
    BY <1>3
  <2>3. n * n \in Int /\ n * (n * n) \in Int
    BY <1>3
  <2> QED
    BY <1>3, <2>1, <2>2, <2>3
<1>6. TracedLinks(t) = half
  <2>1. f.k * f.k * f.k \in Int
    BY <1>1
  <2> HIDE DEF half
  <2> QED
    BY <1>4, <1>5, <2>1, ExactQuotient
<1>7. Pods(f) * (ToRs(f) * Planes(f)) + Planes(f) * CoresPerPlane(f) * Pods(f)
        = half
  <2>1. 2 * n * (n * n) + n * n * (2 * n) = half
    BY <1>3
  <2> QED
    BY <1>3, <1>4, <2>1
<1> QED
  BY <1>6, <1>7

\* In a fabric the generator does not round if there is nothing to round.
LEMMA FbFabricLinks ==
    ASSUME NEW f \in [type : {"FbFabric"}, pods : Nat \ {0}, tors : Nat \ {0},
                      oversubscription : Nat \ {0}, deployment : 1 .. 100],
           NEW t \in Fabrics, SameTopology(f, t),
           t.tors % t.oversubscription = 0
    PROVE  TracedLinks(t) = Pods(f) * (ToRs(f) * Planes(f))
                                + Planes(f) * CoresPerPlane(f) * Pods(f)
<1> DEFINE p == f.pods
           m == f.tors
           o == f.oversubscription
           n == m \div o
<1>1. /\ f.type = "FbFabric" /\ p \in Nat /\ m \in Nat /\ o \in Nat \ {0}
      /\ {"pods", "tors", "oversubscription"} \subseteq DOMAIN f \ {"deployment"}
  OBVIOUS
<1>2. /\ t.type = "FbFabric" /\ t.pods = p /\ t.tors = m
      /\ t.oversubscription = o /\ m % o = 0
  BY <1>1 DEF SameTopology
<1>3. n \in Nat /\ m = n * o
  BY <1>1, <1>2
<1>4. /\ Pods(f) = p /\ ToRs(f) = m /\ Planes(f) = 4 /\ CoresPerPlane(f) = n
      /\ TracedLinks(t) = (p * (4 * m * o + 4 * m)) \div o
  BY <1>1, <1>2 DEF Pods, ToRs, Planes, CoresPerPlane, TracedLinks, Quotient
<1> HIDE DEF p, m, o, n
<1> DEFINE all == p * (4 * m + 4 * n)
<1>5. p * (4 * m * o + 4 * m) = all * o /\ all \in Int
  <2>1. 4 * m * o + 4 * m = (4 * m + 4 * n) * o
    BY <1>1, <1>3
  <2>2. 4 * m + 4 * n \in Int
    BY <1>1, <1>3
  <2>3. p * ((4 * m + 4 * n) * o) = all * o
    BY <1>1, <2>2
  <2> QED
    BY <1>1, <2>1, <2>2, <2>3
<1>6. TracedLinks(t) = all
  <2>1. p * (4 * m * o + 4 * m) \in Int
    BY <1>1
  <2> HIDE DEF all
  <2> QED
    BY <1>1, <1>4, <1>5, <2>1, ExactQuotient
<1>7. p * (m * 4) + 4 * n * p = all
  BY <1>1, <1>3
<1> QED
  BY <1>4, <1>6, <1>7

(***************************************************************************)
(* The links that the generator numbers are those that are built: fat      *)
(* trees of every size, fabrics of every size whose oversubscription       *)
(* divides the ToRs (generate_loss_trace.main, the builders in topology.py *)
(* and the comparison of their parameters in Simulation.__init__).         *)
(***************************************************************************)
THEOREM TracedLinksAreBuilt == BuilderSpec => []TracedLinksExist
<1>1. BuilderInit => BuilderInv
  BY BuilderInvInit
<1>2. BuilderInv /\ [BuilderNext]_builderVars => BuilderInv'
  BY BuilderInvStep
<1>3. BuilderInv => TracedLinksExist
  <2> SUFFICES ASSUME BuilderInv, BuilderDone,
                      traced.type = "FbFabric" =>
                            traced.tors % traced.oversubscription = 0
               PROVE  TracedLinks(traced) = Len(links)
    BY DEF TracedLinksExist
  <2>1. fabric \in Fabrics /\ traced \in Fabrics /\ SameTopology(fabric, traced)
    BY DEF BuilderInv
  <2>2. Len(links) = Pods(fabric) * (ToRs(fabric) * Planes(fabric))
                    + Planes(fabric) * CoresPerPlane(fabric) * Pods(fabric)
    BY DEF BuilderInv, BuilderDone
  <2>3. CASE fabric \in [type : {"FatTree"}, k : {n \in Nat \ {0} : n % 2 = 0}]
    BY <2>1, <2>2, <2>3, FatTreeLinks
  <2>4. CASE fabric \in [type : {"FbFabric"}, pods : Nat \ {0},
                         tors : Nat \ {0}, oversubscription : Nat \ {0},
                         deployment : 1 .. 100]
    <3>1. traced.type = "FbFabric"
      BY <2>1, <2>4 DEF SameTopology
    <3> QED
      BY <2>1, <2>2, <2>4, <3>1, FbFabricLinks
  <2> QED
    BY <2>1, <2>3, <2>4, BuilderAssumption
<1> QED
  BY <1>1, <1>2, <1>3, PTL DEF BuilderSpec

-----------------------------------------------------------------------------
(***************************************************************************)
(* The graph that is built, and what is recorded of it.  GraphInv says     *)
(* which links there are after some pods and some core switches: each is   *)
(* known by the loop that built it, each that has to be there is, and none *)
(* is there twice.  RecordInv gives the entries of the lists by the number *)
(* of the pod and the place in it.  Both hold in networks with core        *)
(* switches.                                                               *)
(***************************************************************************)
\* The numbers from zero that there are n of.
Indices(n) == 0 .. n - 1

\* The core switches of the planes are connected one after the other.
PlaneNow == coresBuilt \div CoresPerPlane(fabric)
PlaceNow == coresBuilt % CoresPerPlane(fabric)
Connected(plane, c) == plane < PlaneNow \/ (plane = PlaneNow /\ c < PlaceNow)
NumConnected(plane) ==
    IF plane < PlaneNow THEN CoresPerPlane(fabric)
    ELSE IF plane = PlaneNow THEN PlaceNow ELSE 0

PodTors(pod) == {Tor(pod, i) : i \in Indices(ToRs(fabric))}
PodAggs(pod) == {Agg(pod, j) : j \in Indices(Planes(fabric))}

\* What a link that was built can be.
IsTorLink(l, p, i, j) ==
    /\ p \in Indices(podsBuilt) /\ i \in Indices(ToRs(fabric))
    /\ j \in Indices(Planes(fabric))
    /\ l.ends = <<Tor(p, i), Agg(p, j)>> /\ l.affected = {Tor(p, i)}
IsCoreLink(l, p, j, c) ==
    /\ p \in Indices(podsBuilt) /\ j \in Indices(Planes(fabric))
    /\ c \in Indices(CoresPerPlane(fabric)) /\ Connected(j, c)
    /\ l.ends = <<Agg(p, j), Core(j, c)>> /\ l.affected = PodTors(p)

KnownLink(l) ==
    \/ \E p, i, j : IsTorLink(l, p, i, j)
    \/ \E p, j, c : IsCoreLink(l, p, j, c)

LinkBetween(low, up) == \E m \in DOMAIN links : links[m].ends = <<low, up>>

AllKnown == \A m \in DOMAIN links : KnownLink(links[m])
EachOnce == \A m, n \in DOMAIN links : links[m].ends = links[n].ends => m = n

\* The graph so far.
GraphInv ==
    /\ AllKnown /\ EachOnce
    /\ \A p \in Indices(podsBuilt), i \in Indices(ToRs(fabric)),
          j \in Indices(Planes(fabric)) : LinkBetween(Tor(p, i), Agg(p, j))
    /\ \A p \in Indices(podsBuilt), j \in Indices(Planes(fabric)),
          c \in Indices(CoresPerPlane(fabric)) :
            Connected(j, c) => LinkBetween(Agg(p, j), Core(j, c))

\* What is recorded of it.
RecordInv ==
    /\ built = [aggSwitches |-> built.aggSwitches, uplinks |-> built.uplinks,
                torCapacity |-> built.torCapacity,
                coreCapacity |-> built.coreCapacity]
    /\ \E S : built.aggSwitches \in Seq(S)
    /\ Len(built.aggSwitches) = podsBuilt * ToRs(fabric)
    /\ \A p \in Indices(podsBuilt), i \in Indices(ToRs(fabric)) :
        built.aggSwitches[p * ToRs(fabric) + i + 1] = PodAggs(p)
    /\ \E S : built.uplinks \in Seq(S)
    /\ Len(built.uplinks) = podsBuilt * Planes(fabric)
    /\ \A p \in Indices(podsBuilt), j \in Indices(Planes(fabric)) :
        built.uplinks[p * Planes(fabric) + j + 1] = NumConnected(j)
    /\ built.torCapacity \in [1 .. podsBuilt -> {ToRs(fabric) * Planes(fabric)}]
    /\ built.coreCapacity \in [1 .. podsBuilt -> {coresBuilt}]

\* Switches are told apart by type, group and index.
LEMMA SwitchesDiffer ==
    ASSUME NEW p, NEW i, NEW q, NEW j
    PROVE  /\ Tor(p, i) = Tor(q, j) <=> p = q /\ i = j
           /\ Agg(p, i) = Agg(q, j) <=> p = q /\ i = j
           /\ Core(p, i) = Core(q, j) <=> p = q /\ i = j
           /\ Tor(p, i) # Agg(q, j) /\ Tor(p, i) # Core(q, j)
           /\ Agg(p, i) # Core(q, j)
<1>1. /\ Tor(p, i).type = "TOR" /\ Tor(p, i).group = p /\ Tor(p, i).index = i
      /\ Agg(p, i).type = "AGG" /\ Agg(p, i).group = p /\ Agg(p, i).index = i
      /\ Core(p, i).type = "CORE" /\ Core(p, i).group = p /\ Core(p, i).index = i
  BY DEF Tor, Agg, Core
<1>2. /\ Tor(q, j).group = q /\ Tor(q, j).index = j
      /\ Agg(q, j).type = "AGG" /\ Agg(q, j).group = q /\ Agg(q, j).index = j
      /\ Core(q, j).type = "CORE" /\ Core(q, j).group = q /\ Core(q, j).index = j
  BY DEF Tor, Agg, Core
<1>3. Tor(p, i) = Tor(q, j) <=> p = q /\ i = j
  BY <1>1, <1>2, Zenon
<1>4. Agg(p, i) = Agg(q, j) <=> p = q /\ i = j
  BY <1>1, <1>2, Zenon
<1>5. Core(p, i) = Core(q, j) <=> p = q /\ i = j
  BY <1>1, <1>2, Zenon
<1>6. "TOR" # "AGG" /\ "TOR" # "CORE" /\ "AGG" # "CORE"
  OBVIOUS
<1>7. Tor(p, i) # Agg(q, j) /\ Tor(p, i) # Core(q, j) /\ Agg(p, i) # Core(q, j)
  BY <1>1, <1>2, <1>6, Zenon
<1> QED
  BY <1>3, <1>4, <1>5, <1>7

\* The quotient and the rest are the only ones.
LEMMA Division ==
    ASSUME NEW m \in Nat \ {0}, NEW d \in Int, NEW r \in 0 .. m - 1, NEW x \in Int,
           x = d * m + r
    PROVE  x \div m = d /\ x % m = r
<1> DEFINE e == x \div m
           s == x % m
<1>1. e \in Int /\ s \in 0 .. m - 1 /\ x = m * e + s
  OBVIOUS
<1> HIDE DEF e, s
<1>2. m * (d - e) = s - r
  BY <1>1
<1>3. ~(d - e >= 1)
  <2> SUFFICES ASSUME d - e >= 1 PROVE FALSE
    OBVIOUS
  <2>1. m * (d - e) >= m
    BY <1>1
  <2> QED
    BY <1>1, <1>2, <2>1
<1>4. ~(d - e <= -1)
  <2> SUFFICES ASSUME d - e <= -1 PROVE FALSE
    OBVIOUS
  <2>1. m * (d - e) <= -m
    BY <1>1
  <2> QED
    BY <1>1, <1>2, <2>1
<1>5. d = e
  BY <1>1, <1>3, <1>4
<1>6. r = s
  BY <1>1, <1>2, <1>5
<1> QED
  BY <1>5, <1>6 DEF e, s

\* One more: the next place, or the first one behind the last.
LEMMA NextPlace ==
    ASSUME NEW n \in Nat, NEW m \in Nat \ {0}
    PROVE  /\ (n % m) + 1 < m => (n + 1) \div m = n \div m /\ (n + 1) % m = (n % m) + 1
           /\ ~((n % m) + 1 < m) =>
                (n + 1) \div m = n \div m + 1 /\ (n + 1) % m = 0 /\ n % m = m - 1
           /\ n \div m \in Nat /\ n % m \in 0 .. m - 1
<1> DEFINE d == n \div m
           r == n % m
<1>1. d \in Nat /\ r \in 0 .. m - 1 /\ n = m * d + r
  OBVIOUS
<1> HIDE DEF d, r
<1>2. CASE r + 1 < m
  <2>1. n + 1 = d * m + (r + 1) /\ r + 1 \in 0 .. m - 1
    BY <1>1, <1>2
  <2>2. (n + 1) \div m = d /\ (n + 1) % m = r + 1
    BY <1>1, <2>1, Division
  <2> QED
    BY <1>1, <1>2, <2>2 DEF d, r
<1>3. CASE ~(r + 1 < m)
  <2>1. r = m - 1
    BY <1>1, <1>3
  <2>2. n + 1 = (d + 1) * m + 0 /\ 0 \in 0 .. m - 1
    BY <1>1, <2>1
  <2>3. (n + 1) \div m = d + 1 /\ (n + 1) % m = 0
    BY <1>1, <2>2, Division
  <2> QED
    BY <1>1, <1>3, <2>1, <2>3 DEF d, r
<1> QED
  BY <1>2, <1>3

\* The places of a grid of n rows and m columns.
OnGrid(x, n, m) ==
    /\ (x - 1) \div m \in Indices(n) /\ (x - 1) % m \in Indices(m)
    /\ x = ((x - 1) \div m) * m + ((x - 1) % m) + 1

\* A number in a grid is that of its row and its column.
LEMMA GridPlace ==
    ASSUME NEW n \in Nat, NEW m \in Nat \ {0}, NEW x \in 1 .. n * m
    PROVE  OnGrid(x, n, m)
<1> DEFINE d == (x - 1) \div m
           r == (x - 1) % m
<1>1. n * m \in Nat
  OBVIOUS
<1>2. x - 1 \in Nat /\ x - 1 < n * m
  BY <1>1
<1>3. d \in Nat /\ r \in 0 .. m - 1 /\ x - 1 = m * d + r
  BY <1>2
<1> HIDE DEF d, r
<1>4. ~(d >= n)
  <2> SUFFICES ASSUME d >= n PROVE FALSE
    OBVIOUS
  <2>1. m * d >= n * m
    <3>1. d - n \in Nat
      BY <1>3
    <3>2. m * (d - n) \in Nat
      BY <3>1
    <3>3. m * (d - n) = m * d - n * m /\ m * d \in Int
      BY <1>3
    <3> QED
      BY <1>1, <3>2, <3>3
  <2> QED
    BY <1>1, <1>2, <1>3, <2>1
<1>5. d \in 0 .. n - 1
  BY <1>3, <1>4
<1>6. x = d * m + r + 1
  <2>1. m * d = d * m /\ d * m \in Int
    BY <1>3
  <2> QED
    BY <1>1, <1>3, <2>1
<1> QED
  BY <1>3, <1>5, <1>6 DEF OnGrid, Indices, d, r

\* Every row and column have a number.
LEMMA PlaceOnGrid ==
    ASSUME NEW n \in Nat, NEW m \in Nat \ {0}, NEW i \in Indices(n), NEW j \in Indices(m)
    PROVE  \E x \in 1 .. n * m :
                x = i * m + j + 1 /\ (x - 1) \div m = i /\ (x - 1) % m = j
<1>1. i \in Nat /\ n - 1 - i \in Nat /\ j \in 0 .. m - 1
  BY DEF Indices
<1>2. i * m \in Nat /\ n * m \in Nat /\ (n - 1 - i) * m \in Nat
  BY <1>1
<1>3. n * m = i * m + (n - 1 - i) * m + m
  BY <1>1
<1>4. i * m + j + 1 \in 1 .. n * m
  BY <1>1, <1>2, <1>3
<1>5. PICK x : x = i * m + j + 1
  OBVIOUS
<1>6. x \in 1 .. n * m /\ x - 1 \in Int /\ x - 1 = i * m + j
  BY <1>1, <1>2, <1>4, <1>5
<1>7. (x - 1) \div m = i /\ (x - 1) % m = j
  BY <1>1, <1>6, Division
<1> QED
  BY <1>5, <1>6, <1>7

\* A sequence t that is s with n items more.
Prolongs(s, n, added, t) ==
    /\ Len(s) \in Nat /\ Len(t) = Len(s) + n /\ DOMAIN t = 1 .. Len(s) + n
    /\ DOMAIN s = 1 .. Len(s)
    /\ \A x \in 1 .. Len(s) : x \in DOMAIN t /\ t[x] = s[x]
    /\ \A x \in 1 .. n : Len(s) + x \in DOMAIN t /\ t[Len(s) + x] = added[x]
    /\ \A x \in DOMAIN t : x \notin 1 .. Len(s) =>
        x - Len(s) \in 1 .. n /\ x = Len(s) + (x - Len(s))
    /\ \E S : t \in Seq(S)

\* A list with more at its end.
LEMMA Prolonged ==
    ASSUME NEW s, \E S : s \in Seq(S), NEW n \in Nat, NEW T, NEW added \in [1 .. n -> T]
    PROVE  Prolongs(s, n, added, s \o added)
<1>1. PICK S : s \in Seq(S)
  OBVIOUS
<1>2. s \in Seq(S \cup T) /\ added \in Seq(S \cup T) /\ Len(added) = n
  BY <1>1
<1> DEFINE U == S \cup T
           t == s \o added
<1> HIDE DEF U
<1>3. /\ Len(s) \in Nat /\ DOMAIN s = 1 .. Len(s)
      /\ t \in Seq(U) /\ Len(t) = Len(s) + n
      /\ \A x \in 1 .. Len(s) : t[x] = s[x]
      /\ \A x \in 1 .. n : t[Len(s) + x] = added[x]
  BY <1>2 DEF U
<1> HIDE DEF t
<1>4. DOMAIN t = 1 .. Len(s) + n
  BY <1>3
<1>5. \A x \in 1 .. Len(s) : x \in DOMAIN t
  BY <1>3, <1>4
<1>6. \A x \in 1 .. n : Len(s) + x \in DOMAIN t
  BY <1>3, <1>4
<1>7. \A x \in DOMAIN t : x \notin 1 .. Len(s) =>
        x - Len(s) \in 1 .. n /\ x = Len(s) + (x - Len(s))
  BY <1>3, <1>4
<1> QED
  BY <1>3, <1>4, <1>5, <1>6, <1>7 DEF Prolongs, t

\* The sizes of a network are not zero.
LEMMA NetworkSizes ==
    ASSUME NEW f \in Fabrics
    PROVE  /\ Pods(f) \in Nat \ {0} /\ ToRs(f) \in Nat \ {0}
           /\ Planes(f) \in Nat \ {0} /\ CoresPerPlane(f) \in Nat
<1>1. CASE f \in [type : {"FatTree"}, k : {n \in Nat \ {0} : n % 2 = 0}]
  <2>1. f.type = "FatTree" /\ f.k \in Nat \ {0} /\ f.k % 2 = 0
    BY <1>1
  <2>2. f.k \div 2 \in Nat \ {0}
    BY <2>1
  <2> QED
    BY <2>1, <2>2 DEF Pods, ToRs, Planes, CoresPerPlane
<1>2. CASE f \in [type : {"FbFabric"}, pods : Nat \ {0}, tors : Nat \ {0},
                  oversubscription : Nat \ {0}, deployment : 1 .. 100]
  <2>1. /\ f.type = "FbFabric" /\ f.pods \in Nat \ {0} /\ f.tors \in Nat \ {0}
    BY <1>2
  <2> QED
    BY <2>1, FabricSizes DEF Pods, ToRs, Planes
<1> QED
  BY <1>1, <1>2, BuilderAssumption

\* What more links that are known and new do to the graph.
LEMMA GraphGrows ==
    ASSUME AllKnown, EachOnce, NEW n \in Nat, NEW added, Prolongs(links, n, added, links'),
           \A x \in 1 .. n : KnownLink(added[x])',
           \A l : KnownLink(l) => KnownLink(l)',
           \A x, y \in 1 .. n : added[x].ends = added[y].ends => x = y,
           \A x \in 1 .. n, m \in DOMAIN links : links[m].ends # added[x].ends
    PROVE  /\ AllKnown' /\ EachOnce'
           /\ \A low, up : LinkBetween(low, up) => LinkBetween(low, up)'
           /\ \A low, up, x : x \in 1 .. n /\ added[x].ends = <<low, up>>
                => LinkBetween(low, up)'
<1> DEFINE size == Len(links)
           Old(x) == x \in 1 .. size
<1>1. /\ size \in Nat /\ DOMAIN links = 1 .. size
      /\ \A x : Old(x) => x \in DOMAIN links' /\ links'[x] = links[x]
      /\ \A x \in 1 .. n : size + x \in DOMAIN links' /\ links'[size + x] = added[x]
      /\ \A x \in DOMAIN links' : ~Old(x) => x - size \in 1 .. n /\ x = size + (x - size)
  BY DEF Prolongs
<1>2. \A x \in DOMAIN links' : Old(x) => x \in DOMAIN links /\ links'[x] = links[x]
  BY <1>1
<1>3. \A x \in DOMAIN links' : ~Old(x) =>
        x - size \in 1 .. n /\ links'[x] = added[x - size] /\ x = size + (x - size)
  BY <1>1
<1> HIDE DEF Old, size
<1>4. AllKnown'
  <2> SUFFICES ASSUME NEW x \in DOMAIN links' PROVE KnownLink(links[x])'
    BY DEF AllKnown
  <2>1. CASE Old(x)
    <3>1. x \in DOMAIN links /\ links'[x] = links[x]
      BY <1>2, <2>1
    <3>2. KnownLink(links[x])
      BY <3>1 DEF AllKnown
    <3>3. PICK l : l = links[x]
      OBVIOUS
    <3>4. KnownLink(l)'
      BY <3>2, <3>3
    <3>5. l = links'[x]
      BY <3>1, <3>3
    <3>6. QED
      BY <3>4, <3>5 DEF KnownLink, IsTorLink, IsCoreLink
  <2>2. CASE ~Old(x)
    <3>1. x - size \in 1 .. n /\ links'[x] = added[x - size]
      BY <1>3, <2>2
    <3>2. PICK y \in 1 .. n : links'[x] = added[y]
      BY <3>1
    <3>3. KnownLink(added[y])'
      BY <3>2
    <3> QED
      BY <3>2, <3>3 DEF KnownLink, IsTorLink, IsCoreLink
  <2> QED
    BY <2>1, <2>2
<1>5. EachOnce'
  <2> SUFFICES ASSUME NEW x \in DOMAIN links', NEW y \in DOMAIN links',
                      links'[x].ends = links'[y].ends
               PROVE  x = y
    BY DEF EachOnce
  <2>1. CASE Old(x) /\ Old(y)
    BY <1>2, <2>1 DEF EachOnce
  <2>2. CASE ~Old(x) /\ ~Old(y)
    <3>1. added[x - size].ends = added[y - size].ends /\ x - size \in 1 .. n
          /\ y - size \in 1 .. n
      BY <1>3, <2>2
    <3>2. x - size = y - size
      BY <3>1
    <3>3. x = size + (x - size) /\ y = size + (y - size)
      BY <1>3, <2>2
    <3> QED
      BY <3>2, <3>3, Zenon
  <2>3. CASE Old(x) /\ ~Old(y)
    BY <1>2, <1>3, <2>3
  <2>4. CASE ~Old(x) /\ Old(y)
    BY <1>2, <1>3, <2>4
  <2> QED
    BY <2>1, <2>2, <2>3, <2>4
<1>6. \A low, up : LinkBetween(low, up) => LinkBetween(low, up)'
  <2> SUFFICES ASSUME NEW low, NEW up, NEW m \in DOMAIN links, links[m].ends = <<low, up>>
               PROVE  LinkBetween(low, up)'
    BY DEF LinkBetween
  <2>1. m \in DOMAIN links' /\ links'[m] = links[m]
    BY <1>1 DEF Old
  <2> QED
    BY <2>1 DEF LinkBetween
<1>7. \A low, up, x : x \in 1 .. n /\ added[x].ends = <<low, up>> => LinkBetween(low, up)'
  BY <1>1 DEF LinkBetween
<1> QED
  BY <1>4, <1>5, <1>6, <1>7

\* The initial graph is empty.
LEMMA GraphInvInit == BuilderInit => GraphInv /\ RecordInv
<1> SUFFICES ASSUME BuilderInit PROVE GraphInv /\ RecordInv
  OBVIOUS
<1>1. /\ podsBuilt = 0 /\ coresBuilt = 0 /\ links = <<>> /\ fabric \in Fabrics
      /\ built = [aggSwitches |-> <<>>, uplinks |-> <<>>,
                torCapacity |-> <<>>, coreCapacity |-> <<>>]
  BY DEF BuilderInit
<1>2. DOMAIN links = {} /\ Indices(podsBuilt) = {}
  BY <1>1 DEF Indices
<1>3. GraphInv
  BY <1>2 DEF GraphInv, AllKnown, EachOnce
<1>4. /\ built.aggSwitches = <<>> /\ built.uplinks = <<>>
      /\ built.torCapacity = <<>> /\ built.coreCapacity = <<>>
  BY <1>1
<1>5. 0 * ToRs(fabric) = 0 /\ 0 * Planes(fabric) = 0
  BY <1>1, NetworkSizes
<1>6. \A T : <<>> \in [1 .. 0 -> T]
  OBVIOUS
<1>7. \E S : <<>> \in Seq(S)
  OBVIOUS
<1>8. Len(<<>>) = 0
  OBVIOUS
<1>9. built = [aggSwitches |-> built.aggSwitches, uplinks |-> built.uplinks,
               torCapacity |-> built.torCapacity, coreCapacity |-> built.coreCapacity]
  BY <1>1, <1>4
<1>10. RecordInv
  BY <1>1, <1>2, <1>4, <1>5, <1>6, <1>7, <1>8, <1>9 DEF RecordInv
<1> QED
  BY <1>3, <1>10

\* While pods are built there is no core switch.
LEMMA NoCoresYet ==
    ASSUME BuilderInv, podsBuilt < Pods(fabric), CoresPerPlane(fabric) # 0
    PROVE  /\ coresBuilt = 0 /\ PlaneNow = 0 /\ PlaceNow = 0
           /\ \A j \in Nat : \A c \in Nat : ~Connected(j, c)
           /\ \A j \in Nat : NumConnected(j) = 0
<1>1. /\ Pods(fabric) \in Nat /\ CoresPerPlane(fabric) \in Nat \ {0}
      /\ podsBuilt \in Nat
  BY NetworkSizes DEF BuilderInv
<1>2. coresBuilt = 0
  BY <1>1 DEF BuilderInv
<1>3. PlaneNow = 0 /\ PlaceNow = 0
  BY <1>1, <1>2 DEF PlaneNow, PlaceNow
<1> QED
  BY <1>2, <1>3 DEF Connected, NumConnected

\* A pod brings each of its ToR links once.
LEMMA BuildPodKeepsGraph ==
    BuilderInv /\ GraphInv /\ CoresPerPlane(fabric) # 0 /\ BuildPod => GraphInv'
<1> SUFFICES ASSUME BuilderInv, GraphInv, CoresPerPlane(fabric) # 0, BuildPod PROVE GraphInv'
  OBVIOUS
<1> DEFINE tors == ToRs(fabric)
           aggs == Planes(fabric)
           n == tors * aggs
           Row(x) == (x - 1) \div aggs
           Col(x) == (x - 1) % aggs
           L(x) == LET tor == Tor(podsBuilt, Row(x))
                   IN  Link(tor, Agg(podsBuilt, Col(x)),
                            podsBuilt, {tor}, Full(fabric) \/ podsBuilt \in lgPods)
           added == [x \in 1 .. n |-> L(x)]
<1>1. /\ podsBuilt < Pods(fabric) /\ podsBuilt' = podsBuilt + 1
      /\ links' = links \o added
      /\ fabric' = fabric /\ coresBuilt' = coresBuilt
  BY DEF BuildPod
<1>2. /\ tors \in Nat \ {0} /\ aggs \in Nat \ {0} /\ podsBuilt \in Nat
      /\ \E S : links \in Seq(S)
  BY NetworkSizes DEF BuilderInv
<1>3. n \in Nat
  BY <1>2
<1>4. Prolongs(links, n, added, links')
  <2>1. added \in [1 .. n -> {L(x) : x \in 1 .. n}]
    OBVIOUS
  <2> HIDE DEF added, L, n
  <2> QED
    BY <1>1, <1>2, <1>3, <2>1, Prolonged
<1>5. \A x \in 1 .. n :
        /\ Row(x) \in Indices(tors) /\ Col(x) \in Indices(aggs)
        /\ x = Row(x) * aggs + Col(x) + 1
  BY <1>2, GridPlace DEF OnGrid
<1>6. \A x \in 1 .. n :
        /\ added[x].ends = <<Tor(podsBuilt, Row(x)), Agg(podsBuilt, Col(x))>>
        /\ added[x].affected = {Tor(podsBuilt, Row(x))}
  BY DEF Link
<1>7. \A i \in Indices(tors), j \in Indices(aggs) :
        \E x \in 1 .. n : added[x].ends = <<Tor(podsBuilt, i), Agg(podsBuilt, j)>>
  <2> SUFFICES ASSUME NEW i \in Indices(tors), NEW j \in Indices(aggs)
               PROVE  \E x \in 1 .. n : added[x].ends = <<Tor(podsBuilt, i), Agg(podsBuilt, j)>>
    OBVIOUS
  <2>1. \E y \in 1 .. n :
            y = i * aggs + j + 1 /\ (y - 1) \div aggs = i /\ (y - 1) % aggs = j
    <3> HIDE DEF tors, aggs
    <3> QED
      BY <1>2, PlaceOnGrid
  <2>2. PICK y \in 1 .. n : Row(y) = i /\ Col(y) = j
    BY <2>1
  <2> HIDE DEF Row, Col, added, n
  <2> QED
    BY <1>6, <2>2
<1> HIDE DEF n, added, Row, Col
<1>20. PICK more : more = added
  OBVIOUS
<1>21. PICK pod : pod = podsBuilt
  OBVIOUS
<1>22. \A x \in 1 .. n : \E i \in Indices(tors), j \in Indices(aggs) :
        /\ x = i * aggs + j + 1
        /\ more[x].ends = <<Tor(pod, i), Agg(pod, j)>>
        /\ more[x].affected = {Tor(pod, i)}
  BY <1>5, <1>6, <1>20, <1>21
<1>8. \A x \in 1 .. n : KnownLink(more[x])'
  <2> SUFFICES ASSUME NEW x \in 1 .. n PROVE KnownLink(more[x])'
    OBVIOUS
  <2>1. pod \in Indices(podsBuilt')
    BY <1>1, <1>2, <1>21 DEF Indices
  <2>2. PICK i \in Indices(tors), j \in Indices(aggs) :
            /\ more[x].ends = <<Tor(pod, i), Agg(pod, j)>>
            /\ more[x].affected = {Tor(pod, i)}
    BY <1>22
  <2>3. IsTorLink(more[x], pod, i, j)'
    BY <1>1, <2>1, <2>2 DEF IsTorLink
  <2> QED
    BY <2>3 DEF KnownLink
<1>9. \A p : p \in Indices(podsBuilt) => p \in Indices(podsBuilt')
  BY <1>1, <1>2 DEF Indices
<1>10. \A l : KnownLink(l) => KnownLink(l)'
  <2> SUFFICES ASSUME NEW l, KnownLink(l) PROVE KnownLink(l)'
    OBVIOUS
  <2>1. CASE \E p, i, j : IsTorLink(l, p, i, j)
    <3>1. PICK p, i, j : IsTorLink(l, p, i, j)
      BY <2>1
    <3>2. IsTorLink(l, p, i, j)'
      BY <1>1, <1>9, <3>1 DEF IsTorLink
    <3> QED
      BY <3>2 DEF KnownLink
  <2>2. CASE \E p, j, c : IsCoreLink(l, p, j, c)
    <3>1. PICK p, j, c : IsCoreLink(l, p, j, c)
      BY <2>2
    <3>2. IsCoreLink(l, p, j, c)'
      BY <1>1, <1>9, <3>1 DEF IsCoreLink, Connected, PlaneNow, PlaceNow, PodTors
    <3> QED
      BY <3>2 DEF KnownLink
  <2> QED
    BY <2>1, <2>2 DEF KnownLink
<1>11. \A x, y \in 1 .. n : more[x].ends = more[y].ends => x = y
  <2> SUFFICES ASSUME NEW x \in 1 .. n, NEW y \in 1 .. n, more[x].ends = more[y].ends
               PROVE  x = y
    OBVIOUS
  <2>1. PICK i \in Indices(tors), j \in Indices(aggs) :
            x = i * aggs + j + 1 /\ more[x].ends = <<Tor(pod, i), Agg(pod, j)>>
    BY <1>22
  <2>2. PICK k \in Indices(tors), l \in Indices(aggs) :
            y = k * aggs + l + 1 /\ more[y].ends = <<Tor(pod, k), Agg(pod, l)>>
    BY <1>22
  <2>3. Tor(pod, i) = Tor(pod, k) /\ Agg(pod, j) = Agg(pod, l)
    BY <2>1, <2>2
  <2>4. i = k /\ j = l
    BY <2>3, SwitchesDiffer
  <2> QED
    BY <2>1, <2>2, <2>4, Zenon
<1>12. \A x \in 1 .. n, m \in DOMAIN links : links[m].ends # more[x].ends
  <2> SUFFICES ASSUME NEW x \in 1 .. n, NEW m \in DOMAIN links,
                      links[m].ends = more[x].ends
               PROVE  FALSE
    OBVIOUS
  <2>1. PICK row, col : links[m].ends = <<Tor(pod, row), Agg(pod, col)>>
    BY <1>22
  <2>2. pod \notin Indices(podsBuilt)
    BY <1>2, <1>21 DEF Indices
  <2>3. CASE \E p, i, j : IsTorLink(links[m], p, i, j)
    <3>1. PICK p, i, j : IsTorLink(links[m], p, i, j)
      BY <2>3
    <3>2. p \in Indices(podsBuilt) /\ Tor(p, i) = Tor(pod, row)
      BY <2>1, <3>1 DEF IsTorLink
    <3> QED
      BY <2>2, <3>2, SwitchesDiffer
  <2>4. CASE \E p, j, c : IsCoreLink(links[m], p, j, c)
    <3>1. PICK p, j, c : IsCoreLink(links[m], p, j, c)
      BY <2>4
    <3>2. Agg(p, j) = Tor(pod, row)
      BY <2>1, <3>1 DEF IsCoreLink
    <3> QED
      BY <3>2, SwitchesDiffer
  <2>5. KnownLink(links[m])
    BY DEF GraphInv, AllKnown
  <2> QED
    BY <2>3, <2>4, <2>5 DEF KnownLink
<1>13. /\ AllKnown' /\ EachOnce'
       /\ \A low, up : LinkBetween(low, up) => LinkBetween(low, up)'
       /\ \A low, up, x : x \in 1 .. n /\ more[x].ends = <<low, up>>
            => LinkBetween(low, up)'
  <2>1. AllKnown /\ EachOnce
    BY DEF GraphInv
  <2>2. Prolongs(links, n, more, links')
    BY <1>4, <1>20
  <2> QED
    BY <1>3, <1>8, <1>10, <1>11, <1>12, <2>1, <2>2, GraphGrows
<1>14. \A p \in Indices(podsBuilt'), i \in Indices(tors), j \in Indices(aggs) :
            LinkBetween(Tor(p, i), Agg(p, j))'
  <2> SUFFICES ASSUME NEW p \in Indices(podsBuilt'), NEW i \in Indices(tors),
                      NEW j \in Indices(aggs)
               PROVE  LinkBetween(Tor(p, i), Agg(p, j))'
    OBVIOUS
  <2>1. p = podsBuilt \/ p \in Indices(podsBuilt)
    BY <1>1, <1>2 DEF Indices
  <2>2. CASE p \in Indices(podsBuilt)
    <3>1. LinkBetween(Tor(p, i), Agg(p, j))
      BY <2>2 DEF GraphInv
    <3> QED
      BY <1>13, <3>1
  <2>3. CASE p = podsBuilt
    <3>1. PICK x \in 1 .. n : more[x].ends = <<Tor(podsBuilt, i), Agg(podsBuilt, j)>>
      BY <1>7, <1>20
    <3>2. more[x].ends = <<Tor(p, i), Agg(p, j)>>
      BY <2>3, <3>1
    <3> QED
      BY <1>13, <3>2
  <2> QED
    BY <2>1, <2>2, <2>3
<1>15. \A j \in Indices(aggs), c \in Indices(CoresPerPlane(fabric)) : ~Connected(j, c)
  <2>1. \A k, x : x \in Indices(k) => x \in Nat
    BY DEF Indices
  <2> QED
    BY <1>1, <2>1, NoCoresYet
<1>16. \A j, c : Connected(j, c)' <=> Connected(j, c)
  BY <1>1 DEF Connected, PlaneNow, PlaceNow
<1>17. \A p \in Indices(podsBuilt'), j \in Indices(aggs), c \in Indices(CoresPerPlane(fabric)) :
        Connected(j, c)' => LinkBetween(Agg(p, j), Core(j, c))'
  BY <1>15, <1>16
<1> QED
  BY <1>1, <1>13, <1>14, <1>17 DEF GraphInv

\* Below an Agg are the ToRs of its pod.
LEMMA TorsOfAgg ==
    ASSUME GraphInv, NEW p \in Indices(podsBuilt), NEW j \in Indices(Planes(fabric))
    PROVE  TorsBelow(Agg(p, j)) = PodTors(p)
<1>1. \A t : t \in TorsBelow(Agg(p, j)) <=>
        \E m \in DOMAIN links : links[m].ends[2] = Agg(p, j) /\ t = links[m].ends[1]
  BY DEF TorsBelow, ToSet
<1>2. \A t \in TorsBelow(Agg(p, j)) : t \in PodTors(p)
  <2> SUFFICES ASSUME NEW m \in DOMAIN links, links[m].ends[2] = Agg(p, j)
               PROVE  links[m].ends[1] \in PodTors(p)
    BY <1>1
  <2>1. KnownLink(links[m])
    BY DEF GraphInv, AllKnown
  <2>2. CASE \E q, i, k : IsTorLink(links[m], q, i, k)
    <3>1. PICK q, i, k : IsTorLink(links[m], q, i, k)
      BY <2>2
    <3>2. Agg(q, k) = Agg(p, j) /\ links[m].ends[1] = Tor(q, i) /\ i \in Indices(ToRs(fabric))
      BY <3>1 DEF IsTorLink
    <3>3. q = p
      BY <3>2, SwitchesDiffer
    <3> QED
      BY <3>2, <3>3 DEF PodTors
  <2>3. CASE \E q, k, c : IsCoreLink(links[m], q, k, c)
    <3>1. PICK q, k, c : IsCoreLink(links[m], q, k, c)
      BY <2>3
    <3>2. Core(k, c) = Agg(p, j)
      BY <3>1 DEF IsCoreLink
    <3> QED
      BY <3>2, SwitchesDiffer
  <2> QED
    BY <2>1, <2>2, <2>3 DEF KnownLink
<1>3. \A t \in PodTors(p) : t \in TorsBelow(Agg(p, j))
  <2> SUFFICES ASSUME NEW i \in Indices(ToRs(fabric))
               PROVE  Tor(p, i) \in TorsBelow(Agg(p, j))
    BY DEF PodTors
  <2>1. LinkBetween(Tor(p, i), Agg(p, j))
    BY DEF GraphInv
  <2>2. PICK m \in DOMAIN links : links[m].ends = <<Tor(p, i), Agg(p, j)>>
    BY <2>1 DEF LinkBetween
  <2>3. links[m].ends[2] = Agg(p, j) /\ links[m].ends[1] = Tor(p, i)
    BY <2>2
  <2> QED
    BY <1>1, <2>3
<1> QED
  BY <1>2, <1>3

\* One more core switch.
LEMMA OneMoreCore ==
    ASSUME BuilderInv, CoresPerPlane(fabric) # 0, ConnectCore
    PROVE  /\ PlaneNow \in Indices(Planes(fabric)) /\ PlaceNow \in Indices(CoresPerPlane(fabric))
           /\ ~Connected(PlaneNow, PlaceNow)
           /\ \A j \in Indices(Planes(fabric)), c \in Indices(CoresPerPlane(fabric)) :
                Connected(j, c)' <=> Connected(j, c) \/ (j = PlaneNow /\ c = PlaceNow)
           /\ \A j \in Indices(Planes(fabric)) :
                NumConnected(j)' = IF j = PlaneNow THEN NumConnected(j) + 1 ELSE NumConnected(j)
<1> DEFINE m == CoresPerPlane(fabric)
           n == Planes(fabric)
           d == coresBuilt \div m
           r == coresBuilt % m
<1>1. /\ coresBuilt < n * m /\ coresBuilt' = coresBuilt + 1 /\ fabric' = fabric
  BY DEF ConnectCore
<1>2. /\ n \in Nat \ {0} /\ m \in Nat \ {0}
      /\ coresBuilt \in 0 .. n * m
  BY NetworkSizes DEF BuilderInv
<1>3. PlaneNow = d /\ PlaceNow = r
  BY DEF PlaneNow, PlaceNow
<1>4. PlaneNow' = (coresBuilt + 1) \div m /\ PlaceNow' = (coresBuilt + 1) % m
  BY <1>1 DEF PlaneNow, PlaceNow
<1>5. m' = m /\ n' = n
  BY <1>1
<1> HIDE DEF m, n
<1>6. n * m \in Nat
  BY <1>2
<1>7. coresBuilt \in Nat
  BY <1>2, <1>6
<1>8. d \in Nat /\ r \in 0 .. m - 1
      /\ \/ PlaneNow' = d /\ PlaceNow' = r + 1 /\ r + 1 < m
         \/ PlaneNow' = d + 1 /\ PlaceNow' = 0 /\ r = m - 1
  BY <1>2, <1>4, <1>7, NextPlace
<1>9. d \in Indices(n) /\ r \in Indices(m)
  <2>1. PICK x : x = coresBuilt + 1
    OBVIOUS
  <2>2. x \in 1 .. n * m /\ x - 1 = coresBuilt
    BY <1>1, <1>6, <1>7, <2>1
  <2>3. OnGrid(x, n, m)
    BY <1>2, <2>2, GridPlace
  <2> QED
    BY <2>2, <2>3 DEF OnGrid
<1> HIDE DEF d, r
<1>10. ~Connected(PlaneNow, PlaceNow)
  BY <1>3, <1>8 DEF Connected
<1>11. ASSUME NEW j \in Indices(n), NEW c \in Indices(m)
       PROVE  Connected(j, c)' <=> Connected(j, c) \/ (j = PlaneNow /\ c = PlaceNow)
  <2>1. j \in Nat /\ c \in 0 .. m - 1
    BY DEF Indices
  <2> QED
    BY <1>2, <1>3, <1>8, <2>1 DEF Connected
<1>12. ASSUME NEW j \in Indices(n)
       PROVE  NumConnected(j)' = IF j = PlaneNow THEN NumConnected(j) + 1 ELSE NumConnected(j)
  <2>1. j \in Nat
    BY DEF Indices
  <2>2. /\ NumConnected(j) = IF j < d THEN m ELSE IF j = d THEN r ELSE 0
        /\ NumConnected(j)' = IF j < PlaneNow' THEN m ELSE IF j = PlaneNow' THEN PlaceNow' ELSE 0
    BY <1>3, <1>5 DEF NumConnected, m
  <2>3. CASE PlaneNow' = d /\ PlaceNow' = r + 1 /\ r + 1 < m
    <3>1. NumConnected(j)' = IF j < d THEN m ELSE IF j = d THEN r + 1 ELSE 0
      BY <2>2, <2>3
    <3>2. j < d => j # d
      BY <1>8, <2>1
    <3> QED
      BY <1>3, <2>2, <3>1, <3>2
  <2>4. CASE PlaneNow' = d + 1 /\ PlaceNow' = 0 /\ r = m - 1
    <3>1. j < d + 1 <=> j < d \/ j = d
      BY <1>8, <2>1
    <3>2. j < d => j # d /\ j # d + 1
      BY <1>8, <2>1
    <3>3. r + 1 = m
      BY <1>2, <2>4
    <3> QED
      BY <1>3, <2>2, <2>4, <3>1, <3>2, <3>3
  <2> QED
    BY <1>8, <2>3, <2>4
<1> QED
  BY <1>3, <1>9, <1>10, <1>11, <1>12 DEF n, m

\* A core switch is linked to the Agg of its plane in every pod.
LEMMA ConnectCoreKeepsGraph ==
    BuilderInv /\ GraphInv /\ CoresPerPlane(fabric) # 0 /\ ConnectCore => GraphInv'
<1> SUFFICES ASSUME BuilderInv, GraphInv, CoresPerPlane(fabric) # 0, ConnectCore PROVE GraphInv'
  OBVIOUS
<1> DEFINE n == podsBuilt
           L(x) == LET agg == Agg(x - 1, PlaneNow)
                   IN  Link(agg, Core(PlaneNow, PlaceNow), x - 1, CoreAffects(agg), Full(fabric))
           added == [x \in 1 .. n |-> L(x)]
<1>1. /\ links' = links \o added
      /\ fabric' = fabric /\ podsBuilt' = podsBuilt
  BY DEF ConnectCore, PlaneNow, PlaceNow
<1>2. /\ n \in Nat /\ \E S : links \in Seq(S)
  BY NetworkSizes DEF BuilderInv
<1>3. Prolongs(links, n, added, links')
  <2>1. added \in [1 .. n -> {L(x) : x \in 1 .. n}]
    OBVIOUS
  <2> HIDE DEF added, L, n
  <2> QED
    BY <1>1, <1>2, <2>1, Prolonged
<1>4. PICK plane, place : plane = PlaneNow /\ place = PlaceNow
  OBVIOUS
<1>5. /\ plane \in Indices(Planes(fabric)) /\ place \in Indices(CoresPerPlane(fabric))
      /\ ~Connected(plane, place)
      /\ \A j \in Indices(Planes(fabric)), c \in Indices(CoresPerPlane(fabric)) :
            Connected(j, c)' <=> Connected(j, c) \/ (j = plane /\ c = place)
  BY <1>4, OneMoreCore
<1>6. \A x \in 1 .. n :
        /\ added[x].ends = <<Agg(x - 1, plane), Core(plane, place)>>
        /\ added[x].affected = CoreAffects(Agg(x - 1, plane))
  BY <1>4 DEF Link
<1> HIDE DEF added
<1>7. PICK more : more = added
  OBVIOUS
<1>8. \A x \in 1 .. n :
        /\ x - 1 \in Indices(podsBuilt)
        /\ more[x].ends = <<Agg(x - 1, plane), Core(plane, place)>>
        /\ more[x].affected = PodTors(x - 1)
  <2> SUFFICES ASSUME NEW x \in 1 .. n
               PROVE  /\ x - 1 \in Indices(podsBuilt)
                      /\ more[x].ends = <<Agg(x - 1, plane), Core(plane, place)>>
                      /\ more[x].affected = PodTors(x - 1)
    OBVIOUS
  <2>1. x - 1 \in Indices(podsBuilt)
    BY <1>2 DEF Indices
  <2>2. CoreAffects(Agg(x - 1, plane)) = PodTors(x - 1)
    BY <1>5, <2>1, TorsOfAgg DEF CoreAffects
  <2> QED
    BY <1>6, <1>7, <2>1, <2>2
<1>9. \A x \in 1 .. n : KnownLink(more[x])'
  <2> SUFFICES ASSUME NEW x \in 1 .. n PROVE KnownLink(more[x])'
    OBVIOUS
  <2>1. PICK p : p = x - 1
    OBVIOUS
  <2>2. /\ p \in Indices(podsBuilt)
        /\ more[x].ends = <<Agg(p, plane), Core(plane, place)>>
        /\ more[x].affected = PodTors(p)
    BY <1>8, <2>1
  <2>3. PodTors(p)' = PodTors(p)
    BY <1>1 DEF PodTors
  <2>4. Connected(plane, place)'
    BY <1>5
  <2>5. IsCoreLink(more[x], p, plane, place)'
    BY <1>1, <1>5, <2>2, <2>3, <2>4 DEF IsCoreLink
  <2> QED
    BY <2>5 DEF KnownLink
<1>10. \A l : KnownLink(l) => KnownLink(l)'
  <2> SUFFICES ASSUME NEW l, KnownLink(l) PROVE KnownLink(l)'
    OBVIOUS
  <2>1. CASE \E p, i, j : IsTorLink(l, p, i, j)
    <3>1. PICK p, i, j : IsTorLink(l, p, i, j)
      BY <2>1
    <3>2. IsTorLink(l, p, i, j)'
      BY <1>1, <3>1 DEF IsTorLink
    <3> QED
      BY <3>2 DEF KnownLink
  <2>2. CASE \E p, j, c : IsCoreLink(l, p, j, c)
    <3>1. PICK p, j, c : IsCoreLink(l, p, j, c)
      BY <2>2
    <3>2. Connected(j, c)'
      BY <1>5, <3>1 DEF IsCoreLink
    <3>3. PodTors(p)' = PodTors(p)
      BY <1>1 DEF PodTors
    <3>4. IsCoreLink(l, p, j, c)'
      BY <1>1, <3>1, <3>2, <3>3 DEF IsCoreLink
    <3> QED
      BY <3>4 DEF KnownLink
  <2> QED
    BY <2>1, <2>2 DEF KnownLink
<1>11. \A x, y \in 1 .. n : more[x].ends = more[y].ends => x = y
  <2> SUFFICES ASSUME NEW x \in 1 .. n, NEW y \in 1 .. n, more[x].ends = more[y].ends
               PROVE  x = y
    OBVIOUS
  <2>1. Agg(x - 1, plane) = Agg(y - 1, plane)
    BY <1>8
  <2>2. x - 1 = y - 1
    BY <2>1, SwitchesDiffer
  <2> QED
    BY <1>2, <2>2
<1>12. \A x \in 1 .. n, m \in DOMAIN links : links[m].ends # more[x].ends
  <2> SUFFICES ASSUME NEW x \in 1 .. n, NEW m \in DOMAIN links,
                      links[m].ends = more[x].ends
               PROVE  FALSE
    OBVIOUS
  <2>1. links[m].ends = <<Agg(x - 1, plane), Core(plane, place)>>
    BY <1>8
  <2>2. CASE \E p, i, j : IsTorLink(links[m], p, i, j)
    <3>1. PICK p, i, j : IsTorLink(links[m], p, i, j)
      BY <2>2
    <3>2. Tor(p, i) = Agg(x - 1, plane)
      BY <2>1, <3>1 DEF IsTorLink
    <3> QED
      BY <3>2, SwitchesDiffer
  <2>3. CASE \E p, j, c : IsCoreLink(links[m], p, j, c)
    <3>1. PICK p, j, c : IsCoreLink(links[m], p, j, c)
      BY <2>3
    <3>2. Core(j, c) = Core(plane, place) /\ Connected(j, c)
      BY <2>1, <3>1 DEF IsCoreLink
    <3>3. j = plane /\ c = place
      BY <3>2, SwitchesDiffer
    <3> QED
      BY <1>5, <3>2, <3>3
  <2>4. KnownLink(links[m])
    BY DEF GraphInv, AllKnown
  <2> QED
    BY <2>2, <2>3, <2>4 DEF KnownLink
<1>13. /\ AllKnown' /\ EachOnce'
       /\ \A low, up : LinkBetween(low, up) => LinkBetween(low, up)'
       /\ \A low, up, x : x \in 1 .. n /\ more[x].ends = <<low, up>>
            => LinkBetween(low, up)'
  <2>1. AllKnown /\ EachOnce
    BY DEF GraphInv
  <2>2. Prolongs(links, n, more, links')
    BY <1>3, <1>7
  <2> QED
    BY <1>2, <1>9, <1>10, <1>11, <1>12, <2>1, <2>2, GraphGrows
<1>14. \A p \in Indices(podsBuilt), i \in Indices(ToRs(fabric)), j \in Indices(Planes(fabric)) :
            LinkBetween(Tor(p, i), Agg(p, j))'
  BY <1>13 DEF GraphInv
<1>15. ASSUME NEW p \in Indices(podsBuilt), NEW j \in Indices(Planes(fabric)),
              NEW c \in Indices(CoresPerPlane(fabric)), Connected(j, c)'
       PROVE  LinkBetween(Agg(p, j), Core(j, c))'
  <2>1. CASE Connected(j, c)
    <3>1. LinkBetween(Agg(p, j), Core(j, c))
      BY <2>1 DEF GraphInv
    <3> QED
      BY <1>13, <3>1
  <2>2. CASE j = plane /\ c = place
    <3>1. PICK x : x = p + 1
      OBVIOUS
    <3>2. x \in 1 .. n /\ x - 1 = p
      BY <1>2, <3>1 DEF Indices
    <3>3. more[x].ends = <<Agg(p, j), Core(j, c)>>
      BY <1>8, <2>2, <3>2
    <3> QED
      BY <1>13, <3>2, <3>3
  <2>3. Connected(j, c) \/ (j = plane /\ c = place)
    BY <1>5, <1>15
  <2> QED
    BY <2>1, <2>2, <2>3
<1> QED
  BY <1>1, <1>13, <1>14, <1>15 DEF GraphInv

\* Lists that are filled row by row.
HasRows(s, k, m) ==
    /\ \E S : s \in Seq(S)
    /\ Len(s) = k * m

RowAdded(s, k, m, added, t) ==
    /\ HasRows(t, k + 1, m)
    /\ \A p \in Indices(k), j \in Indices(m) : t[p * m + j + 1] = s[p * m + j + 1]
    /\ \A j \in Indices(m) : j + 1 \in 1 .. m /\ t[k * m + j + 1] = added[j + 1]

\* One more row at the end of a list.
LEMMA RowAppended ==
    ASSUME NEW k \in Nat, NEW m \in Nat \ {0}, NEW s, HasRows(s, k, m),
           NEW T, NEW added \in [1 .. m -> T]
    PROVE  RowAdded(s, k, m, added, s \o added)
<1>1. PICK t : t = s \o added
  OBVIOUS
<1>2. Prolongs(s, m, added, t)
  BY <1>1, Prolonged DEF HasRows
<1>3. /\ Len(s) = k * m /\ Len(t) = Len(s) + m /\ \E S : t \in Seq(S)
      /\ \A x \in 1 .. Len(s) : t[x] = s[x]
      /\ \A x \in 1 .. m : t[Len(s) + x] = added[x]
  BY <1>2 DEF Prolongs, HasRows
<1>4. k * m \in Nat /\ (k + 1) * m = k * m + m
  OBVIOUS
<1>5. HasRows(t, k + 1, m)
  BY <1>3, <1>4 DEF HasRows
<1>6. ASSUME NEW p \in Indices(k), NEW j \in Indices(m)
      PROVE  t[p * m + j + 1] = s[p * m + j + 1]
  <2>1. PICK x \in 1 .. k * m : x = p * m + j + 1
    BY PlaceOnGrid
  <2>2. t[x] = s[x]
    BY <1>3, <2>1
  <2> QED
    BY <2>1, <2>2
<1>7. ASSUME NEW j \in Indices(m)
      PROVE  j + 1 \in 1 .. m /\ t[k * m + j + 1] = added[j + 1]
  <2>1. j \in Int /\ j + 1 \in 1 .. m
    BY DEF Indices
  <2>2. PICK y : y = j + 1
    OBVIOUS
  <2>3. t[Len(s) + y] = added[y]
    BY <1>3, <2>1, <2>2
  <2>4. Len(s) + y = k * m + j + 1
    BY <1>3, <1>4, <2>1, <2>2
  <2> QED
    BY <2>1, <2>2, <2>3, <2>4
<1> QED
  BY <1>1, <1>5, <1>6, <1>7 DEF RowAdded

\* A list of equal members gets one more.
LEMMA SameAppended ==
    ASSUME NEW k \in Nat, NEW v, NEW s \in [1 .. k -> {v}]
    PROVE  Append(s, v) \in [1 .. k + 1 -> {v}]
<1>1. s \in Seq({v}) /\ Len(s) = k
  OBVIOUS
<1>2. Append(s, v) \in Seq({v}) /\ Len(Append(s, v)) = k + 1
  BY <1>1
<1>3. PICK t : t = Append(s, v)
  OBVIOUS
<1>4. t \in Seq({v}) /\ Len(t) = k + 1
  BY <1>2, <1>3
<1>5. t \in [1 .. Len(t) -> {v}]
  BY <1>4
<1> QED
  BY <1>3, <1>4, <1>5

\* What a pod adds to the records.
LEMMA BuildPodKeepsRecords ==
    BuilderInv /\ RecordInv /\ CoresPerPlane(fabric) # 0 /\ BuildPod => RecordInv'
<1> SUFFICES ASSUME BuilderInv, RecordInv, CoresPerPlane(fabric) # 0, BuildPod
             PROVE  RecordInv'
  OBVIOUS
<1> DEFINE tors == ToRs(fabric)
           aggs == Planes(fabric)
           k == podsBuilt
           L(i) == LET tor == Tor(podsBuilt, (i - 1) \div aggs)
                   IN  Link(tor, Agg(podsBuilt, (i - 1) % aggs), podsBuilt, {tor},
                            Full(fabric) \/ podsBuilt \in lgPods)
           added == [i \in 1 .. tors * aggs |-> L(i)]
           aggsAdded == [i \in 1 .. tors |-> {Agg(podsBuilt, j) : j \in 0 .. aggs - 1}]
           uplinksAdded == [i \in 1 .. aggs |-> 0]
<1>1. /\ k < Pods(fabric) /\ podsBuilt' = k + 1
      /\ fabric' = fabric /\ coresBuilt' = coresBuilt
      /\ built' = [built EXCEPT
            !.aggSwitches = @ \o aggsAdded, !.uplinks = @ \o uplinksAdded,
            !.torCapacity = Append(@, Len(added)), !.coreCapacity = Append(@, 0)]
  BY DEF BuildPod
<1>2. tors \in Nat \ {0} /\ aggs \in Nat \ {0} /\ k \in Nat
  BY NetworkSizes DEF BuilderInv
<1>3. tors * aggs \in Nat /\ Len(added) = tors * aggs
  <2>1. tors * aggs \in Nat
    BY <1>2
  <2>2. PICK n \in Nat : n = tors * aggs
    BY <2>1
  <2>3. Len([i \in 1 .. n |-> L(i)]) = n
    OBVIOUS
  <2> QED
    BY <2>1, <2>2, <2>3
<1> HIDE DEF added, L
<1>4. aggsAdded \in [1 .. tors -> {PodAggs(k)}]
  BY DEF PodAggs, Indices
<1>5. uplinksAdded \in [1 .. aggs -> {0}]
  OBVIOUS
<1> HIDE DEF aggsAdded, uplinksAdded
<1>6. /\ built'.aggSwitches = built.aggSwitches \o aggsAdded
      /\ built'.uplinks = built.uplinks \o uplinksAdded
      /\ built'.torCapacity = Append(built.torCapacity, Len(added))
      /\ built'.coreCapacity = Append(built.coreCapacity, 0)
      /\ built' = [aggSwitches |-> built'.aggSwitches, uplinks |-> built'.uplinks,
                torCapacity |-> built'.torCapacity, coreCapacity |-> built'.coreCapacity]
  <2>1. PICK a, u, t, c : built = [aggSwitches |-> a, uplinks |-> u,
                                   torCapacity |-> t, coreCapacity |-> c]
    BY DEF RecordInv
  <2>2. built' = [aggSwitches |-> a \o aggsAdded, uplinks |-> u \o uplinksAdded,
                  torCapacity |-> Append(t, Len(added)), coreCapacity |-> Append(c, 0)]
    BY <1>1, <2>1
  <2> QED
    BY <2>1, <2>2
<1>7. /\ HasRows(built.aggSwitches, k, tors) /\ HasRows(built.uplinks, k, aggs)
  BY DEF RecordInv, HasRows
<1>8. RowAdded(built.aggSwitches, k, tors, aggsAdded, built'.aggSwitches)
  <2>1. PICK m, s, more : m = tors /\ s = built.aggSwitches /\ more = aggsAdded
    OBVIOUS
  <2>2. PICK T : more \in [1 .. m -> T]
    BY <1>4, <2>1
  <2>3. m \in Nat \ {0} /\ HasRows(s, k, m)
    BY <1>2, <1>7, <2>1
  <2>4. RowAdded(s, k, m, more, s \o more)
    BY <1>2, <2>2, <2>3, RowAppended
  <2>5. built'.aggSwitches = s \o more
    BY <1>6, <2>1
  <2> QED
    BY <2>1, <2>4, <2>5
<1>9. RowAdded(built.uplinks, k, aggs, uplinksAdded, built'.uplinks)
  <2>1. PICK m, s, more : m = aggs /\ s = built.uplinks /\ more = uplinksAdded
    OBVIOUS
  <2>2. PICK T : more \in [1 .. m -> T]
    BY <1>5, <2>1
  <2>3. m \in Nat \ {0} /\ HasRows(s, k, m)
    BY <1>2, <1>7, <2>1
  <2>4. RowAdded(s, k, m, more, s \o more)
    BY <1>2, <2>2, <2>3, RowAppended
  <2>5. built'.uplinks = s \o more
    BY <1>6, <2>1
  <2> QED
    BY <2>1, <2>4, <2>5
<1>10. \A p : p \in Indices(k + 1) => p \in Indices(k) \/ p = k
  BY <1>2 DEF Indices
<1>11. ASSUME NEW p \in Indices(k + 1), NEW i \in Indices(tors)
       PROVE  built'.aggSwitches[p * tors + i + 1] = PodAggs(p)
  <2>1. CASE p \in Indices(k)
    BY <1>8, <2>1 DEF RecordInv, RowAdded
  <2>2. CASE p = k
    BY <1>4, <1>8, <2>2 DEF RowAdded
  <2> QED
    BY <1>10, <2>1, <2>2
<1>12. ASSUME NEW p \in Indices(k + 1), NEW j \in Indices(aggs)
       PROVE  built'.uplinks[p * aggs + j + 1] = NumConnected(j)
  <2>1. CASE p \in Indices(k)
    BY <1>9, <2>1 DEF RecordInv, RowAdded
  <2>2. CASE p = k
    <3>1. j \in Nat
      BY DEF Indices
    <3>2. NumConnected(j) = 0
      BY <1>1, <3>1, NoCoresYet
    <3>3. built'.uplinks[k * aggs + j + 1] = 0
      BY <1>5, <1>9 DEF RowAdded
    <3> QED
      BY <2>2, <3>2, <3>3
  <2> QED
    BY <1>10, <2>1, <2>2
<1>13. built'.torCapacity \in [1 .. k + 1 -> {tors * aggs}]
  <2>1. built.torCapacity \in [1 .. k -> {tors * aggs}]
    BY DEF RecordInv
  <2>2. PICK v : v = tors * aggs
    OBVIOUS
  <2>3. Append(built.torCapacity, v) \in [1 .. k + 1 -> {v}]
    BY <1>2, <2>1, <2>2, SameAppended
  <2> QED
    BY <1>3, <1>6, <2>2, <2>3
<1>14. built'.coreCapacity \in [1 .. k + 1 -> {coresBuilt}]
  <2>1. built.coreCapacity \in [1 .. k -> {0}] /\ coresBuilt = 0
    BY <1>1, NoCoresYet DEF RecordInv
  <2>2. Append(built.coreCapacity, 0) \in [1 .. k + 1 -> {0}]
    BY <1>2, <2>1, SameAppended
  <2> QED
    BY <1>6, <2>1, <2>2
<1>15. \A p : PodAggs(p)' = PodAggs(p)
  BY <1>1 DEF PodAggs
<1>16. \A j : NumConnected(j)' = NumConnected(j)
  BY <1>1 DEF NumConnected, PlaneNow, PlaceNow
<1>17. (/\ \A p \in Indices(podsBuilt), i \in Indices(ToRs(fabric)) :
            built.aggSwitches[p * ToRs(fabric) + i + 1] = PodAggs(p))'
  BY <1>1, <1>11, <1>15
<1>18. (/\ \A p \in Indices(podsBuilt), j \in Indices(Planes(fabric)) :
            built.uplinks[p * Planes(fabric) + j + 1] = NumConnected(j))'
  BY <1>1, <1>12, <1>16
<1>19. /\ (HasRows(built.aggSwitches, podsBuilt, ToRs(fabric)))'
       /\ (HasRows(built.uplinks, podsBuilt, Planes(fabric)))'
  BY <1>1, <1>8, <1>9 DEF RowAdded
<1>20. /\ (built.torCapacity \in [1 .. podsBuilt -> {ToRs(fabric) * Planes(fabric)}])'
       /\ (built.coreCapacity \in [1 .. podsBuilt -> {coresBuilt}])'
  BY <1>1, <1>13, <1>14
<1> QED
  BY <1>6, <1>17, <1>18, <1>19, <1>20 DEF RecordInv, HasRows

\* What a core switch adds to the records.
LEMMA ConnectCoreKeepsRecords ==
    BuilderInv /\ RecordInv /\ CoresPerPlane(fabric) # 0 /\ ConnectCore => RecordInv'
<1> SUFFICES ASSUME BuilderInv, RecordInv, CoresPerPlane(fabric) # 0, ConnectCore
             PROVE  RecordInv'
  OBVIOUS
<1> DEFINE aggs == Planes(fabric)
           k == podsBuilt
           More(u) == [i \in DOMAIN u |-> IF (i - 1) % aggs = PlaneNow THEN u[i] + 1 ELSE u[i]]
           Higher(c) == [p \in DOMAIN c |-> c[p] + 1]
<1>1. /\ podsBuilt' = k /\ fabric' = fabric /\ coresBuilt' = coresBuilt + 1
      /\ built' = [built EXCEPT !.uplinks = More(@), !.coreCapacity = Higher(@)]
  BY DEF ConnectCore, PlaneNow
<1>2. aggs \in Nat \ {0} /\ k \in Nat
  BY NetworkSizes DEF BuilderInv
<1> HIDE DEF More, Higher
<1>3. /\ built'.aggSwitches = built.aggSwitches
      /\ built'.uplinks = More(built.uplinks)
      /\ built'.torCapacity = built.torCapacity
      /\ built'.coreCapacity = Higher(built.coreCapacity)
      /\ built' = [aggSwitches |-> built'.aggSwitches, uplinks |-> built'.uplinks,
                torCapacity |-> built'.torCapacity, coreCapacity |-> built'.coreCapacity]
  <2>1. PICK a, u, t, c : built = [aggSwitches |-> a, uplinks |-> u,
                                   torCapacity |-> t, coreCapacity |-> c]
    BY DEF RecordInv
  <2>2. built' = [aggSwitches |-> a, uplinks |-> More(u),
                  torCapacity |-> t, coreCapacity |-> Higher(c)]
    BY <1>1, <2>1
  <2> QED
    BY <2>1, <2>2
<1>4. PICK u : u = built.uplinks
  OBVIOUS
<1>5. (\E S : u \in Seq(S)) /\ Len(u) = k * aggs
  BY <1>4 DEF RecordInv
<1>6. DOMAIN u = 1 .. k * aggs /\ k * aggs \in Nat
  BY <1>2, <1>5
<1>7. /\ \E S : More(u) \in Seq(S)
      /\ Len(More(u)) = k * aggs
  <2>1. PICK n \in Nat : n = k * aggs
    BY <1>6
  <2>2. DOMAIN u = 1 .. n
    BY <1>6, <2>1
  <2>3. More(u) \in [1 .. n -> {More(u)[i] : i \in 1 .. n}]
    BY <2>2 DEF More
  <2>4. \A S, f : f \in [1 .. n -> S] => f \in Seq(S) /\ Len(f) = n
    OBVIOUS
  <2> QED
    BY <2>1, <2>3, <2>4
<1>8. ASSUME NEW p \in Indices(k), NEW j \in Indices(aggs)
      PROVE  More(u)[p * aggs + j + 1] = NumConnected(j)'
  <2>1. PICK x \in 1 .. k * aggs : x = p * aggs + j + 1 /\ (x - 1) % aggs = j
    <3> HIDE DEF aggs
    <3> QED
      BY <1>2, PlaceOnGrid
  <2>2. u[x] = NumConnected(j)
    BY <1>4, <2>1 DEF RecordInv
  <2>3. More(u)[x] = IF j = PlaneNow THEN u[x] + 1 ELSE u[x]
    BY <1>6, <2>1 DEF More
  <2>4. NumConnected(j)' = IF j = PlaneNow THEN NumConnected(j) + 1 ELSE NumConnected(j)
    BY OneMoreCore
  <2> QED
    BY <2>1, <2>2, <2>3, <2>4
<1>9. Higher(built.coreCapacity) \in [1 .. k -> {coresBuilt + 1}]
  BY DEF RecordInv, Higher
<1>10. \A p : PodAggs(p)' = PodAggs(p)
  BY <1>1 DEF PodAggs
<1>11. (/\ \A p \in Indices(podsBuilt), i \in Indices(ToRs(fabric)) :
            built.aggSwitches[p * ToRs(fabric) + i + 1] = PodAggs(p))'
  BY <1>1, <1>3, <1>10 DEF RecordInv
<1>12. (/\ \A p \in Indices(podsBuilt), j \in Indices(Planes(fabric)) :
            built.uplinks[p * Planes(fabric) + j + 1] = NumConnected(j))'
  BY <1>1, <1>3, <1>4, <1>8
<1>13. /\ (HasRows(built.aggSwitches, podsBuilt, ToRs(fabric)))'
       /\ (HasRows(built.uplinks, podsBuilt, Planes(fabric)))'
  BY <1>1, <1>3, <1>4, <1>7 DEF RecordInv, HasRows
<1>14. /\ (built.torCapacity \in [1 .. podsBuilt -> {ToRs(fabric) * Planes(fabric)}])'
       /\ (built.coreCapacity \in [1 .. podsBuilt -> {coresBuilt}])'
  BY <1>1, <1>3, <1>9 DEF RecordInv
<1> QED
  BY <1>3, <1>11, <1>12, <1>13, <1>14 DEF RecordInv, HasRows

\* All that the loops are to build.
AllTors == {Tor(p, i) : p \in Indices(Pods(fabric)), i \in Indices(ToRs(fabric))}
AllAggs == {Agg(p, j) : p \in Indices(Pods(fabric)), j \in Indices(Planes(fabric))}
AllCores == {Core(j, c) : j \in Indices(Planes(fabric)), c \in Indices(CoresPerPlane(fabric))}
PodTorLinks(p) ==
    {<<Tor(p, i), Agg(p, j)>> : i \in Indices(ToRs(fabric)), j \in Indices(Planes(fabric))}
PodCoreLinks(p) ==
    {<<Agg(p, j), Core(j, c)>> :
        j \in Indices(Planes(fabric)), c \in Indices(CoresPerPlane(fabric))}
AllTorLinks == UNION {PodTorLinks(p) : p \in Indices(Pods(fabric))}
AllCoreLinks == UNION {PodCoreLinks(p) : p \in Indices(Pods(fabric))}

Finished ==
    BuilderInv /\ GraphInv /\ RecordInv /\ BuilderDone /\ CoresPerPlane(fabric) # 0

\* Sizes and records of the finished network.
LEMMA FinishedSizes ==
    ASSUME Finished
    PROVE  /\ Pods(fabric) \in Nat \ {0} /\ ToRs(fabric) \in Nat \ {0}
           /\ Planes(fabric) \in Nat \ {0} /\ CoresPerPlane(fabric) \in Nat \ {0}
           /\ podsBuilt = Pods(fabric)
           /\ coresBuilt = Planes(fabric) * CoresPerPlane(fabric)
           /\ \A j \in Indices(Planes(fabric)) : \A c : Connected(j, c)
           /\ \A j \in Indices(Planes(fabric)) : NumConnected(j) = CoresPerPlane(fabric)
           /\ 0 \in Indices(Pods(fabric)) /\ 0 \in Indices(ToRs(fabric))
           /\ 0 \in Indices(Planes(fabric)) /\ 0 \in Indices(CoresPerPlane(fabric))
<1> DEFINE m == CoresPerPlane(fabric)
           n == Planes(fabric)
<1>1. /\ Pods(fabric) \in Nat \ {0} /\ ToRs(fabric) \in Nat \ {0}
      /\ n \in Nat \ {0} /\ m \in Nat \ {0}
  BY NetworkSizes DEF Finished, BuilderInv
<1>2. podsBuilt = Pods(fabric) /\ coresBuilt = n * m
  BY DEF Finished, BuilderDone
<1>3. PlaneNow = n /\ PlaceNow = 0
  <2> HIDE DEF n
  <2>1. 0 \in 0 .. m - 1 /\ n * m \in Int
    BY <1>1
  <2>2. PICK x \in Int : x = n * m
    BY <2>1
  <2>3. x = n * m + 0
    BY <2>1, <2>2
  <2>4. x \div m = n /\ x % m = 0
    <3> HIDE DEF m
    <3> QED
      BY <1>1, <2>1, <2>3, Division
  <2> QED
    BY <1>2, <2>2, <2>4 DEF PlaneNow, PlaceNow
<1>4. \A j \in Indices(n) : j < n
  BY <1>1 DEF Indices
<1>5. /\ 0 \in Indices(Pods(fabric)) /\ 0 \in Indices(ToRs(fabric))
      /\ 0 \in Indices(n) /\ 0 \in Indices(m)
  BY <1>1 DEF Indices
<1>6. \A j \in Indices(n) : NumConnected(j) = m
  BY <1>3, <1>4 DEF NumConnected
<1>7. \A j \in Indices(n) : \A c : Connected(j, c)
  BY <1>3, <1>4 DEF Connected
<1> QED
  BY <1>1, <1>2, <1>5, <1>6, <1>7

\* The links that are there.
LEMMA FinishedLinks ==
    ASSUME Finished
    PROVE  /\ \A m \in DOMAIN links :
                \/ \E p \in Indices(Pods(fabric)), i \in Indices(ToRs(fabric)),
                      j \in Indices(Planes(fabric)) :
                        links[m].ends = <<Tor(p, i), Agg(p, j)>> /\ links[m].affected = {Tor(p, i)}
                \/ \E p \in Indices(Pods(fabric)), j \in Indices(Planes(fabric)),
                      c \in Indices(CoresPerPlane(fabric)) :
                        links[m].ends = <<Agg(p, j), Core(j, c)>> /\ links[m].affected = PodTors(p)
           /\ \A p \in Indices(Pods(fabric)), i \in Indices(ToRs(fabric)),
                      j \in Indices(Planes(fabric)) : LinkBetween(Tor(p, i), Agg(p, j))
           /\ \A p \in Indices(Pods(fabric)), j \in Indices(Planes(fabric)),
                      c \in Indices(CoresPerPlane(fabric)) : LinkBetween(Agg(p, j), Core(j, c))
<1>1. podsBuilt = Pods(fabric)
  BY FinishedSizes
<1>2. ASSUME NEW m \in DOMAIN links
      PROVE  \/ \E p \in Indices(Pods(fabric)), i \in Indices(ToRs(fabric)),
                      j \in Indices(Planes(fabric)) :
                        links[m].ends = <<Tor(p, i), Agg(p, j)>> /\ links[m].affected = {Tor(p, i)}
             \/ \E p \in Indices(Pods(fabric)), j \in Indices(Planes(fabric)),
                      c \in Indices(CoresPerPlane(fabric)) :
                        links[m].ends = <<Agg(p, j), Core(j, c)>> /\ links[m].affected = PodTors(p)
  <2>1. KnownLink(links[m])
    BY DEF Finished, GraphInv, AllKnown
  <2>2. CASE \E p, i, j : IsTorLink(links[m], p, i, j)
    BY <1>1, <2>2 DEF IsTorLink
  <2>3. CASE \E p, j, c : IsCoreLink(links[m], p, j, c)
    BY <1>1, <2>3 DEF IsCoreLink
  <2> QED
    BY <2>1, <2>2, <2>3 DEF KnownLink
<1>3. \A p \in Indices(Pods(fabric)), i \in Indices(ToRs(fabric)),
                      j \in Indices(Planes(fabric)) : LinkBetween(Tor(p, i), Agg(p, j))
  BY <1>1 DEF Finished, GraphInv
<1>4. \A p \in Indices(Pods(fabric)), j \in Indices(Planes(fabric)),
                      c \in Indices(CoresPerPlane(fabric)) : LinkBetween(Agg(p, j), Core(j, c))
  BY <1>1, FinishedSizes DEF Finished, GraphInv
<1> QED
  BY <1>2, <1>3, <1>4

\* The links built are those the two loops are to build.
LEMMA LinkEnds ==
    ASSUME Finished
    PROVE  {l.ends : l \in ToSet(links)} = AllTorLinks \cup AllCoreLinks
<1>1. \A e : e \in {l.ends : l \in ToSet(links)} <=> \E m \in DOMAIN links : e = links[m].ends
  BY DEF ToSet
<1>2. ASSUME NEW m \in DOMAIN links
      PROVE  links[m].ends \in AllTorLinks \cup AllCoreLinks
  <2>1. CASE \E p \in Indices(Pods(fabric)), i \in Indices(ToRs(fabric)),
                j \in Indices(Planes(fabric)) : links[m].ends = <<Tor(p, i), Agg(p, j)>>
    BY <2>1 DEF AllTorLinks, PodTorLinks
  <2>2. CASE \E p \in Indices(Pods(fabric)), j \in Indices(Planes(fabric)),
                c \in Indices(CoresPerPlane(fabric)) : links[m].ends = <<Agg(p, j), Core(j, c)>>
    BY <2>2 DEF AllCoreLinks, PodCoreLinks
  <2> QED
    BY <2>1, <2>2, FinishedLinks
<1>3. ASSUME NEW e \in AllTorLinks
      PROVE  \E m \in DOMAIN links : e = links[m].ends
  <2>1. PICK p \in Indices(Pods(fabric)), i \in Indices(ToRs(fabric)),
             j \in Indices(Planes(fabric)) :
            e = <<Tor(p, i), Agg(p, j)>>
    BY DEF AllTorLinks, PodTorLinks
  <2>2. LinkBetween(Tor(p, i), Agg(p, j))
    BY FinishedLinks
  <2> QED
    BY <2>1, <2>2 DEF LinkBetween
<1>4. ASSUME NEW e \in AllCoreLinks
      PROVE  \E m \in DOMAIN links : e = links[m].ends
  <2>1. PICK p \in Indices(Pods(fabric)), j \in Indices(Planes(fabric)),
             c \in Indices(CoresPerPlane(fabric)) : e = <<Agg(p, j), Core(j, c)>>
    BY DEF AllCoreLinks, PodCoreLinks
  <2>2. LinkBetween(Agg(p, j), Core(j, c))
    BY FinishedLinks
  <2> QED
    BY <2>1, <2>2 DEF LinkBetween
<1> QED
  BY <1>1, <1>2, <1>3, <1>4

\* The switches are the ends of links.
LEMMA SwitchEnds ==
    ASSUME Finished
    PROVE  Ends("TOR") = AllTors /\ Ends("AGG") = AllAggs /\ Ends("CORE") = AllCores
<1> DEFINE Plugged == {l.ends[j] : l \in ToSet(links), j \in 1 .. 2}
<1>1. \A sw : sw \in Plugged <=>
        \E m \in DOMAIN links : sw = links[m].ends[1] \/ sw = links[m].ends[2]
  <2>1. 1 .. 2 = {1, 2}
    OBVIOUS
  <2> QED
    BY <2>1 DEF ToSet
<1>2. \A type : Ends(type) = Plugged \cap [type : {type}, group : Int, index : Int]
  BY DEF Ends
<1> HIDE DEF Plugged
<1>3. \A k : \A i \in Indices(k) : i \in Int
  BY DEF Indices
<1>4. \A sw \in AllTors : sw \in [type : {"TOR"}, group : Int, index : Int] /\ sw.type = "TOR"
  BY <1>3 DEF AllTors, Tor
<1>5. \A sw \in AllAggs : sw \in [type : {"AGG"}, group : Int, index : Int] /\ sw.type = "AGG"
  BY <1>3 DEF AllAggs, Agg
<1>6. \A sw \in AllCores : sw \in [type : {"CORE"}, group : Int, index : Int] /\ sw.type = "CORE"
  BY <1>3 DEF AllCores, Core
<1>7. \A sw \in Plugged : sw \in AllTors \/ sw \in AllAggs \/ sw \in AllCores
  <2> SUFFICES ASSUME NEW m \in DOMAIN links, NEW sw,
                      sw = links[m].ends[1] \/ sw = links[m].ends[2]
               PROVE  sw \in AllTors \/ sw \in AllAggs \/ sw \in AllCores
    BY <1>1
  <2>1. CASE \E p \in Indices(Pods(fabric)), i \in Indices(ToRs(fabric)),
                j \in Indices(Planes(fabric)) : links[m].ends = <<Tor(p, i), Agg(p, j)>>
    BY <2>1 DEF AllTors, AllAggs
  <2>2. CASE \E p \in Indices(Pods(fabric)), j \in Indices(Planes(fabric)),
                c \in Indices(CoresPerPlane(fabric)) : links[m].ends = <<Agg(p, j), Core(j, c)>>
    BY <2>2 DEF AllCores, AllAggs
  <2> QED
    BY <2>1, <2>2, FinishedLinks
<1>8. ASSUME NEW low, NEW up, LinkBetween(low, up)
      PROVE  low \in Plugged /\ up \in Plugged
  <2>1. PICK m \in DOMAIN links : links[m].ends = <<low, up>>
    BY <1>8 DEF LinkBetween
  <2>2. low = links[m].ends[1] /\ up = links[m].ends[2]
    BY <2>1
  <2> QED
    BY <1>1, <2>2
<1>9. /\ 0 \in Indices(Pods(fabric)) /\ 0 \in Indices(ToRs(fabric))
      /\ 0 \in Indices(Planes(fabric)) /\ 0 \in Indices(CoresPerPlane(fabric))
  BY FinishedSizes
<1>10. AllTors \subseteq Plugged
  BY <1>8, <1>9, FinishedLinks DEF AllTors
<1>11. AllAggs \subseteq Plugged
  BY <1>8, <1>9, FinishedLinks DEF AllAggs
<1>12. AllCores \subseteq Plugged
  BY <1>8, <1>9, FinishedLinks DEF AllCores
<1>13. \A type, sw : sw \in [type : {type}, group : Int, index : Int] => sw.type = type
  OBVIOUS
<1>14. Ends("TOR") = AllTors
  BY <1>2, <1>4, <1>5, <1>6, <1>7, <1>10, <1>13
<1>15. Ends("AGG") = AllAggs
  BY <1>2, <1>4, <1>5, <1>6, <1>7, <1>11, <1>13
<1>16. Ends("CORE") = AllCores
  BY <1>2, <1>4, <1>5, <1>6, <1>7, <1>12, <1>13
<1> QED
  BY <1>14, <1>15, <1>16

\* The links of the graph are those two kinds.
LEMMA GraphLinks ==
    ASSUME Finished
    PROVE  /\ Network!TorLinks = AllTorLinks /\ Network!CoreLinks = AllCoreLinks
           /\ Network!Links = AllTorLinks \cup AllCoreLinks
<1>1. Ends("TOR") = AllTors /\ Ends("AGG") = AllAggs /\ Ends("CORE") = AllCores
  BY SwitchEnds
<1>2. /\ \A p, i : Tor(p, i).group = p
      /\ \A p, j : Agg(p, j).group = p /\ Agg(p, j).index = j /\ Agg(p, j).type = "AGG"
      /\ \A j, c : Core(j, c).group = j /\ Core(j, c).type = "CORE"
  BY DEF Tor, Agg, Core
<1>3. \A l : l \in Network!TorLinks <=>
        l \in AllTors \X AllAggs /\ l[1].group = l[2].group
  BY <1>1 DEF Network!TorLinks
<1>4. \A l : l \in Network!CoreLinks <=>
        /\ l \in AllAggs \X AllCores
        /\ (IF l[1].type = "AGG" THEN l[1].index ELSE l[1].group)
            = (IF l[2].type = "AGG" THEN l[2].index ELSE l[2].group)
  BY <1>1 DEF Network!CoreLinks
<1>5. ASSUME NEW l \in AllTors \X AllAggs, l[1].group = l[2].group
      PROVE  l \in AllTorLinks
  <2>1. PICK p \in Indices(Pods(fabric)), i \in Indices(ToRs(fabric)) : l[1] = Tor(p, i)
    BY DEF AllTors
  <2>2. PICK q \in Indices(Pods(fabric)), j \in Indices(Planes(fabric)) : l[2] = Agg(q, j)
    BY DEF AllAggs
  <2>3. p = q
    BY <1>2, <1>5, <2>1, <2>2
  <2>4. l = <<Tor(p, i), Agg(p, j)>>
    BY <2>1, <2>2, <2>3
  <2> QED
    BY <2>4 DEF AllTorLinks, PodTorLinks
<1>6. ASSUME NEW l \in AllTorLinks
      PROVE  l \in AllTors \X AllAggs /\ l[1].group = l[2].group
  <2>1. PICK p \in Indices(Pods(fabric)), i \in Indices(ToRs(fabric)),
             j \in Indices(Planes(fabric)) :
            l = <<Tor(p, i), Agg(p, j)>>
    BY DEF AllTorLinks, PodTorLinks
  <2>2. Tor(p, i) \in AllTors /\ Agg(p, j) \in AllAggs
    BY DEF AllTors, AllAggs
  <2> QED
    BY <1>2, <2>1, <2>2
<1>7. ASSUME NEW l \in AllAggs \X AllCores,
             (IF l[1].type = "AGG" THEN l[1].index ELSE l[1].group)
                = (IF l[2].type = "AGG" THEN l[2].index ELSE l[2].group)
      PROVE  l \in AllCoreLinks
  <2>1. PICK p \in Indices(Pods(fabric)), k \in Indices(Planes(fabric)) : l[1] = Agg(p, k)
    BY DEF AllAggs
  <2>2. PICK j \in Indices(Planes(fabric)), c \in Indices(CoresPerPlane(fabric)) : l[2] = Core(j, c)
    BY DEF AllCores
  <2>3. k = j
    BY <1>2, <1>7, <2>1, <2>2
  <2>4. l = <<Agg(p, j), Core(j, c)>>
    BY <2>1, <2>2, <2>3
  <2> QED
    BY <2>4 DEF AllCoreLinks, PodCoreLinks
<1>8. ASSUME NEW l \in AllCoreLinks
      PROVE  /\ l \in AllAggs \X AllCores
             /\ (IF l[1].type = "AGG" THEN l[1].index ELSE l[1].group)
                = (IF l[2].type = "AGG" THEN l[2].index ELSE l[2].group)
  <2>1. PICK p \in Indices(Pods(fabric)), j \in Indices(Planes(fabric)),
             c \in Indices(CoresPerPlane(fabric)) :
            l = <<Agg(p, j), Core(j, c)>>
    BY DEF AllCoreLinks, PodCoreLinks
  <2>2. Core(j, c) \in AllCores /\ Agg(p, j) \in AllAggs
    BY DEF AllCores, AllAggs
  <2> QED
    BY <1>2, <2>1, <2>2
<1>9. Network!TorLinks = AllTorLinks
  BY <1>3, <1>5, <1>6
<1>10. Network!CoreLinks = AllCoreLinks
  BY <1>4, <1>7, <1>8
<1> QED
  BY <1>9, <1>10 DEF Network!Links

\* What makes a bijection.
LEMMA OneToOne ==
    ASSUME NEW S, NEW T, NEW f \in [S -> T], \A x, y \in S : f[x] = f[y] => x = y,
           \A t \in T : \E x \in S : f[x] = t
    PROVE  f \in Bijection(S, T)
<1>1. f \in Injection(S, T)
  BY DEF Injection, IsInjective
<1>2. f \in Surjection(S, T)
  BY DEF Surjection
<1> QED
  BY <1>1, <1>2 DEF Bijection

\* As many as pairs of numbers.
LEMMA CountPairs ==
    ASSUME NEW a \in Nat, NEW b \in Nat, NEW V,
           NEW f \in Bijection(Indices(a) \X Indices(b), V)
    PROVE  IsFiniteSet(V) /\ Cardinality(V) = a * b
<1>1. /\ IsFiniteSet(Indices(a)) /\ Cardinality(Indices(a)) = a
      /\ IsFiniteSet(Indices(b)) /\ Cardinality(Indices(b)) = b
  <2>1. \A n \in Nat : IsFiniteSet(0 .. n - 1) /\ Cardinality(0 .. n - 1) = n
    <3> SUFFICES ASSUME NEW n \in Nat
                 PROVE  IsFiniteSet(0 .. n - 1) /\ Cardinality(0 .. n - 1) = n
      OBVIOUS
    <3>1. /\ IsFiniteSet(0 .. n - 1)
          /\ Cardinality(0 .. n - 1) = IF 0 > n - 1 THEN 0 ELSE (n - 1) - 0 + 1
      BY FS_Interval
    <3> QED
      BY <3>1
  <2> QED
    BY <2>1 DEF Indices
<1>2. /\ IsFiniteSet(Indices(a) \X Indices(b))
      /\ Cardinality(Indices(a) \X Indices(b)) = a * b
  BY <1>1, FS_Product
<1>3. ExistsBijection(Indices(a) \X Indices(b), V)
  BY DEF ExistsBijection
<1> QED
  BY <1>2, <1>3, FS_Bijection

\* The links of a pod, and the uplinks of an Agg.
LEMMA PodLinkCounts ==
    ASSUME Finished, NEW p
    PROVE  /\ Cardinality(PodTorLinks(p)) = ToRs(fabric) * Planes(fabric)
           /\ Cardinality(PodCoreLinks(p)) = Planes(fabric) * CoresPerPlane(fabric)
<1>1. /\ ToRs(fabric) \in Nat /\ Planes(fabric) \in Nat /\ CoresPerPlane(fabric) \in Nat
  BY FinishedSizes
<1>2. Cardinality(PodTorLinks(p)) = ToRs(fabric) * Planes(fabric)
  <2> DEFINE S == Indices(ToRs(fabric)) \X Indices(Planes(fabric))
             f == [x \in S |-> <<Tor(p, x[1]), Agg(p, x[2])>>]
  <2>1. \A x, y \in S : f[x] = f[y] => x = y
    <3> SUFFICES ASSUME NEW x \in S, NEW y \in S, f[x] = f[y] PROVE x = y
      OBVIOUS
    <3>1. Tor(p, x[1]) = Tor(p, y[1]) /\ Agg(p, x[2]) = Agg(p, y[2])
      OBVIOUS
    <3>2. x[1] = y[1] /\ x[2] = y[2]
      BY <3>1, SwitchesDiffer
    <3>3. x = <<x[1], x[2]>> /\ y = <<y[1], y[2]>>
      OBVIOUS
    <3> QED
      BY <3>2, <3>3, Zenon
  <2>2. f \in [S -> PodTorLinks(p)]
    BY DEF PodTorLinks
  <2>3. \A l \in PodTorLinks(p) : \E x \in S : f[x] = l
    <3>1. \A i \in Indices(ToRs(fabric)), j \in Indices(Planes(fabric)) :
            <<i, j>> \in S /\ f[<<i, j>>] = <<Tor(p, i), Agg(p, j)>>
      OBVIOUS
    <3> HIDE DEF S, f
    <3> SUFFICES ASSUME NEW l \in PodTorLinks(p) PROVE \E x \in S : f[x] = l
      OBVIOUS
    <3>2. PICK i \in Indices(ToRs(fabric)), j \in Indices(Planes(fabric)) :
            l = <<Tor(p, i), Agg(p, j)>>
      BY DEF PodTorLinks
    <3>3. <<i, j>> \in S /\ f[<<i, j>>] = l
      BY <3>1, <3>2
    <3> QED
      BY <3>3
  <2> HIDE DEF f
  <2>4. f \in Bijection(S, PodTorLinks(p))
    BY <2>1, <2>2, <2>3, OneToOne
  <2> QED
    BY <1>1, <2>4, CountPairs
<1>3. Cardinality(PodCoreLinks(p)) = Planes(fabric) * CoresPerPlane(fabric)
  <2> DEFINE S == Indices(Planes(fabric)) \X Indices(CoresPerPlane(fabric))
             f == [x \in S |-> <<Agg(p, x[1]), Core(x[1], x[2])>>]
  <2>1. \A x, y \in S : f[x] = f[y] => x = y
    <3> SUFFICES ASSUME NEW x \in S, NEW y \in S, f[x] = f[y] PROVE x = y
      OBVIOUS
    <3>1. Core(x[1], x[2]) = Core(y[1], y[2])
      OBVIOUS
    <3>2. x[1] = y[1] /\ x[2] = y[2]
      BY <3>1, SwitchesDiffer
    <3>3. x = <<x[1], x[2]>> /\ y = <<y[1], y[2]>>
      OBVIOUS
    <3> QED
      BY <3>2, <3>3, Zenon
  <2>2. f \in [S -> PodCoreLinks(p)]
    BY DEF PodCoreLinks
  <2>3. \A l \in PodCoreLinks(p) : \E x \in S : f[x] = l
    <3>1. \A j \in Indices(Planes(fabric)), c \in Indices(CoresPerPlane(fabric)) :
            <<j, c>> \in S /\ f[<<j, c>>] = <<Agg(p, j), Core(j, c)>>
      OBVIOUS
    <3> HIDE DEF S, f
    <3> SUFFICES ASSUME NEW l \in PodCoreLinks(p) PROVE \E x \in S : f[x] = l
      OBVIOUS
    <3>2. PICK j \in Indices(Planes(fabric)), c \in Indices(CoresPerPlane(fabric)) :
            l = <<Agg(p, j), Core(j, c)>>
      BY DEF PodCoreLinks
    <3>3. <<j, c>> \in S /\ f[<<j, c>>] = l
      BY <3>1, <3>2
    <3> QED
      BY <3>3
  <2> HIDE DEF f
  <2>4. f \in Bijection(S, PodCoreLinks(p))
    BY <2>1, <2>2, <2>3, OneToOne
  <2> QED
    BY <1>1, <2>4, CountPairs
<1> QED
  BY <1>2, <1>3

\* An aggregation switch has as many uplinks as its plane has cores.
LEMMA UplinkCount ==
    ASSUME Finished, NEW j
    PROVE  Cardinality({Core(j, c) : c \in Indices(CoresPerPlane(fabric))})
                = CoresPerPlane(fabric)
<1> DEFINE n == CoresPerPlane(fabric)
           S == Indices(n)
           V == {Core(j, c) : c \in S}
           f == [c \in S |-> Core(j, c)]
<1>1. n \in Nat \ {0}
  BY FinishedSizes
<1>2. f \in [S -> V] /\ \A v \in V : \E c \in S : f[c] = v
  OBVIOUS
<1>3. \A c, d \in S : f[c] = f[d] => c = d
  BY SwitchesDiffer
<1> HIDE DEF f, V
<1>4. f \in Bijection(S, V)
  BY <1>2, <1>3, OneToOne
<1> HIDE DEF n
<1>5. IsFiniteSet(S) /\ Cardinality(S) = n
  <2>1. /\ IsFiniteSet(0 .. n - 1)
        /\ Cardinality(0 .. n - 1) = IF 0 > n - 1 THEN 0 ELSE (n - 1) - 0 + 1
    BY <1>1, FS_Interval
  <2> QED
    BY <1>1, <2>1 DEF Indices
<1>6. Cardinality(V) = Cardinality(S)
  BY <1>4, <1>5, FS_Bijection DEF ExistsBijection
<1> QED
  BY <1>5, <1>6 DEF V, n

\* Every link of the graph is there once.
LEMMA LinkCount ==
    ASSUME Finished
    PROVE  Len(links) = Cardinality(Network!Links)
<1> DEFINE L == Network!Links
           f == [m \in DOMAIN links |-> links[m].ends]
<1>1. PICK n \in Nat : n = Len(links) /\ DOMAIN links = 1 .. n
  <2>1. \E S : links \in Seq(S)
    BY DEF Finished, BuilderInv
  <2> QED
    BY <2>1
<1>2. \A e : e \in L <=> \E m \in DOMAIN links : e = links[m].ends
  <2>1. L = {l.ends : l \in ToSet(links)}
    BY LinkEnds, GraphLinks
  <2> HIDE DEF L
  <2> QED
    BY <2>1 DEF ToSet
<1> HIDE DEF L
<1>3. \A m \in DOMAIN links, k \in DOMAIN links : links[m].ends = links[k].ends => m = k
  BY DEF Finished, GraphInv, EachOnce
<1>4. f \in Bijection(1 .. n, L)
  <2>1. f \in [1 .. n -> L] /\ \A e \in L : \E m \in 1 .. n : f[m] = e
    BY <1>1, <1>2
  <2>2. \A m, k \in 1 .. n : f[m] = f[k] => m = k
    BY <1>1, <1>3
  <2> HIDE DEF f
  <2> QED
    BY <2>1, <2>2, OneToOne
<1>5. IsFiniteSet(1 .. n) /\ Cardinality(1 .. n) = n
  <2>1. IsFiniteSet(1 .. n) /\ Cardinality(1 .. n) = IF 1 > n THEN 0 ELSE n - 1 + 1
    BY FS_Interval
  <2> QED
    BY <2>1
<1>6. Cardinality(L) = n
  BY <1>4, <1>5, FS_Bijection DEF ExistsBijection
<1> QED
  BY <1>1, <1>6 DEF L

\* Two paths never share an Agg by accident: the ToRs above which a link is.
LEMMA AffectedAreRight ==
    ASSUME Finished
    PROVE  AffectedTorsExact
<1>1. /\ Network!TorLinks = AllTorLinks /\ Network!CoreLinks = AllCoreLinks
      /\ Ends("TOR") = AllTors
  BY GraphLinks, SwitchEnds
<1>2. \A t, path : path \in Network!LivePaths(t, {}) <=>
        path \in AllTorLinks \X AllCoreLinks /\ path[1][1] = t /\ path[1][2] = path[2][1]
  BY <1>1 DEF Network!LivePaths
<1>3. \A path \in AllTorLinks \X AllCoreLinks : \A e :
        e \in ToSet(path) <=> e = path[1] \/ e = path[2]
  <2> SUFFICES ASSUME NEW path \in AllTorLinks \X AllCoreLinks
               PROVE  ToSet(path) = {path[1], path[2]}
    OBVIOUS
  <2>1. path = <<path[1], path[2]>>
    OBVIOUS
  <2>2. DOMAIN path = {1, 2}
    BY <2>1
  <2> QED
    BY <2>2 DEF ToSet
<1>4. \A l \in ToSet(links) : \E m \in DOMAIN links : l = links[m]
  BY DEF ToSet
<1>5. \A e \in AllTorLinks : \E p \in Indices(Pods(fabric)), i \in Indices(ToRs(fabric)),
            j \in Indices(Planes(fabric)) : e = <<Tor(p, i), Agg(p, j)>>
  BY DEF AllTorLinks, PodTorLinks
<1>6. \A e \in AllCoreLinks : \E p \in Indices(Pods(fabric)), j \in Indices(Planes(fabric)),
            c \in Indices(CoresPerPlane(fabric)) : e = <<Agg(p, j), Core(j, c)>>
  BY DEF AllCoreLinks, PodCoreLinks
<1>7. \A e \in AllTorLinks : e \notin AllCoreLinks
  <2> SUFFICES ASSUME NEW e \in AllTorLinks, e \in AllCoreLinks PROVE FALSE
    OBVIOUS
  <2>1. PICK p, i, j : e = <<Tor(p, i), Agg(p, j)>>
    BY <1>5
  <2>2. PICK q, k, c : e = <<Agg(q, k), Core(k, c)>>
    BY <1>6
  <2>3. Tor(p, i) = Agg(q, k)
    BY <2>1, <2>2
  <2> QED
    BY <2>3, SwitchesDiffer
<1>8. ASSUME NEW l \in ToSet(links),
             NEW p \in Indices(Pods(fabric)), NEW i \in Indices(ToRs(fabric)),
             NEW j \in Indices(Planes(fabric)),
             l.ends = <<Tor(p, i), Agg(p, j)>>, l.affected = {Tor(p, i)}
      PROVE  l.affected = {t \in Ends("TOR") :
                \E path \in Network!LivePaths(t, {}) : l.ends \in ToSet(path)}
  <2>1. l.ends \in AllTorLinks /\ l.ends[1] = Tor(p, i)
    BY <1>8 DEF AllTorLinks, PodTorLinks
  <2>2. ASSUME NEW t, NEW path \in Network!LivePaths(t, {}), l.ends \in ToSet(path)
        PROVE  t = Tor(p, i)
    <3>1. path \in AllTorLinks \X AllCoreLinks /\ path[1][1] = t
      BY <1>2, <2>2
    <3>2. l.ends = path[1]
      BY <1>3, <1>7, <2>1, <2>2, <3>1
    <3> QED
      BY <2>1, <3>1, <3>2
  <2>3. Tor(p, i) \in Ends("TOR")
    BY <1>1 DEF AllTors
  <2>4. \E path \in Network!LivePaths(Tor(p, i), {}) : l.ends \in ToSet(path)
    <3> DEFINE up == <<Agg(p, j), Core(j, 0)>>
               path == <<l.ends, up>>
    <3>1. up \in AllCoreLinks
      BY FinishedSizes DEF AllCoreLinks, PodCoreLinks
    <3>2. path \in AllTorLinks \X AllCoreLinks /\ path[1] = l.ends /\ path[2] = up
      BY <2>1, <3>1
    <3>3. path[1][1] = Tor(p, i) /\ path[1][2] = Agg(p, j) /\ path[2][1] = Agg(p, j)
      BY <1>8
    <3> HIDE DEF path
    <3>4. path \in Network!LivePaths(Tor(p, i), {}) /\ l.ends \in ToSet(path)
      BY <1>2, <1>3, <3>2, <3>3
    <3> QED
      BY <3>4
  <2> QED
    BY <1>8, <2>2, <2>3, <2>4
<1>9. ASSUME NEW l \in ToSet(links),
             NEW p \in Indices(Pods(fabric)), NEW j \in Indices(Planes(fabric)),
             NEW c \in Indices(CoresPerPlane(fabric)),
             l.ends = <<Agg(p, j), Core(j, c)>>, l.affected = PodTors(p)
      PROVE  l.affected = {t \in Ends("TOR") :
                \E path \in Network!LivePaths(t, {}) : l.ends \in ToSet(path)}
  <2>1. l.ends \in AllCoreLinks /\ l.ends[1] = Agg(p, j)
    BY <1>9 DEF AllCoreLinks, PodCoreLinks
  <2>2. ASSUME NEW t, NEW path \in Network!LivePaths(t, {}), l.ends \in ToSet(path)
        PROVE  t \in PodTors(p)
    <3>1. path \in AllTorLinks \X AllCoreLinks /\ path[1][1] = t /\ path[1][2] = path[2][1]
      BY <1>2, <2>2
    <3>2. l.ends = path[2]
      BY <1>3, <1>7, <2>1, <2>2, <3>1
    <3>3. PICK q \in Indices(Pods(fabric)), i \in Indices(ToRs(fabric)),
              k \in Indices(Planes(fabric)) : path[1] = <<Tor(q, i), Agg(q, k)>>
      BY <1>5, <3>1
    <3>4. t = Tor(q, i) /\ Agg(q, k) = Agg(p, j)
      BY <2>1, <3>1, <3>2, <3>3
    <3>5. q = p
      BY <3>4, SwitchesDiffer
    <3> QED
      BY <3>4, <3>5 DEF PodTors
  <2>3. PodTors(p) \subseteq Ends("TOR")
    BY <1>1 DEF AllTors, PodTors
  <2>4. ASSUME NEW t \in PodTors(p)
        PROVE  \E path \in Network!LivePaths(t, {}) : l.ends \in ToSet(path)
    <3>1. PICK i \in Indices(ToRs(fabric)) : t = Tor(p, i)
      BY DEF PodTors
    <3> DEFINE low == <<Tor(p, i), Agg(p, j)>>
               path == <<low, l.ends>>
    <3>2. low \in AllTorLinks
      BY DEF AllTorLinks, PodTorLinks
    <3>3. path \in AllTorLinks \X AllCoreLinks /\ path[1] = low /\ path[2] = l.ends
      BY <2>1, <3>2
    <3>4. path[1][1] = t /\ path[1][2] = Agg(p, j) /\ path[2][1] = Agg(p, j)
      BY <2>1, <3>1
    <3> HIDE DEF path
    <3>5. path \in Network!LivePaths(t, {}) /\ l.ends \in ToSet(path)
      BY <1>2, <1>3, <3>3, <3>4
    <3> QED
      BY <3>5
  <2> QED
    BY <1>9, <2>2, <2>3, <2>4
<1>10. ASSUME NEW l \in ToSet(links)
       PROVE  l.affected = {t \in Ends("TOR") :
                \E path \in Network!LivePaths(t, {}) : l.ends \in ToSet(path)}
  <2>1. PICK m \in DOMAIN links : l = links[m]
    BY <1>4
  <2>2. CASE \E p \in Indices(Pods(fabric)), i \in Indices(ToRs(fabric)),
                j \in Indices(Planes(fabric)) :
                l.ends = <<Tor(p, i), Agg(p, j)>> /\ l.affected = {Tor(p, i)}
    BY <1>8, <2>2
  <2>3. CASE \E p \in Indices(Pods(fabric)), j \in Indices(Planes(fabric)),
                c \in Indices(CoresPerPlane(fabric)) :
                l.ends = <<Agg(p, j), Core(j, c)>> /\ l.affected = PodTors(p)
    BY <1>9, <2>3
  <2> QED
    BY <2>1, <2>2, <2>3, FinishedLinks
<1> QED
  BY <1>10 DEF AffectedTorsExact

\* The instance counts like everyone.
LEMMA SameCardinality == \A S : Network!Cardinality(S) = Cardinality(S)
  BY DEF Network!Cardinality, Cardinality

\* The parts of the topology that the builder keeps a record of.
LEMMA TopologyParts ==
    LET T == Network!BuiltTopology
    IN  /\ T.aggSwitches = [t \in Ends("TOR") |->
                {a \in Ends("AGG") : <<t, a>> \in Network!TorLinks}]
        /\ T.activeUplinks = [a \in Ends("AGG") |->
                Cardinality({c \in Ends("CORE") : <<a, c>> \in Network!CoreLinks})]
        /\ T.podCapacity = [k \in Network!Pods \X {"TOR_AGG", "AGG_CORE"} |->
                1 * Cardinality({l \in Network!Links : Network!CapacityKey(l) = k})]
<1> DEFINE T == Network!BuiltTopology
<1>1. T.aggSwitches = [t \in Ends("TOR") |->
                {a \in Ends("AGG") : <<t, a>> \in Network!TorLinks}]
  BY DEF Network!BuiltTopology
<1>2. T.activeUplinks = [a \in Ends("AGG") |->
                Cardinality({c \in Ends("CORE") : <<a, c>> \in Network!CoreLinks})]
  BY SameCardinality DEF Network!BuiltTopology
<1>3. T.podCapacity = [k \in Network!Pods \X {"TOR_AGG", "AGG_CORE"} |->
                1 * Cardinality({l \in Network!Links : Network!CapacityKey(l) = k})]
  BY SameCardinality DEF Network!BuiltTopology
<1> QED
  BY <1>1, <1>2, <1>3

\* The neighbours of the ToRs and the uplinks of the Aggs.
LEMMA NeighboursAreRecorded ==
    ASSUME Finished
    PROVE  LET T == Network!BuiltTopology
           IN  /\ \A t \in Ends("TOR") :
                    T.aggSwitches[t] = built.aggSwitches[t.group * ToRs(fabric) + t.index + 1]
               /\ \A a \in Ends("AGG") :
                    T.activeUplinks[a] = built.uplinks[a.group * Planes(fabric) + a.index + 1]
<1> DEFINE T == Network!BuiltTopology
<1>1. Ends("TOR") = AllTors /\ Ends("AGG") = AllAggs /\ Ends("CORE") = AllCores
  BY SwitchEnds
<1>2. Network!TorLinks = AllTorLinks /\ Network!CoreLinks = AllCoreLinks
  BY GraphLinks
<1>3. /\ T.aggSwitches = [t \in AllTors |-> {a \in AllAggs : <<t, a>> \in AllTorLinks}]
      /\ T.activeUplinks = [a \in AllAggs |->
                Cardinality({c \in AllCores : <<a, c>> \in AllCoreLinks})]
  BY <1>1, <1>2, TopologyParts
<1> HIDE DEF T
<1>4. podsBuilt = Pods(fabric)
  BY FinishedSizes
<1>5. ASSUME NEW p \in Indices(Pods(fabric)), NEW i \in Indices(ToRs(fabric))
      PROVE  {a \in AllAggs : <<Tor(p, i), a>> \in AllTorLinks} = PodAggs(p)
  <2>1. ASSUME NEW a, <<Tor(p, i), a>> \in AllTorLinks
        PROVE  a \in PodAggs(p)
    <3>1. PICK q \in Indices(Pods(fabric)), k \in Indices(ToRs(fabric)),
               j \in Indices(Planes(fabric)) :
            <<Tor(p, i), a>> = <<Tor(q, k), Agg(q, j)>>
      BY <2>1 DEF AllTorLinks, PodTorLinks
    <3>2. Tor(p, i) = Tor(q, k) /\ a = Agg(q, j)
      BY <3>1
    <3>3. q = p
      BY <3>2, SwitchesDiffer
    <3> QED
      BY <3>2, <3>3 DEF PodAggs
  <2>2. ASSUME NEW a \in PodAggs(p)
        PROVE  a \in AllAggs /\ <<Tor(p, i), a>> \in AllTorLinks
    BY DEF PodAggs, AllAggs, AllTorLinks, PodTorLinks
  <2> QED
    BY <2>1, <2>2
<1>6. ASSUME NEW p \in Indices(Pods(fabric)), NEW j \in Indices(Planes(fabric))
      PROVE  {c \in AllCores : <<Agg(p, j), c>> \in AllCoreLinks}
                = {Core(j, c) : c \in Indices(CoresPerPlane(fabric))}
  <2>1. ASSUME NEW core, <<Agg(p, j), core>> \in AllCoreLinks
        PROVE  core \in {Core(j, c) : c \in Indices(CoresPerPlane(fabric))}
    <3>1. PICK q \in Indices(Pods(fabric)), k \in Indices(Planes(fabric)),
               c \in Indices(CoresPerPlane(fabric)) :
                <<Agg(p, j), core>> = <<Agg(q, k), Core(k, c)>>
      BY <2>1 DEF AllCoreLinks, PodCoreLinks
    <3>2. Agg(p, j) = Agg(q, k) /\ core = Core(k, c)
      BY <3>1
    <3>3. k = j
      BY <3>2, SwitchesDiffer
    <3> QED
      BY <3>2, <3>3
  <2>2. ASSUME NEW c \in Indices(CoresPerPlane(fabric))
        PROVE  Core(j, c) \in AllCores /\ <<Agg(p, j), Core(j, c)>> \in AllCoreLinks
    BY DEF AllCores, AllCoreLinks, PodCoreLinks
  <2> QED
    BY <2>1, <2>2
<1>7. ASSUME NEW t \in AllTors
      PROVE  T.aggSwitches[t] = built.aggSwitches[t.group * ToRs(fabric) + t.index + 1]
  <2>1. PICK p \in Indices(Pods(fabric)), i \in Indices(ToRs(fabric)) : t = Tor(p, i)
    BY DEF AllTors
  <2>2. T.aggSwitches[t] = PodAggs(p)
    BY <1>3, <1>5, <2>1
  <2>3. built.aggSwitches[p * ToRs(fabric) + i + 1] = PodAggs(p)
    BY <1>4 DEF Finished, RecordInv
  <2>4. t.group = p /\ t.index = i
    BY <2>1 DEF Tor
  <2> QED
    BY <2>2, <2>3, <2>4
<1>8. ASSUME NEW a \in AllAggs
      PROVE  T.activeUplinks[a] = built.uplinks[a.group * Planes(fabric) + a.index + 1]
  <2>1. PICK p \in Indices(Pods(fabric)), j \in Indices(Planes(fabric)) : a = Agg(p, j)
    BY DEF AllAggs
  <2>2. T.activeUplinks[a] = CoresPerPlane(fabric)
    <3>1. T.activeUplinks[a] = Cardinality({c \in AllCores : <<a, c>> \in AllCoreLinks})
      BY <1>3
    <3>2. {c \in AllCores : <<a, c>> \in AllCoreLinks}
            = {Core(j, c) : c \in Indices(CoresPerPlane(fabric))}
      BY <1>6, <2>1
    <3>3. Cardinality({Core(j, c) : c \in Indices(CoresPerPlane(fabric))}) = CoresPerPlane(fabric)
      BY UplinkCount
    <3> QED
      BY <3>1, <3>2, <3>3
  <2>3. built.uplinks[p * Planes(fabric) + j + 1] = CoresPerPlane(fabric)
    <3>1. built.uplinks[p * Planes(fabric) + j + 1] = NumConnected(j)
      BY <1>4 DEF Finished, RecordInv
    <3>2. NumConnected(j) = CoresPerPlane(fabric)
      BY FinishedSizes
    <3> QED
      BY <3>1, <3>2
  <2>4. a.group = p /\ a.index = j
    BY <2>1 DEF Agg
  <2> QED
    BY <2>2, <2>3, <2>4
<1> QED
  BY <1>1, <1>7, <1>8 DEF T

\* The capacity of the pods.
LEMMA CapacitiesAreRecorded ==
    ASSUME Finished
    PROVE  LET T == Network!BuiltTopology
           IN  \A p \in 1 .. Pods(fabric) :
                /\ T.podCapacity[<<p - 1, "TOR_AGG">>] = built.torCapacity[p]
                /\ T.podCapacity[<<p - 1, "AGG_CORE">>] = built.coreCapacity[p]
<1> DEFINE T == Network!BuiltTopology
           Key(l) == Network!CapacityKey(l)
           P == Network!Pods
<1>1. Ends("TOR") = AllTors /\ Ends("AGG") = AllAggs
  BY SwitchEnds
<1>2. /\ Network!TorLinks = AllTorLinks /\ Network!CoreLinks = AllCoreLinks
      /\ Network!Links = AllTorLinks \cup AllCoreLinks
  BY GraphLinks
<1>3. T.podCapacity = [k \in P \X {"TOR_AGG", "AGG_CORE"} |->
                1 * Cardinality({l \in AllTorLinks \cup AllCoreLinks : Key(l) = k})]
  BY <1>2, TopologyParts
<1>4. P = {sw.group : sw \in AllTors \cup AllAggs}
  BY <1>1 DEF Network!Pods
<1>5. \A l \in AllTorLinks \cup AllCoreLinks :
        l[1] \in AllTors \cup AllAggs =>
            Key(l) = <<l[1].group, IF l \in AllTorLinks THEN "TOR_AGG" ELSE "AGG_CORE">>
  BY <1>1, <1>2 DEF Network!CapacityKey, Network!PodOfLink, Network!LinkType
<1> HIDE DEF T, Key, P
<1>6. /\ \A p, i : Tor(p, i).group = p
      /\ \A p, j : Agg(p, j).group = p
  BY DEF Tor, Agg
<1>7. ASSUME NEW l \in AllTorLinks
      PROVE  \E p \in Indices(Pods(fabric)) : l \in PodTorLinks(p) /\ Key(l) = <<p, "TOR_AGG">>
  <2>1. PICK p \in Indices(Pods(fabric)), i \in Indices(ToRs(fabric)),
             j \in Indices(Planes(fabric)) :
            l = <<Tor(p, i), Agg(p, j)>>
    BY DEF AllTorLinks, PodTorLinks
  <2>2. l[1] = Tor(p, i) /\ Tor(p, i) \in AllTors
    BY <2>1 DEF AllTors
  <2>3. Key(l) = <<p, "TOR_AGG">>
    BY <1>5, <1>6, <2>2
  <2> QED
    BY <2>1, <2>3 DEF PodTorLinks
<1>8. ASSUME NEW l \in AllCoreLinks
      PROVE  \E p \in Indices(Pods(fabric)) : l \in PodCoreLinks(p) /\ Key(l) = <<p, "AGG_CORE">>
  <2>1. PICK p \in Indices(Pods(fabric)), j \in Indices(Planes(fabric)),
             c \in Indices(CoresPerPlane(fabric)) :
            l = <<Agg(p, j), Core(j, c)>>
    BY DEF AllCoreLinks, PodCoreLinks
  <2>2. l[1] = Agg(p, j) /\ Agg(p, j) \in AllAggs
    BY <2>1 DEF AllAggs
  <2>3. l \notin AllTorLinks
    <3> SUFFICES ASSUME l \in AllTorLinks PROVE FALSE
      OBVIOUS
    <3>1. PICK q, i, k : l = <<Tor(q, i), Agg(q, k)>>
      BY DEF AllTorLinks, PodTorLinks
    <3>2. Tor(q, i) = Agg(p, j)
      BY <2>2, <3>1
    <3> QED
      BY <3>2, SwitchesDiffer
  <2>4. Key(l) = <<p, "AGG_CORE">>
    BY <1>5, <1>6, <2>2, <2>3
  <2> QED
    BY <2>1, <2>4 DEF PodCoreLinks
<1>9. ASSUME NEW p \in Indices(Pods(fabric))
      PROVE  /\ {l \in AllTorLinks \cup AllCoreLinks : Key(l) = <<p, "TOR_AGG">>} = PodTorLinks(p)
             /\ {l \in AllTorLinks \cup AllCoreLinks : Key(l) = <<p, "AGG_CORE">>} = PodCoreLinks(p)
  <2>1. PodTorLinks(p) \subseteq AllTorLinks /\ PodCoreLinks(p) \subseteq AllCoreLinks
    BY DEF AllTorLinks, AllCoreLinks
  <2>2. \A q, r, a, b : <<q, a>> = <<r, b>> => q = r /\ a = b
    OBVIOUS
  <2>3. \A l \in PodTorLinks(p) : Key(l) = <<p, "TOR_AGG">>
    <3> SUFFICES ASSUME NEW l \in PodTorLinks(p) PROVE Key(l) = <<p, "TOR_AGG">>
      OBVIOUS
    <3>1. PICK q : l \in PodTorLinks(q) /\ Key(l) = <<q, "TOR_AGG">>
      BY <1>7, <2>1
    <3>2. PICK i, j : l = <<Tor(p, i), Agg(p, j)>>
      BY DEF PodTorLinks
    <3>3. PICK k, n : l = <<Tor(q, k), Agg(q, n)>>
      BY <3>1 DEF PodTorLinks
    <3>4. Tor(p, i) = Tor(q, k)
      BY <3>2, <3>3
    <3>5. p = q
      BY <3>4, SwitchesDiffer
    <3> QED
      BY <3>1, <3>5
  <2>4. \A l \in PodCoreLinks(p) : Key(l) = <<p, "AGG_CORE">>
    <3> SUFFICES ASSUME NEW l \in PodCoreLinks(p) PROVE Key(l) = <<p, "AGG_CORE">>
      OBVIOUS
    <3>1. PICK q : l \in PodCoreLinks(q) /\ Key(l) = <<q, "AGG_CORE">>
      BY <1>8, <2>1
    <3>2. PICK j, c : l = <<Agg(p, j), Core(j, c)>>
      BY DEF PodCoreLinks
    <3>3. PICK k, n : l = <<Agg(q, k), Core(k, n)>>
      BY <3>1 DEF PodCoreLinks
    <3>4. Agg(p, j) = Agg(q, k)
      BY <3>2, <3>3
    <3>5. p = q
      BY <3>4, SwitchesDiffer
    <3> QED
      BY <3>1, <3>5
  <2>5. \A l \in AllTorLinks : Key(l) # <<p, "AGG_CORE">>
        /\ (Key(l) = <<p, "TOR_AGG">> => l \in PodTorLinks(p))
    <3> SUFFICES ASSUME NEW l \in AllTorLinks
                 PROVE  Key(l) # <<p, "AGG_CORE">> /\ (Key(l) = <<p, "TOR_AGG">> => l \in PodTorLinks(p))
      OBVIOUS
    <3>1. PICK q : l \in PodTorLinks(q) /\ Key(l) = <<q, "TOR_AGG">>
      BY <1>7
    <3>2. "TOR_AGG" # "AGG_CORE"
      OBVIOUS
    <3> QED
      BY <2>2, <3>1, <3>2, Zenon
  <2>6. \A l \in AllCoreLinks : Key(l) # <<p, "TOR_AGG">>
        /\ (Key(l) = <<p, "AGG_CORE">> => l \in PodCoreLinks(p))
    <3> SUFFICES ASSUME NEW l \in AllCoreLinks
                 PROVE  Key(l) # <<p, "TOR_AGG">> /\ (Key(l) = <<p, "AGG_CORE">> => l \in PodCoreLinks(p))
      OBVIOUS
    <3>1. PICK q : l \in PodCoreLinks(q) /\ Key(l) = <<q, "AGG_CORE">>
      BY <1>8
    <3>2. "TOR_AGG" # "AGG_CORE"
      OBVIOUS
    <3> QED
      BY <2>2, <3>1, <3>2, Zenon
  <2> QED
    BY <2>1, <2>3, <2>4, <2>5, <2>6
<1>10. ASSUME NEW p \in 1 .. Pods(fabric)
       PROVE  /\ T.podCapacity[<<p - 1, "TOR_AGG">>] = built.torCapacity[p]
              /\ T.podCapacity[<<p - 1, "AGG_CORE">>] = built.coreCapacity[p]
  <2>1. PICK q : q = p - 1
    OBVIOUS
  <2>2. q \in Indices(Pods(fabric))
    BY <2>1, FinishedSizes DEF Indices
  <2>3. q \in P
    <3>1. Tor(q, 0) \in AllTors /\ Tor(q, 0).group = q
      BY <1>6, <2>2, FinishedSizes DEF AllTors
    <3> QED
      BY <1>4, <3>1
  <2>4. /\ built.torCapacity[p] = ToRs(fabric) * Planes(fabric)
        /\ built.coreCapacity[p] = Planes(fabric) * CoresPerPlane(fabric)
    BY FinishedSizes DEF Finished, RecordInv
  <2>5. /\ T.podCapacity[<<q, "TOR_AGG">>] = 1 * Cardinality(PodTorLinks(q))
        /\ T.podCapacity[<<q, "AGG_CORE">>] = 1 * Cardinality(PodCoreLinks(q))
    BY <1>3, <1>9, <2>2, <2>3
  <2>6. /\ Cardinality(PodTorLinks(q)) = ToRs(fabric) * Planes(fabric)
        /\ Cardinality(PodCoreLinks(q)) = Planes(fabric) * CoresPerPlane(fabric)
    BY PodLinkCounts
  <2>7. ToRs(fabric) * Planes(fabric) \in Nat /\ Planes(fabric) * CoresPerPlane(fabric) \in Nat
    BY FinishedSizes
  <2>8. \A n \in Nat : 1 * n = n
    OBVIOUS
  <2> QED
    BY <2>1, <2>4, <2>5, <2>6, <2>7, <2>8
<1> QED
  BY <1>10 DEF T

\* How many numbers of a set are less.
Rank(L, i) == Cardinality({j \in L : j < i})

\* Numbers of a set have different ranks, less than its size.
LEMMA RanksDiffer ==
    ASSUME NEW L \in SUBSET Nat, IsFiniteSet(L)
    PROVE  /\ \A i \in L : Rank(L, i) \in Nat /\ Rank(L, i) < Cardinality(L)
           /\ \A i, j \in L : Rank(L, i) = Rank(L, j) => i = j
<1> DEFINE Below(i) == {j \in L : j < i}
<1>1. \A i : Rank(L, i) = Cardinality(Below(i))
  BY DEF Rank
<1>2. \A i \in L : IsFiniteSet(Below(i)) /\ Below(i) \in SUBSET L
  BY FS_Subset
<1>3. ASSUME NEW S, IsFiniteSet(S), NEW T \in SUBSET S, T # S
      PROVE  Cardinality(T) \in Nat /\ Cardinality(T) < Cardinality(S)
  <2>1. IsFiniteSet(T) /\ Cardinality(T) <= Cardinality(S) /\ Cardinality(S) # Cardinality(T)
    BY <1>3, FS_Subset
  <2>2. Cardinality(T) \in Nat /\ Cardinality(S) \in Nat
    BY <1>3, <2>1, FS_CardinalityType
  <2> QED
    BY <2>1, <2>2
<1>4. \A i \in L : Rank(L, i) \in Nat /\ Rank(L, i) < Cardinality(L)
  <2> SUFFICES ASSUME NEW i \in L PROVE Rank(L, i) \in Nat /\ Rank(L, i) < Cardinality(L)
    OBVIOUS
  <2>1. i \notin Below(i)
    OBVIOUS
  <2> HIDE DEF Below
  <2>2. Below(i) # L
    BY <2>1
  <2> QED
    BY <1>1, <1>2, <1>3, <2>2
<1>5. ASSUME NEW i \in L, NEW j \in L, i < j
      PROVE  Rank(L, i) < Rank(L, j)
  <2>0. \A x \in L : x \in Nat
    OBVIOUS
  <2>1a. i \in Below(j) /\ i \notin Below(i)
    BY <1>5, <2>0
  <2>1b. \A x \in L : x < i => x < j
    BY <1>5, <2>0
  <2>1. Below(i) \in SUBSET Below(j) /\ i \in Below(j) /\ i \notin Below(i)
    BY <2>1a, <2>1b
  <2> HIDE DEF Below
  <2>2. Below(i) # Below(j)
    BY <2>1
  <2> QED
    BY <1>1, <1>2, <1>3, <2>1, <2>2
<1>6. ASSUME NEW i \in L, NEW j \in L, Rank(L, i) = Rank(L, j)
      PROVE  i = j
  <2>1. i \in Nat /\ j \in Nat
    OBVIOUS
  <2>2. Rank(L, i) \in Nat
    BY <1>4
  <2>3. ~(i < j) /\ ~(j < i)
    BY <1>5, <1>6, <2>2
  <2> QED
    BY <2>1, <2>3
<1> QED
  BY <1>4, <1>6

\* No more than the places there are.
LEMMA FitsInto ==
    ASSUME NEW S, NEW n \in Nat, NEW f \in [S -> 0 .. n - 1],
           \A x, y \in S : f[x] = f[y] => x = y
    PROVE  IsFiniteSet(S) /\ Cardinality(S) <= n
<1>1. f \in Injection(S, 0 .. n - 1)
  BY DEF Injection, IsInjective
<1>2. IsFiniteSet(0 .. n - 1) /\ Cardinality(0 .. n - 1) = IF 0 > n - 1 THEN 0 ELSE (n - 1) - 0 + 1
  BY FS_Interval
<1>3. IsFiniteSet(S) /\ Cardinality(S) <= Cardinality(0 .. n - 1)
  BY <1>1, <1>2, FS_Injection
<1> QED
  BY <1>2, <1>3

\* Links dealt out to the pipes one after the other.
LEMMA PipesFit ==
    ASSUME NEW L \in SUBSET Nat, IsFiniteSet(L), NEW ports \in Nat, Cardinality(L) <= ports,
           NEW N \in Nat \ {0}, NEW p \in 0 .. N - 1
    PROVE  Cardinality({i \in L : Rank(L, i) % N = p}) <= (ports + N - 1) \div N
<1> DEFINE S == {i \in L : Rank(L, i) % N = p}
           Q == (ports + N - 1) \div N
           f == [i \in S |-> Rank(L, i) \div N]
<1>1. Q \in Nat /\ ports <= N * Q
  <2>1. ports + N - 1 \in Nat
    OBVIOUS
  <2>2. Q \in Nat /\ (ports + N - 1) % N \in 0 .. N - 1
        /\ ports + N - 1 = N * Q + ((ports + N - 1) % N)
    BY <2>1
  <2> HIDE DEF Q
  <2>3. PICK r \in 0 .. N - 1 : ports + N - 1 = N * Q + r
    BY <2>2
  <2>4. N * Q \in Nat
    BY <2>2
  <2> QED
    BY <2>2, <2>3, <2>4
<1> HIDE DEF Q
<1>2. \A i \in L : Rank(L, i) \in Nat /\ Rank(L, i) < ports
  <2>1. Cardinality(L) \in Nat
    BY FS_CardinalityType
  <2> QED
    BY <2>1, RanksDiffer
<1>3. ASSUME NEW i \in S
      PROVE  Rank(L, i) = N * (Rank(L, i) \div N) + p /\ Rank(L, i) \div N \in 0 .. Q - 1
  <2>1. PICK x \in Nat : x = Rank(L, i) /\ x < ports /\ x % N = p
    BY <1>2
  <2>2. PICK d \in Nat : d = x \div N /\ x = N * d + p
    BY <2>1
  <2>3. ~(d >= Q)
    <3> SUFFICES ASSUME d >= Q PROVE FALSE
      OBVIOUS
    <3>1. d - Q \in Nat
      BY <1>1, <2>2
    <3>2. N * (d - Q) \in Nat
      BY <3>1
    <3>3. N * (d - Q) = N * d - N * Q /\ N * d \in Int /\ N * Q \in Int
      BY <1>1, <2>2
    <3> QED
      BY <1>1, <2>1, <2>2, <3>2, <3>3
  <2>4. d \in 0 .. Q - 1
    BY <1>1, <2>2, <2>3
  <2> QED
    BY <2>1, <2>2, <2>4
<1>4. f \in [S -> 0 .. Q - 1]
  BY <1>3
<1>5. ASSUME NEW i \in S, NEW j \in S, f[i] = f[j]
      PROVE  i = j
  <2>1. Rank(L, i) \div N = Rank(L, j) \div N
    BY <1>5
  <2>2. Rank(L, i) = Rank(L, j)
    BY <1>3, <2>1
  <2>3. i \in L /\ j \in L
    OBVIOUS
  <2> QED
    BY <2>2, <2>3, RanksDiffer
<1> HIDE DEF f, S
<1>6. Cardinality(S) <= Q
  BY <1>1, <1>4, <1>5, FitsInto
<1> QED
  BY <1>6 DEF S, Q

\* No switch has more links than ports.
LEMMA PortsSuffice ==
    ASSUME Finished, NEW sw \in AllTors \cup AllAggs \cup AllCores
    PROVE  /\ PortsOf(sw) \in Nat \ {0} /\ NumPipes(sw) \in Nat \ {0}
           /\ IsFiniteSet(LinksOf(sw)) /\ Cardinality(LinksOf(sw)) <= PortsOf(sw)
<1> DEFINE tors == ToRs(fabric)
           aggs == Planes(fabric)
           cores == CoresPerPlane(fabric)
           pods == Pods(fabric)
<1>1. /\ tors \in Nat \ {0} /\ aggs \in Nat \ {0} /\ cores \in Nat \ {0} /\ pods \in Nat \ {0}
      /\ fabric \in Fabrics /\ MaxPortsPerPipe \in Nat \ {0}
  BY FinishedSizes, BuilderAssumption DEF Finished, BuilderInv
<1>2. /\ sw \in AllTors => sw.type = "TOR"
      /\ sw \in AllAggs => sw.type = "AGG"
      /\ sw \in AllCores => sw.type = "CORE"
  BY DEF AllTors, AllAggs, AllCores, Tor, Agg, Core
<1>3. /\ PortsOf(sw) \in Nat \ {0}
      /\ sw \in AllTors => aggs <= PortsOf(sw)
      /\ sw \in AllAggs => tors + cores <= PortsOf(sw)
      /\ sw \in AllCores => pods <= PortsOf(sw)
  <2>1. CASE fabric \in [type : {"FatTree"}, k : {n \in Nat \ {0} : n % 2 = 0}]
    <3>1. fabric.type = "FatTree" /\ fabric.k \in Nat \ {0} /\ fabric.k % 2 = 0
      BY <2>1
    <3>2. fabric.k = 2 * (fabric.k \div 2) /\ fabric.k \div 2 \in Nat
      BY <3>1
    <3>3. /\ tors = fabric.k \div 2 /\ aggs = fabric.k \div 2 /\ cores = fabric.k \div 2
          /\ pods = fabric.k /\ PortsOf(sw) = fabric.k
      BY <3>1 DEF ToRs, Planes, CoresPerPlane, Pods, PortsOf
    <3> HIDE DEF tors, aggs, cores, pods
    <3> QED
      BY <3>1, <3>2, <3>3
  <2>2. CASE fabric \in [type : {"FbFabric"}, pods : Nat \ {0}, tors : Nat \ {0},
                         oversubscription : Nat \ {0}, deployment : 1 .. 100]
    <3>1. /\ fabric.type = "FbFabric" /\ fabric.type # "FatTree"
          /\ fabric.pods \in Nat \ {0} /\ fabric.tors \in Nat \ {0}
      BY <2>2
    <3>2. tors = fabric.tors /\ aggs = 4 /\ pods = fabric.pods
      BY <3>1 DEF ToRs, Planes, Pods
    <3>3. /\ sw.type = "TOR" => PortsOf(sw) = 4
          /\ sw.type = "AGG" => PortsOf(sw) = fabric.tors + cores
          /\ sw.type = "CORE" => PortsOf(sw) = fabric.pods
      BY <3>1 DEF PortsOf
    <3> HIDE DEF tors, aggs, cores, pods
    <3> QED
      BY <1>1, <1>2, <3>1, <3>2, <3>3
  <2> QED
    BY <1>1, <2>1, <2>2, BuilderAssumption
<1>4. NumPipes(sw) \in Nat \ {0}
  <2>1. PICK n \in Nat \ {0} : n = PortsOf(sw)
    BY <1>3
  <2>2. (n + MaxPortsPerPipe - 1) \div MaxPortsPerPipe \in Nat \ {0}
    <3>1. n + MaxPortsPerPipe - 1 \in Nat /\ n + MaxPortsPerPipe - 1 >= MaxPortsPerPipe
      BY <1>1
    <3>2. PICK d \in Nat, r \in 0 .. MaxPortsPerPipe - 1 :
            /\ d = (n + MaxPortsPerPipe - 1) \div MaxPortsPerPipe
            /\ n + MaxPortsPerPipe - 1 = MaxPortsPerPipe * d + r
      BY <1>1, <3>1
    <3>3. d # 0
      BY <1>1, <3>1, <3>2
    <3> QED
      BY <3>2, <3>3
  <2> QED
    BY <2>1, <2>2 DEF NumPipes
<1> HIDE DEF tors, aggs, cores, pods
<1>5. \A m \in DOMAIN links, k \in DOMAIN links : links[m].ends = links[k].ends => m = k
  BY DEF Finished, GraphInv, EachOnce
<1>6. ASSUME NEW f, NEW n \in Nat, n <= PortsOf(sw), f \in [LinksOf(sw) -> 0 .. n - 1],
             \A x, y \in LinksOf(sw) : f[x] = f[y] => links[x].ends = links[y].ends
      PROVE  IsFiniteSet(LinksOf(sw)) /\ Cardinality(LinksOf(sw)) <= PortsOf(sw)
  <2>1. \A x, y \in LinksOf(sw) : f[x] = f[y] => x = y
    BY <1>5, <1>6 DEF LinksOf
  <2>2. IsFiniteSet(LinksOf(sw)) /\ Cardinality(LinksOf(sw)) <= n
    BY <1>6, <2>1, FitsInto
  <2>3. Cardinality(LinksOf(sw)) \in Nat
    BY <2>2, FS_CardinalityType
  <2> QED
    BY <1>3, <1>6, <2>2, <2>3
<1>7. \A m \in LinksOf(sw) :
        /\ m \in DOMAIN links
        /\ \/ \E p \in Indices(pods), i \in Indices(tors), j \in Indices(aggs) :
                links[m].ends = <<Tor(p, i), Agg(p, j)>> /\ (sw = Tor(p, i) \/ sw = Agg(p, j))
           \/ \E p \in Indices(pods), j \in Indices(aggs), c \in Indices(cores) :
                links[m].ends = <<Agg(p, j), Core(j, c)>> /\ (sw = Agg(p, j) \/ sw = Core(j, c))
  <2> SUFFICES ASSUME NEW m \in DOMAIN links, sw = links[m].ends[1] \/ sw = links[m].ends[2]
               PROVE  \/ \E p \in Indices(pods), i \in Indices(tors), j \in Indices(aggs) :
                            links[m].ends = <<Tor(p, i), Agg(p, j)>> /\ (sw = Tor(p, i) \/ sw = Agg(p, j))
                      \/ \E p \in Indices(pods), j \in Indices(aggs), c \in Indices(cores) :
                            links[m].ends = <<Agg(p, j), Core(j, c)>> /\ (sw = Agg(p, j) \/ sw = Core(j, c))
    BY DEF LinksOf
  <2>1. CASE \E p \in Indices(pods), i \in Indices(tors), j \in Indices(aggs) :
                links[m].ends = <<Tor(p, i), Agg(p, j)>>
    BY <2>1
  <2>2. CASE \E p \in Indices(pods), j \in Indices(aggs), c \in Indices(cores) :
                links[m].ends = <<Agg(p, j), Core(j, c)>>
    BY <2>2
  <2> QED
    BY <2>1, <2>2, FinishedLinks DEF pods, tors, aggs, cores
<1>8. /\ \A p, i : Tor(p, i).index = i
      /\ \A p, j : Agg(p, j).index = j /\ Agg(p, j).group = p
      /\ \A j, c : Core(j, c).index = c
  BY DEF Tor, Agg, Core
<1>9. ASSUME sw \in AllTors
      PROVE  IsFiniteSet(LinksOf(sw)) /\ Cardinality(LinksOf(sw)) <= PortsOf(sw)
  <2>1. PICK q, k : sw = Tor(q, k)
    BY <1>9 DEF AllTors
  <2>2. \A m \in LinksOf(sw) : \E j \in Indices(aggs) : links[m].ends = <<sw, Agg(q, j)>>
    <3> SUFFICES ASSUME NEW m \in LinksOf(sw)
                 PROVE  \E j \in Indices(aggs) : links[m].ends = <<sw, Agg(q, j)>>
      OBVIOUS
    <3>1. \A p, j, c : sw # Agg(p, j) /\ sw # Core(j, c)
      BY <2>1, SwitchesDiffer
    <3>2. PICK p \in Indices(pods), i \in Indices(tors), j \in Indices(aggs) :
            links[m].ends = <<Tor(p, i), Agg(p, j)>> /\ sw = Tor(p, i)
      BY <1>7, <3>1
    <3>3. Tor(p, i) = Tor(q, k)
      BY <2>1, <3>2
    <3>4. p = q
      BY <3>3, SwitchesDiffer
    <3> QED
      BY <3>2, <3>4
  <2> DEFINE f == [m \in LinksOf(sw) |-> links[m].ends[2].index]
  <2>3. \A m \in LinksOf(sw) : f[m] \in Indices(aggs) /\ links[m].ends = <<sw, Agg(q, f[m])>>
    BY <1>8, <2>2
  <2>4. f \in [LinksOf(sw) -> 0 .. aggs - 1]
    BY <2>3 DEF Indices
  <2> HIDE DEF f
  <2>5. \A x, y \in LinksOf(sw) : f[x] = f[y] => links[x].ends = links[y].ends
    BY <2>3
  <2>6. aggs \in Nat /\ aggs <= PortsOf(sw)
    BY <1>1, <1>3, <1>9
  <2> QED
    BY <1>6, <2>4, <2>5, <2>6
<1>10. ASSUME sw \in AllCores
       PROVE  IsFiniteSet(LinksOf(sw)) /\ Cardinality(LinksOf(sw)) <= PortsOf(sw)
  <2>1. PICK k, d : sw = Core(k, d)
    BY <1>10 DEF AllCores
  <2>2. \A m \in LinksOf(sw) : \E p \in Indices(pods) : links[m].ends = <<Agg(p, k), sw>>
    <3> SUFFICES ASSUME NEW m \in LinksOf(sw)
                 PROVE  \E p \in Indices(pods) : links[m].ends = <<Agg(p, k), sw>>
      OBVIOUS
    <3>1. \A p, i : sw # Tor(p, i) /\ sw # Agg(p, i)
      BY <2>1, SwitchesDiffer
    <3>2. PICK p \in Indices(pods), j \in Indices(aggs), c \in Indices(cores) :
            links[m].ends = <<Agg(p, j), Core(j, c)>> /\ sw = Core(j, c)
      BY <1>7, <3>1
    <3>3. Core(j, c) = Core(k, d)
      BY <2>1, <3>2
    <3>4. j = k
      BY <3>3, SwitchesDiffer
    <3> QED
      BY <3>2, <3>4
  <2> DEFINE f == [m \in LinksOf(sw) |-> links[m].ends[1].group]
  <2>3. \A m \in LinksOf(sw) : f[m] \in Indices(pods) /\ links[m].ends = <<Agg(f[m], k), sw>>
    BY <1>8, <2>2
  <2>4. f \in [LinksOf(sw) -> 0 .. pods - 1]
    BY <2>3 DEF Indices
  <2> HIDE DEF f
  <2>5. \A x, y \in LinksOf(sw) : f[x] = f[y] => links[x].ends = links[y].ends
    BY <2>3
  <2>6. pods \in Nat /\ pods <= PortsOf(sw)
    BY <1>1, <1>3, <1>10
  <2> QED
    BY <1>6, <2>4, <2>5, <2>6
<1>11. ASSUME sw \in AllAggs
       PROVE  IsFiniteSet(LinksOf(sw)) /\ Cardinality(LinksOf(sw)) <= PortsOf(sw)
  <2>1. PICK q, k : sw = Agg(q, k)
    BY <1>11 DEF AllAggs
  <2> DEFINE Below(m) == links[m].ends[2] = sw
             f == [m \in LinksOf(sw) |-> IF Below(m) THEN links[m].ends[1].index
                                         ELSE tors + links[m].ends[2].index]
  <2>2. ASSUME NEW m \in LinksOf(sw)
        PROVE  \/ /\ f[m] \in Indices(tors) /\ links[m].ends = <<Tor(q, f[m]), sw>>
               \/ \E c \in Indices(cores) : f[m] = tors + c /\ links[m].ends = <<sw, Core(k, c)>>
    <3>1. CASE \E p \in Indices(pods), i \in Indices(tors), j \in Indices(aggs) :
                links[m].ends = <<Tor(p, i), Agg(p, j)>> /\ (sw = Tor(p, i) \/ sw = Agg(p, j))
      <4>1. PICK p \in Indices(pods), i \in Indices(tors), j \in Indices(aggs) :
                links[m].ends = <<Tor(p, i), Agg(p, j)>> /\ (sw = Tor(p, i) \/ sw = Agg(p, j))
        BY <3>1
      <4>2. sw = Agg(p, j) /\ p = q
        BY <2>1, <4>1, SwitchesDiffer
      <4>3. links[m].ends = <<Tor(q, i), sw>> /\ Below(m)
        BY <4>1, <4>2
      <4>4. links[m].ends[1].index = i
        BY <1>8, <4>3
      <4>5. f[m] = i
        BY <4>3, <4>4
      <4> HIDE DEF f, Below
      <4> QED
        BY <4>1, <4>3, <4>5
    <3>2. CASE \E p \in Indices(pods), j \in Indices(aggs), c \in Indices(cores) :
                links[m].ends = <<Agg(p, j), Core(j, c)>> /\ (sw = Agg(p, j) \/ sw = Core(j, c))
      <4>1. PICK p \in Indices(pods), j \in Indices(aggs), c \in Indices(cores) :
                links[m].ends = <<Agg(p, j), Core(j, c)>> /\ (sw = Agg(p, j) \/ sw = Core(j, c))
        BY <3>2
      <4>2. sw = Agg(p, j) /\ j = k /\ sw # Core(j, c)
        BY <2>1, <4>1, SwitchesDiffer
      <4>3. links[m].ends = <<sw, Core(k, c)>> /\ ~Below(m)
        BY <4>1, <4>2
      <4>4. links[m].ends[2].index = c
        BY <1>8, <4>3
      <4>5. f[m] = tors + c
        BY <4>3, <4>4
      <4> HIDE DEF f, Below
      <4> QED
        BY <4>3, <4>5
    <3> QED
      BY <1>7, <3>1, <3>2
  <2> HIDE DEF Below
  <2>3. DOMAIN f = LinksOf(sw) /\ f = [m \in LinksOf(sw) |-> f[m]]
    OBVIOUS
  <2> HIDE DEF f
  <2>4. \A m \in LinksOf(sw) : f[m] \in 0 .. (tors + cores) - 1
    <3> SUFFICES ASSUME NEW m \in LinksOf(sw) PROVE f[m] \in 0 .. (tors + cores) - 1
      OBVIOUS
    <3>1. f[m] \in Indices(tors) \/ \E c \in Indices(cores) : f[m] = tors + c
      BY <2>2
    <3> QED
      BY <1>1, <3>1 DEF Indices
  <2>5. f \in [LinksOf(sw) -> 0 .. (tors + cores) - 1]
    BY <2>3, <2>4
  <2>6. ASSUME NEW x \in LinksOf(sw), NEW y \in LinksOf(sw), f[x] = f[y]
        PROVE  links[x].ends = links[y].ends
    <3>1. CASE f[x] \in Indices(tors)
      <4>1. ~(\E c \in Indices(cores) : f[x] = tors + c)
        BY <1>1, <3>1 DEF Indices
      <4>2. links[x].ends = <<Tor(q, f[x]), sw>> /\ links[y].ends = <<Tor(q, f[y]), sw>>
        BY <2>2, <2>6, <4>1
      <4> QED
        BY <2>6, <4>2
    <3>2. CASE f[x] \notin Indices(tors)
      <4>1. PICK c \in Indices(cores) : f[x] = tors + c /\ links[x].ends = <<sw, Core(k, c)>>
        BY <2>2, <3>2
      <4>2. PICK d \in Indices(cores) : f[y] = tors + d /\ links[y].ends = <<sw, Core(k, d)>>
        BY <2>2, <2>6, <3>2
      <4>3. c \in Int /\ d \in Int /\ tors \in Int
        BY <1>1, <4>1, <4>2 DEF Indices
      <4>4. tors + c = tors + d
        BY <2>6, <4>1, <4>2
      <4>5. c = d
        BY <4>3, <4>4
      <4> QED
        BY <4>1, <4>2, <4>5
    <3> QED
      BY <3>1, <3>2
  <2>7. tors + cores \in Nat /\ tors + cores <= PortsOf(sw)
    BY <1>1, <1>3, <1>11
  <2> QED
    BY <1>6, <2>5, <2>6, <2>7
<1> QED
  BY <1>3, <1>4, <1>9, <1>10, <1>11

\* Every link goes to a pipe that there is, and no pipe is overfull.
LEMMA PipesAreThere ==
    ASSUME Finished
    PROVE  PipesExist
<1>1. Ends("TOR") \cup Ends("AGG") \cup Ends("CORE") = AllTors \cup AllAggs \cup AllCores
  BY SwitchEnds
<1>2. ASSUME NEW sw \in AllTors \cup AllAggs \cup AllCores
      PROVE  /\ \A i \in LinksOf(sw) : PipeId(sw, i) \in 0 .. NumPipes(sw) - 1
             /\ \A p \in 0 .. NumPipes(sw) - 1 :
                Cardinality({i \in LinksOf(sw) : PipeId(sw, i) = p}) <= PortsPerPipe(sw)
  <2>1. PICK L, N, ports : L = LinksOf(sw) /\ N = NumPipes(sw) /\ ports = PortsOf(sw)
    OBVIOUS
  <2>2. /\ ports \in Nat /\ N \in Nat \ {0} /\ IsFiniteSet(L) /\ Cardinality(L) <= ports
    BY <2>1, PortsSuffice
  <2>3. L \in SUBSET Nat
    <3>1. \E S : links \in Seq(S)
      BY DEF Finished, BuilderInv
    <3>2. DOMAIN links \in SUBSET Nat
      BY <3>1
    <3> QED
      BY <2>1, <3>2 DEF LinksOf
  <2>4. \A i : PipeId(sw, i) = Rank(L, i) % N
    BY <2>1 DEF PipeId, LinkIdx, Rank
  <2>5. PortsPerPipe(sw) = (ports + N - 1) \div N
    BY <2>1 DEF PortsPerPipe
  <2>6. \A i \in L : PipeId(sw, i) \in 0 .. N - 1
    <3>1. \A i \in L : Rank(L, i) \in Nat
      BY <2>2, <2>3, RanksDiffer
    <3> QED
      BY <2>2, <2>4, <3>1
  <2>7. ASSUME NEW p \in 0 .. N - 1
        PROVE  Cardinality({i \in L : PipeId(sw, i) = p}) <= PortsPerPipe(sw)
    <3>1. Cardinality({i \in L : Rank(L, i) % N = p}) <= (ports + N - 1) \div N
      BY <2>2, <2>3, PipesFit
    <3>2. {i \in L : PipeId(sw, i) = p} = {i \in L : Rank(L, i) % N = p}
      BY <2>4
    <3> QED
      BY <2>5, <3>1, <3>2
  <2> QED
    BY <2>1, <2>6, <2>7
<1> QED
  BY <1>1, <1>2 DEF PipesExist

\* The builder's number of links, computed from the parameters, is the number
\* the two loops build.
LEMMA NumLinksIsBuilt ==
    ASSUME Finished
    PROVE  Len(links) = NumLinks(fabric)
<1>1. /\ fabric \in Fabrics
      /\ Len(links) = Pods(fabric) * (ToRs(fabric) * Planes(fabric))
                        + Planes(fabric) * CoresPerPlane(fabric) * Pods(fabric)
  BY DEF Finished, BuilderInv, BuilderDone
<1>2. CASE fabric \in [type : {"FatTree"}, k : {n \in Nat \ {0} : n % 2 = 0}]
  <2>1. /\ fabric.type = "FatTree" /\ SameTopology(fabric, fabric)
        /\ TracedLinks(fabric) = Quotient(fabric.k * fabric.k * fabric.k, 2)
    BY <1>2 DEF SameTopology, TracedLinks
  <2>2. NumLinks(fabric) = TracedLinks(fabric)
    BY <2>1 DEF NumLinks
  <2>3. TracedLinks(fabric) = Pods(fabric) * (ToRs(fabric) * Planes(fabric))
                        + Planes(fabric) * CoresPerPlane(fabric) * Pods(fabric)
    BY <1>1, <1>2, <2>1, FatTreeLinks
  <2> QED
    BY <1>1, <2>2, <2>3
<1>3. CASE fabric \in [type : {"FbFabric"}, pods : Nat \ {0}, tors : Nat \ {0},
                       oversubscription : Nat \ {0}, deployment : 1 .. 100]
  <2>1. /\ fabric.type # "FatTree" /\ ToRs(fabric) = fabric.tors /\ Planes(fabric) = 4
    BY <1>3 DEF ToRs, Planes
  <2>2. PICK p, t, c : p = Pods(fabric) /\ t = fabric.tors /\ c = CoresPerPlane(fabric)
    OBVIOUS
  <2>3. p \in Nat /\ t \in Nat /\ c \in Nat
    BY <1>1, <2>1, <2>2, FabricSizes
  <2>4. NumLinks(fabric) = p * (t * 4 + 4 * c)
    BY <2>1, <2>2 DEF NumLinks
  <2>5. Len(links) = p * (t * 4) + 4 * c * p
    BY <1>1, <2>1, <2>2
  <2>6. p * (t * 4 + 4 * c) = p * (t * 4) + 4 * c * p
    BY <2>3
  <2> QED
    BY <2>4, <2>5, <2>6
<1> QED
  BY <1>1, <1>2, <1>3, BuilderAssumption

\* What the invariant says of the finished network.
LEMMA FinishedIsAssumed ==
    ASSUME Finished
    PROVE  BuiltAsAssumed
<1>1. {l.ends : l \in ToSet(links)} = Network!Links
  BY LinkEnds, GraphLinks
<1>2. Len(links) = Cardinality(Network!Links) /\ Len(links) = NumLinks(fabric)
  BY LinkCount, NumLinksIsBuilt
<1>3. AffectedTorsExact /\ PipesExist
  BY AffectedAreRight, PipesAreThere
<1> QED
  BY <1>1, <1>2, <1>3, NeighboursAreRecorded, CapacitiesAreRecorded DEF BuiltAsAssumed

\* The graph and the records, in a network with core switches.
BuiltInv ==
    /\ BuilderInv
    /\ CoresPerPlane(fabric) # 0 => GraphInv /\ RecordInv

\* The graph and the records stay right as pods and cores are added.
LEMMA BuiltInvStep == BuiltInv /\ [BuilderNext]_builderVars => BuiltInv'
<1> SUFFICES ASSUME BuiltInv, [BuilderNext]_builderVars PROVE BuiltInv'
  OBVIOUS
<1>1. BuilderInv'
  BY BuilderInvStep DEF BuiltInv
<1>2. CASE UNCHANGED builderVars
  <2>1. GraphInv /\ RecordInv => GraphInv' /\ RecordInv'
    <3>1. /\ podsBuilt' = podsBuilt /\ coresBuilt' = coresBuilt /\ links' = links
          /\ built' = built /\ fabric' = fabric
      BY <1>2 DEF builderVars
    <3>2. /\ \A p : PodTors(p)' = PodTors(p) /\ PodAggs(p)' = PodAggs(p)
          /\ \A j, c : Connected(j, c)' <=> Connected(j, c)
          /\ \A j : NumConnected(j)' = NumConnected(j)
      BY <3>1 DEF PodTors, PodAggs, Connected, NumConnected, PlaneNow, PlaceNow
    <3>3. \A l : KnownLink(l)' <=> KnownLink(l)
      BY <3>1, <3>2 DEF KnownLink, IsTorLink, IsCoreLink
    <3>4. /\ \A a, b : LinkBetween(a, b)' <=> LinkBetween(a, b)
          /\ AllKnown' <=> AllKnown
          /\ EachOnce' <=> EachOnce
      BY <3>1, <3>3 DEF LinkBetween, AllKnown, EachOnce
    <3>5. GraphInv => GraphInv'
      BY <3>1, <3>2, <3>4 DEF GraphInv
    <3>6. RecordInv => RecordInv'
      BY <3>1, <3>2 DEF RecordInv
    <3> QED
      BY <3>5, <3>6
  <2>2. fabric' = fabric
    BY <1>2 DEF builderVars
  <2> QED
    BY <1>1, <2>1, <2>2 DEF BuiltInv
<1>3. CASE BuildPod \/ ConnectCore
  <2>1. fabric' = fabric
    BY <1>3 DEF BuildPod, ConnectCore
  <2>2. ASSUME CoresPerPlane(fabric) # 0
        PROVE  GraphInv' /\ RecordInv'
    <3>1. BuilderInv /\ GraphInv /\ RecordInv
      BY <2>2 DEF BuiltInv
    <3> QED
      BY <1>3, <2>2, <3>1, BuildPodKeepsGraph, BuildPodKeepsRecords,
         ConnectCoreKeepsGraph, ConnectCoreKeepsRecords
  <2>3. CoresPerPlane(fabric)' = CoresPerPlane(fabric)
    BY <2>1
  <2> QED
    BY <1>1, <2>2, <2>3 DEF BuiltInv
<1> QED
  BY <1>2, <1>3 DEF BuilderNext

(***************************************************************************)
(* The network that is built is the one the simulation assumes, for fat    *)
(* trees and fabrics of every size that have core switches: each link of   *)
(* the graph once, as many as the parameters say, the neighbours, uplinks  *)
(* and capacities recorded while they were added those of the graph, the   *)
(* ToRs recorded with a link those with a path through it, every link on a *)
(* pipe of its switches and no pipe with more links than ports (the        *)
(* builders, add_switch, add_link, add_link_to_switch and get_pipe_id in   *)
(* topology.py).                                                           *)
(*                                                                         *)
(* A fabric whose oversubscription exceeds its ToRs has no core switch and *)
(* no path: there the ToR recorded with a link is not affected by it.      *)
(***************************************************************************)
THEOREM NetworkIsBuilt == BuilderSpec => [](CoresPerPlane(fabric) # 0 => BuiltAsAssumed)
<1>1. BuilderInit => BuiltInv
  BY BuilderInvInit, GraphInvInit DEF BuiltInv
<1>2. BuiltInv /\ [BuilderNext]_builderVars => BuiltInv'
  BY BuiltInvStep
<1>3. BuiltInv => (CoresPerPlane(fabric) # 0 => BuiltAsAssumed)
  <2> SUFFICES ASSUME BuiltInv, CoresPerPlane(fabric) # 0 PROVE BuiltAsAssumed
    OBVIOUS
  <2>1. CASE BuilderDone
    BY <2>1, FinishedIsAssumed DEF Finished, BuiltInv
  <2>2. CASE ~BuilderDone
    BY <2>2 DEF BuiltAsAssumed
  <2> QED
    BY <2>1, <2>2
<1> QED
  BY <1>1, <1>2, <1>3, PTL DEF BuilderSpec
=============================================================================
