-------------------------- MODULE SimulationProofs --------------------------
(***************************************************************************)
(* The simulation, for every topology, trace, solution and table of loss   *)
(* rates.                                                                  *)
(***************************************************************************)
EXTENDS Simulation, TopologyProofs

-----------------------------------------------------------------------------
(* Failures and LinkGuardian on a link. *)

\* What a failure of link l with a loss rate comes to in U.
Corrupted(T, l, rate, U) ==
    /\ U \in Networks
    /\ U.disabled = T.disabled
    /\ U.corrupting = T.corrupting \cup {l}
    /\ U.lgEnabled = T.lgEnabled
    /\ U.lossRate = [T.lossRate EXCEPT ![l] = rate]
    /\ l \in T.lgEnabled =>
        /\ U.effLossRate = T.effLossRate
        /\ U.totalEffLossRate = T.totalEffLossRate
    /\ l \notin T.lgEnabled =>
        /\ U.effLossRate = [T.effLossRate EXCEPT ![l] = rate]
        /\ U.totalEffLossRate = T.totalEffLossRate - T.effLossRate[l] + rate
    /\ U.effCapacity = T.effCapacity
    /\ U.aggSwitches = T.aggSwitches /\ U.activeUplinks = T.activeUplinks
    /\ U.numPaths = T.numPaths
    /\ U.topLossRates = Pushed(IF l \in T.corrupting
                               THEN Removed(T.topLossRates, T.lossRate[l])
                               ELSE T.topLossRates, rate)
    /\ U.totalLossRate = T.totalLossRate - T.lossRate[l] + rate
    /\ U.podCapacity = T.podCapacity
    /\ U.lgPorts = T.lgPorts /\ U.topLgPorts = T.topLgPorts

\* What Corrupt changes, all of it.
LEMMA CorruptEffect ==
    ASSUME NEW T \in Networks, NEW l \in Links, NEW rate \in Int
    PROVE  Corrupted(T, l, rate, Corrupt(T, l, rate))
<1> DEFINE rates  == [T.lossRate EXCEPT ![l] = rate]
           effs   == [T.effLossRate EXCEPT ![l] = rate]
           base   == IF l \in T.corrupting
                     THEN Removed(T.topLossRates, T.lossRate[l])
                     ELSE T.topLossRates
           heap   == Pushed(base, rate)
           total  == T.totalLossRate - T.lossRate[l] + rate
           eff    == T.totalEffLossRate - T.effLossRate[l] + rate
           A      == [T EXCEPT !.topLossRates = heap, !.lossRate = rates,
                               !.totalLossRate = total,
                               !.corrupting = T.corrupting \cup {l}]
           B      == [A EXCEPT !.effLossRate = effs, !.totalEffLossRate = eff]
           U      == Corrupt(T, l, rate)
<1>1. /\ l \in T.lgEnabled => U = A
      /\ l \notin T.lgEnabled => U = B
  BY DEF Corrupt, SetEffLossRate, SetLossRate, RecordTopLossRate, Networks
<1>2. /\ rates \in [Links -> Int] /\ effs \in [Links -> Int]
      /\ heap \in Heaps /\ total \in Int /\ eff \in Int
  <2>1. T.topLossRates \in Heaps /\ T.lossRate[l] \in Int
    BY DEF Networks
  <2>2. heap \in Heaps
    BY <2>1, HeapTypes
  <2> HIDE DEF heap
  <2> QED
    BY <2>2 DEF Networks
<1>3. heap = Pushed(IF l \in T.corrupting
                    THEN Removed(T.topLossRates, T.lossRate[l])
                    ELSE T.topLossRates, rate)
  OBVIOUS
<1> HIDE DEF rates, effs, heap, total, eff, U
<1>4. CASE l \in T.lgEnabled
  <2>1. U = A
    BY <1>1, <1>4
  <2>2. A \in Networks
    BY <1>2 DEF Networks
  <2>3. Corrupted(T, l, rate, A)
    BY <1>2, <1>3, <1>4, <2>2 DEF Corrupted, Networks, rates, total
  <2> QED
    BY <2>1, <2>3 DEF U
<1>5. CASE l \notin T.lgEnabled
  <2>1. U = B
    BY <1>1, <1>5
  <2>2. B \in Networks
    BY <1>2 DEF Networks
  <2>3. /\ B.disabled = T.disabled
        /\ B.corrupting = T.corrupting \cup {l}
        /\ B.lgEnabled = T.lgEnabled
        /\ B.lossRate = rates /\ B.effLossRate = effs
        /\ B.effCapacity = T.effCapacity
        /\ B.aggSwitches = T.aggSwitches
        /\ B.activeUplinks = T.activeUplinks
        /\ B.numPaths = T.numPaths /\ B.topLossRates = heap
        /\ B.totalLossRate = total /\ B.totalEffLossRate = eff
        /\ B.podCapacity = T.podCapacity
        /\ B.lgPorts = T.lgPorts /\ B.topLgPorts = T.topLgPorts
    BY <1>2 DEF Networks
  <2> HIDE DEF B
  <2>4. Corrupted(T, l, rate, B)
    BY <1>3, <1>5, <2>2, <2>3 DEF Corrupted, rates, effs, total, eff
  <2> QED
    BY <2>1, <2>4 DEF U
<1> QED
  BY <1>4, <1>5

\* What LinkGuardian on link l comes to in U.
Protected(T, l, perf, U) ==
    /\ U \in Networks
    /\ U.disabled = T.disabled
    /\ U.corrupting = T.corrupting
    /\ U.lgEnabled = T.lgEnabled \cup {l}
    /\ U.lossRate = T.lossRate
    /\ U.effLossRate = [T.effLossRate EXCEPT ![l] = perf.lossRate]
    /\ U.effCapacity = [T.effCapacity EXCEPT ![l] = perf.capacity]
    /\ U.aggSwitches = T.aggSwitches /\ U.activeUplinks = T.activeUplinks
    /\ U.numPaths = T.numPaths
    /\ U.topLossRates = T.topLossRates
    /\ U.totalLossRate = T.totalLossRate
    /\ U.totalEffLossRate = T.totalEffLossRate - T.effLossRate[l] + perf.lossRate
    /\ U.podCapacity = [T.podCapacity EXCEPT ![CapacityKey(l)] =
                            @ - T.effCapacity[l] + perf.capacity]
    /\ PortsExact(T) => PortsExact(U)

\* What Protect changes, all of it; nothing where LinkGuardian is not
\* deployed.
LEMMA ProtectEffect ==
    ASSUME NEW T \in Networks, NEW l \in Links,
           NEW perf \in [lossRate : Nat, capacity : Nat]
    PROVE  /\ l \in LgCapable => Protected(T, l, perf, Protect(T, l, perf))
           /\ l \notin LgCapable => Protect(T, l, perf) = T
<1> SUFFICES ASSUME l \in LgCapable
             PROVE  Protected(T, l, perf, Protect(T, l, perf))
  BY DEF Protect
<1> DEFINE A     == SetLgEnabled(T, l)
           k     == CapacityKey(l)
           rate  == perf.lossRate
           cap   == perf.capacity
           effs  == [A.effLossRate EXCEPT ![l] = rate]
           caps  == [A.effCapacity EXCEPT ![l] = cap]
           eff   == A.totalEffLossRate - A.effLossRate[l] + rate
           left  == A.podCapacity[k] - A.effCapacity[l] + cap
           pods  == [A.podCapacity EXCEPT ![k] = left]
           U     == [A EXCEPT !.effCapacity = caps, !.podCapacity = pods,
                              !.effLossRate = effs, !.totalEffLossRate = eff]
<1>1. LgSwitched(T, T.lgEnabled \cup {l}, A)
  BY SetLgEffect
<1>2. Protect(T, l, perf) =
            SetEffLossRate(UpdateEffCapacity(A, l, cap), l, rate)
  BY DEF Protect
<1>3. PortsExact(T) => PortsExact(A)
  BY PortsKept
<1> HIDE DEF A
<1>4. /\ A \in Networks
      /\ A.disabled = T.disabled /\ A.corrupting = T.corrupting
      /\ A.lgEnabled = T.lgEnabled \cup {l} /\ A.lossRate = T.lossRate
      /\ A.effLossRate = T.effLossRate /\ A.effCapacity = T.effCapacity
      /\ A.aggSwitches = T.aggSwitches /\ A.activeUplinks = T.activeUplinks
      /\ A.numPaths = T.numPaths
      /\ A.topLossRates = T.topLossRates /\ A.totalLossRate = T.totalLossRate
      /\ A.totalEffLossRate = T.totalEffLossRate
      /\ A.podCapacity = T.podCapacity
  <2>1. /\ A \in Networks
        /\ A = [T EXCEPT !.lgEnabled = T.lgEnabled \cup {l},
                         !.lgPorts = A.lgPorts, !.topLgPorts = A.topLgPorts]
    BY <1>1 DEF LgSwitched
  <2> QED
    BY <2>1 DEF Networks
<1>5. rate \in Int /\ cap \in Int
  OBVIOUS
<1> HIDE DEF rate, cap
<1>6. Protect(T, l, perf) = U
  BY <1>2, <1>4 DEF SetEffLossRate, UpdateEffCapacity, Networks
<1>7. /\ effs \in [Links -> Int] /\ caps \in [Links -> Int] /\ eff \in Int
      /\ pods \in [Pods \X {"TOR_AGG", "AGG_CORE"} -> Int]
      /\ pods = [T.podCapacity EXCEPT ![CapacityKey(l)] =
                    T.podCapacity[CapacityKey(l)] - T.effCapacity[l] + cap]
      /\ eff = T.totalEffLossRate - T.effLossRate[l] + rate
      /\ effs = [T.effLossRate EXCEPT ![l] = rate]
      /\ caps = [T.effCapacity EXCEPT ![l] = cap]
  <2>1. k \in Pods \X {"TOR_AGG", "AGG_CORE"}
    BY LinkEnds
  <2> HIDE DEF k
  <2> QED
    BY <1>4, <1>5, <2>1 DEF Networks, k
<1> HIDE DEF effs, caps, eff, pods
<1>8. /\ U \in Networks
      /\ U.disabled = A.disabled /\ U.corrupting = A.corrupting
      /\ U.lgEnabled = A.lgEnabled /\ U.lossRate = A.lossRate
      /\ U.effLossRate = effs /\ U.effCapacity = caps
      /\ U.aggSwitches = A.aggSwitches /\ U.activeUplinks = A.activeUplinks
      /\ U.numPaths = A.numPaths
      /\ U.topLossRates = A.topLossRates /\ U.totalLossRate = A.totalLossRate
      /\ U.totalEffLossRate = eff /\ U.podCapacity = pods
      /\ U.lgPorts = A.lgPorts /\ U.topLgPorts = A.topLgPorts
  BY <1>4, <1>7 DEF Networks
<1> HIDE DEF U
<1>9. PortsExact(T) => PortsExact(U)
  BY <1>8, <1>3, SamePorts
<1>10. Protected(T, l, perf, U)
  BY <1>4, <1>7, <1>8, <1>9 DEF Protected, rate, cap
<1> QED
  BY <1>6, <1>10

\* A corruption keeps the loss rates exact.
LEMMA RatesCorrupted ==
    ASSUME NEW T \in Networks, RatesExact(T), NEW l \in Links \ T.disabled,
           NEW rate \in Int, NEW U, Corrupted(T, l, rate, U)
    PROVE  RatesExact(U)
<1> DEFINE S == Links \ T.disabled
           f == T.lossRate
           g == T.effLossRate
           h == U.lossRate
           k == U.effLossRate
           C == T.corrupting
           i == InitialLossRate
<1>1. /\ f \in [Links -> Int] /\ g \in [Links -> Int]
      /\ C \in SUBSET Links /\ l \in S /\ l \in Links /\ i \in Int
      /\ T.totalLossRate = SumOver(f, S)
      /\ T.totalEffLossRate = SumOver(g, S)
      /\ T.topLossRates = HeapOf(i, f, C)
  BY TopologyAssumption DEF Networks, RatesExact
<1>2. /\ h = [f EXCEPT ![l] = rate]
      /\ U.disabled = T.disabled /\ U.corrupting = C \cup {l}
      /\ U.totalLossRate = T.totalLossRate - f[l] + rate
      /\ U.topLossRates = Pushed(IF l \in C
                                 THEN Removed(T.topLossRates, f[l])
                                 ELSE T.topLossRates, rate)
      /\ l \in T.lgEnabled =>
            k = g /\ U.totalEffLossRate = T.totalEffLossRate
      /\ l \notin T.lgEnabled =>
            /\ k = [g EXCEPT ![l] = rate]
            /\ U.totalEffLossRate = T.totalEffLossRate - g[l] + rate
  BY DEF Corrupted
<1>3. /\ \A x \in S : f[x] \in Int /\ g[x] \in Int
      /\ \A x \in S \ {l} : h[x] = f[x]
      /\ l \notin T.lgEnabled =>
            (\A x \in S \ {l} : k[x] = g[x]) /\ k[l] = rate
      /\ h[l] = rate
      /\ \A x \in C : f[x] \in Int
      /\ \A x \in C \ {l} : f[x] \in Int /\ h[x] = f[x]
  BY <1>1, <1>2
<1>4. IsFiniteSet(S) /\ IsFiniteSet(C) /\ IsFiniteSet(C \ {l})
  BY <1>1, SubsetsOfLinks
<1> HIDE DEF S, f, g, h, k, C, i
<1>5. U.totalLossRate = SumOver(h, S)
  <2>1. SumOver(h, S) = SumOver(f, S) - f[l] + h[l]
    BY <1>1, <1>3, <1>4, SumChanged
  <2> QED
    BY <1>1, <1>2, <1>3, <2>1
<1>6. U.totalEffLossRate = SumOver(k, S)
  <2>1. CASE l \in T.lgEnabled
    BY <1>1, <1>2, <2>1
  <2>2. CASE l \notin T.lgEnabled
    <3>1. SumOver(k, S) = SumOver(g, S) - g[l] + k[l]
      BY <1>1, <1>3, <1>4, <2>2, SumChanged
    <3> QED
      BY <1>1, <1>2, <1>3, <2>2, <3>1
  <2> QED
    BY <2>1, <2>2
<1>7. U.topLossRates = HeapOf(i, h, C \cup {l})
  <2> DEFINE R == C \ {l}
  <2>1. l \notin R /\ R \cup {l} = C \cup {l}
    OBVIOUS
  <2>2. U.topLossRates = Pushed(HeapOf(i, f, R), h[l])
    <3>1. CASE l \in C
      <4>1. Removed(HeapOf(i, f, C), f[l]) = HeapOf(i, f, C \ {l})
        BY <1>1, <1>3, <1>4, <3>1, HeapTaken
      <4> QED
        BY <1>1, <1>2, <1>3, <3>1, <4>1
    <3>2. CASE l \notin C
      <4>1. R = C
        BY <3>2
      <4> QED
        BY <1>1, <1>2, <1>3, <3>2, <4>1
    <3> QED
      BY <3>1, <3>2
  <2> HIDE DEF R
  <2>3. Pushed(HeapOf(i, f, R), h[l]) = HeapOf(i, h, R \cup {l})
    <3>1. \A y \in R : f[y] \in Int /\ h[y] = f[y]
      BY <1>3 DEF R
    <3>2. IsFiniteSet(R)
      BY <1>4 DEF R
    <3> QED
      BY <1>1, <1>3, <2>1, <3>1, <3>2, HeapPush
  <2> QED
    BY <2>1, <2>2, <2>3
<1> QED
  BY <1>2, <1>5, <1>6, <1>7 DEF RatesExact, S, h, k, i

\* A corruption keeps every cache exact.
LEMMA ExactCorrupted ==
    ASSUME NEW T, Exact(T), NEW l \in Links \ T.disabled, NEW rate \in Int
    PROVE  Exact(Corrupt(T, l, rate))
<1> DEFINE U == Corrupt(T, l, rate)
<1>1. /\ T \in Networks /\ GraphExact(T) /\ CountsExact(T)
      /\ CapacityExact(T) /\ RatesExact(T) /\ PortsExact(T)
      /\ T.disabled \cap T.corrupting = {}
  BY DEF Exact
<1>2. Corrupted(T, l, rate, U)
  BY <1>1, CorruptEffect
<1> HIDE DEF U
<1>3. /\ U \in Networks
      /\ U.disabled = T.disabled /\ U.corrupting = T.corrupting \cup {l}
      /\ U.aggSwitches = T.aggSwitches /\ U.activeUplinks = T.activeUplinks
      /\ U.numPaths = T.numPaths /\ U.podCapacity = T.podCapacity
      /\ U.effCapacity = T.effCapacity /\ U.lgEnabled = T.lgEnabled
      /\ U.lgPorts = T.lgPorts /\ U.topLgPorts = T.topLgPorts
  BY <1>2 DEF Corrupted
<1>4. U.disabled \cap U.corrupting = {}
  BY <1>1, <1>3
<1>5. GraphExact(U) /\ CountsExact(U)
  BY <1>1, <1>3 DEF GraphExact, CountsExact, PathsOf
<1>6. CapacityExact(U)
  BY <1>1, <1>3 DEF CapacityExact, CapacitiesOf
<1>7. RatesExact(U)
  BY <1>1, <1>2, RatesCorrupted
<1>8. PortsExact(U)
  BY <1>1, <1>3, SamePorts
<1> QED
  BY <1>3, <1>4, <1>5, <1>6, <1>7, <1>8 DEF Exact, U

\* Activating LinkGuardian keeps the capacities exact.
LEMMA CapacityProtected ==
    ASSUME NEW T \in Networks, CapacityExact(T), NEW l \in Links \ T.disabled,
           NEW perf \in [lossRate : Nat, capacity : Nat],
           NEW U, Protected(T, l, perf, U)
    PROVE  CapacityExact(U)
<1> DEFINE cap == perf.capacity
<1>1. /\ U \in Networks /\ U.disabled = T.disabled /\ cap \in Int
      /\ U.effCapacity = [T.effCapacity EXCEPT ![l] = cap]
      /\ U.podCapacity = [T.podCapacity EXCEPT ![CapacityKey(l)] =
                                @ - T.effCapacity[l] + cap]
      /\ T.effCapacity \in [Links -> Int]
      /\ T.podCapacity \in [Pods \X {"TOR_AGG", "AGG_CORE"} -> Int]
  BY DEF Protected, Networks
<1> HIDE DEF cap
<1> SUFFICES ASSUME NEW k \in Pods \X {"TOR_AGG", "AGG_CORE"}
             PROVE  U.podCapacity[k]
                        = SumOver(U.effCapacity, UpLinks(U.disabled, k))
  BY <1>1, CapacityIs
<1> DEFINE S == UpLinks(T.disabled, k)
           f == T.effCapacity
           g == U.effCapacity
<1>2. T.podCapacity[k] = SumOver(f, S)
  BY CapacityIs
<1>3. /\ IsFiniteSet(S)
      /\ \A x \in S : f[x] \in Int
      /\ \A x \in S \ {l} : g[x] = f[x]
      /\ g[l] = cap /\ g[l] \in Int /\ l \in Links
      /\ l \in S <=> k = CapacityKey(l)
  BY <1>1, SubsetsOfLinks DEF UpLinks
<1>4. CASE k = CapacityKey(l)
  <2>1. U.podCapacity[k] = T.podCapacity[k] - f[l] + cap
    BY <1>1, <1>4
  <2> HIDE DEF S, f, g
  <2>2. SumOver(g, S) = SumOver(f, S) - f[l] + g[l]
    BY <1>3, <1>4, SumChanged
  <2> QED
    BY <1>1, <1>2, <1>3, <2>1, <2>2 DEF g, S
<1>5. CASE k # CapacityKey(l)
  <2>1. U.podCapacity[k] = T.podCapacity[k]
    BY <1>1, <1>5
  <2>2. \A x \in S : f[x] = g[x]
    BY <1>3, <1>5
  <2> HIDE DEF S, f, g
  <2>3. SumOver(f, S) = SumOver(g, S)
    BY <1>3, <2>2, SumCongruent
  <2> QED
    BY <1>1, <1>2, <2>1, <2>3 DEF g, S
<1> QED
  BY <1>4, <1>5

\* Activating LinkGuardian keeps the loss rates exact.
LEMMA RatesProtected ==
    ASSUME NEW T \in Networks, RatesExact(T), NEW l \in Links \ T.disabled,
           NEW perf \in [lossRate : Nat, capacity : Nat],
           NEW U, Protected(T, l, perf, U)
    PROVE  RatesExact(U)
<1> DEFINE S    == Links \ T.disabled
           g    == T.effLossRate
           k    == U.effLossRate
           rate == perf.lossRate
<1>1. /\ g \in [Links -> Int] /\ l \in S /\ rate \in Int
      /\ T.totalEffLossRate = SumOver(g, S)
  BY DEF Networks, RatesExact
<1>2. /\ k = [g EXCEPT ![l] = rate]
      /\ U.disabled = T.disabled /\ U.corrupting = T.corrupting
      /\ U.lossRate = T.lossRate /\ U.totalLossRate = T.totalLossRate
      /\ U.topLossRates = T.topLossRates
      /\ U.totalEffLossRate = T.totalEffLossRate - g[l] + rate
  BY DEF Protected
<1>3. /\ \A x \in S : g[x] \in Int
      /\ \A x \in S \ {l} : k[x] = g[x]
      /\ k[l] = rate
  BY <1>1, <1>2
<1>4. IsFiniteSet(S)
  BY SubsetsOfLinks
<1> HIDE DEF S, g, k, rate
<1>5. SumOver(k, S) = SumOver(g, S) - g[l] + k[l]
  BY <1>1, <1>3, <1>4, SumChanged
<1> QED
  BY <1>1, <1>2, <1>3, <1>5 DEF RatesExact, S, k

\* Activating LinkGuardian keeps every cache exact.
LEMMA ExactProtected ==
    ASSUME NEW T, Exact(T), NEW l \in Links \ T.disabled,
           NEW perf \in [lossRate : Nat, capacity : Nat]
    PROVE  Exact(Protect(T, l, perf))
<1> DEFINE U == Protect(T, l, perf)
<1>1. /\ T \in Networks /\ GraphExact(T) /\ CountsExact(T)
      /\ CapacityExact(T) /\ RatesExact(T) /\ PortsExact(T)
      /\ T.disabled \cap T.corrupting = {}
  BY DEF Exact
<1>2. /\ l \in LgCapable => Protected(T, l, perf, U)
      /\ l \notin LgCapable => U = T
  BY <1>1, ProtectEffect
<1> HIDE DEF U
<1> SUFFICES ASSUME l \in LgCapable PROVE Exact(U)
  BY <1>2 DEF U
<1>3. /\ U \in Networks
      /\ U.disabled = T.disabled /\ U.corrupting = T.corrupting
      /\ U.aggSwitches = T.aggSwitches /\ U.activeUplinks = T.activeUplinks
      /\ U.numPaths = T.numPaths /\ PortsExact(U)
  BY <1>1, <1>2 DEF Protected
<1>4. GraphExact(U) /\ CountsExact(U)
  BY <1>1, <1>3 DEF GraphExact, CountsExact, PathsOf
<1>5. CapacityExact(U)
  BY <1>1, <1>2, CapacityProtected
<1>6. RatesExact(U)
  BY <1>1, <1>2, RatesProtected
<1> QED
  BY <1>1, <1>3, <1>4, <1>5, <1>6 DEF Exact

-----------------------------------------------------------------------------
(***************************************************************************)
(* What the queue holds while the links of D are disabled: failures and,   *)
(* for each of these links, one recovery.                                  *)
(***************************************************************************)
IsEvent(e) == e = Failure(e.time) \/ \E l \in Links : e = Recovery(e.time, l)

Repairs(q, l) == {e \in q : e.type = "recovery" /\ e.link = l}

QueueFor(q, used, D) ==
    /\ IsFiniteSet(q) /\ IsFiniteSet(used) /\ used \in SUBSET Nat
    /\ \A e \in q : e.time \in used /\ IsEvent(e)
    /\ \A e, f \in q : e.time = f.time => e = f
    /\ \A l \in D : \E e : Repairs(q, l) = {e}
    /\ \A l \in Links \ D : Repairs(q, l) = {}

\* Events are failures or recoveries of links.
LEMMA EventKinds ==
    ASSUME NEW e, IsEvent(e)
    PROVE  /\ e.type = "failure" <=> e.type # "recovery"
           /\ e.type = "recovery" => e.link \in Links
BY DEF IsEvent, Failure, Recovery

\* The fields of a recovery.
LEMMA RecoveryParts ==
    ASSUME NEW t, NEW l
    PROVE  /\ Recovery(t, l).time = t /\ Recovery(t, l).link = l
           /\ Recovery(t, l).type = "recovery"
           /\ \A u : [Recovery(t, l) EXCEPT !.time = u] = Recovery(u, l)
BY DEF Recovery

\* The fields of a failure.
LEMMA FailureParts ==
    ASSUME NEW t
    PROVE  /\ Failure(t).time = t /\ Failure(t).type = "failure"
           /\ \A u : [Failure(t) EXCEPT !.time = u] = Failure(u)
BY DEF Failure

\* Taking an event from the queue.
LEMMA EventTaken ==
    ASSUME NEW q, NEW used, NEW D \in SUBSET Links, QueueFor(q, used, D),
           NEW e \in q
    PROVE  /\ Cardinality(q \ {e}) = Cardinality(q) - 1
           /\ Cardinality(q) \in Nat
           /\ e.time \in Nat
           /\ e.type = "failure" => QueueFor(q \ {e}, used, D)
           /\ e.type = "recovery" => /\ e.link \in D
                                     /\ QueueFor(q \ {e}, used, D \ {e.link})
<1> DEFINE p == q \ {e}
<1>1. /\ IsFiniteSet(p) /\ Cardinality(p) = Cardinality(q) - 1
      /\ Cardinality(q) \in Nat
  BY FS_RemoveElement, FS_CardinalityType DEF QueueFor
<1>2. e.time \in Nat /\ IsEvent(e)
  BY DEF QueueFor
<1>3. \A l : Repairs(p, l) = Repairs(q, l) \ {e}
  BY DEF Repairs
<1>4. \A f \in p : f.time \in used /\ IsEvent(f)
  BY DEF QueueFor
<1>5. \A f, g \in p : f.time = g.time => f = g
  BY DEF QueueFor
<1>6. ASSUME e.type = "failure" PROVE QueueFor(p, used, D)
  <2>1. \A l : e \notin Repairs(q, l)
    BY <1>6 DEF Repairs
  <2>2. \A l : Repairs(p, l) = Repairs(q, l)
    BY <1>3, <2>1
  <2> QED
    BY <1>1, <1>4, <1>5, <2>2 DEF QueueFor
<1>7. ASSUME e.type = "recovery"
      PROVE  e.link \in D /\ QueueFor(p, used, D \ {e.link})
  <2>1. e \in Repairs(q, e.link) /\ e.link \in Links
    BY <1>2, <1>7, EventKinds DEF Repairs
  <2>2. e.link \in D
    BY <2>1 DEF QueueFor
  <2>3. Repairs(p, e.link) = {}
    BY <1>3, <2>1, <2>2 DEF QueueFor
  <2>4. \A l : l # e.link => e \notin Repairs(q, l)
    BY DEF Repairs
  <2>5. \A l : l # e.link => Repairs(p, l) = Repairs(q, l)
    BY <1>3, <2>4
  <2>6. \A l \in D \ {e.link} : \E f : Repairs(p, l) = {f}
    BY <2>5 DEF QueueFor
  <2>7. \A l \in Links \ (D \ {e.link}) : Repairs(p, l) = {}
    BY <2>3, <2>5 DEF QueueFor
  <2> QED
    BY <1>1, <1>4, <1>5, <2>2, <2>6, <2>7 DEF QueueFor
<1> QED
  BY <1>1, <1>2, <1>6, <1>7

\* Enumerations of a finite set.
LEMMA OrdersOf ==
    ASSUME NEW S, IsFiniteSet(S), NEW order \in SetToSeqs(S)
    PROVE  /\ Cardinality(S) \in Nat
           /\ order \in [1 .. Cardinality(S) -> S]
           /\ DOMAIN order = 1 .. Cardinality(S)
           /\ Len(order) = Cardinality(S)
           /\ \A i, j \in 1 .. Cardinality(S) : order[i] = order[j] => i = j
           /\ \A x \in S : \E i \in 1 .. Cardinality(S) : order[i] = x
<1> DEFINE n == Cardinality(S)
           D == 1 .. n
<1>1. n \in Nat
  BY FS_CardinalityType
<1>2. /\ order \in [D -> S]
      /\ \A i, j \in D : i # j => order[i] # order[j]
  BY DEF SetToSeqs
<1>3. order \in Seq(S) /\ Len(order) = n
  BY <1>1, <1>2
<1>4. IsFiniteSet(D) /\ Cardinality(D) = n
  BY <1>1, FS_Interval
<1> HIDE DEF D, n
<1>5. order \in Injection(D, S)
  BY <1>2 DEF Injection, IsInjective
<1>6. order \in Surjection(D, S)
  BY <1>4, <1>5, FS_Injection DEF n
<1>7. \A x \in S : \E i \in D : order[i] = x
  BY <1>6 DEF Surjection
<1> QED
  BY <1>1, <1>2, <1>3, <1>7 DEF D, n

\* Scheduling the repairs of links just disabled, in any order, leaves one
\* recovery in the queue for every disabled link.
LEMMA RepairsScheduled ==
    ASSUME NEW q, NEW used, NEW D \in SUBSET Links, QueueFor(q, used, D),
           NEW S \in SUBSET (Links \ D), NEW order \in SetToSeqs(S),
           NEW events, NEW low \in Nat, DOMAIN events = DOMAIN order,
           \A i \in DOMAIN order :
                /\ events[i] = Recovery(events[i].time, order[i])
                /\ events[i].time \in Nat /\ events[i].time >= low
    PROVE  LET R == Scheduled(events, used)
           IN  /\ QueueFor(q \cup R.events, R.used, D \cup S)
               /\ Cardinality(q \cup R.events) = Cardinality(q) + Len(order)
               /\ \A e \in R.events : e.time >= low
<1> DEFINE n     == Cardinality(S)
           I     == 1 .. n
           R     == Scheduled(events, used)
           New   == R.events
           both  == q \cup New
<1>1. IsFiniteSet(S)
  BY SubsetsOfLinks
<1>2. /\ n \in Nat /\ order \in [I -> S] /\ DOMAIN order = I /\ Len(order) = n
      /\ \A i, j \in I : order[i] = order[j] => i = j
      /\ \A l \in S : \E i \in I : order[i] = l
  BY <1>1, OrdersOf
<1>3. IsFiniteSet(used) /\ used \in SUBSET Nat
  BY DEF QueueFor
<1>4. PICK at : IsSchedule(events, used, I, at, R)
  BY <1>2, <1>3, ScheduledIsSchedule
<1>5. IsFiniteSet(I) /\ Cardinality(I) = n
  <2>1. n \in Nat
    BY <1>2
  <2> HIDE DEF n
  <2> QED
    BY <2>1, FS_Interval
<1> HIDE DEF I, n, R
<1> DEFINE ev == [i \in I |-> Recovery(at[i], order[i])]
<1>6. /\ at \in [I -> Nat]
      /\ \A i \in I : at[i] >= low /\ at[i] \notin used
      /\ \A i, j \in I : at[i] = at[j] => i = j
      /\ R.used = used \cup {at[i] : i \in I}
      /\ IsFiniteSet(R.used)
  <2>1. \A i \in I : /\ at[i] \in Nat /\ at[i] >= events[i].time
                     /\ events[i].time \in Nat /\ events[i].time >= low
    BY <1>2, <1>4 DEF IsSchedule
  <2>2. \A i \in I : at[i] >= low
    BY <2>1
  <2> QED
    BY <1>4, <2>2 DEF IsSchedule
<1>7. New = {ev[i] : i \in I}
  <2>1. ASSUME NEW i \in I PROVE [events[i] EXCEPT !.time = at[i]] = ev[i]
    <3>1. events[i] = Recovery(events[i].time, order[i])
      BY <1>2
    <3> QED
      BY <3>1, RecoveryParts
  <2>2. New = {[events[i] EXCEPT !.time = at[i]] : i \in I}
    BY <1>4 DEF IsSchedule
  <2> HIDE DEF ev, New
  <2> QED
    BY <2>1, <2>2
<1>8. \A i \in I : /\ ev[i].time = at[i] /\ ev[i].link = order[i]
                   /\ ev[i].type = "recovery"
                   /\ ev[i] = Recovery(at[i], order[i])
  BY RecoveryParts
<1>9. ev \in Injection(I, New) /\ ev \in Surjection(I, New)
  <2>1. DOMAIN ev = I /\ ev \in [I -> New]
    BY <1>7
  <2>2. \A i, j \in I : ev[i] = ev[j] => i = j
    BY <1>6, <1>8
  <2> HIDE DEF ev
  <2> QED
    BY <1>7, <2>1, <2>2 DEF Injection, IsInjective, Surjection
<1> HIDE DEF ev, New
<1>10. IsFiniteSet(New) /\ Cardinality(New) = n
  BY <1>5, <1>9, FS_Surjection
<1>11. q \cap New = {} /\ \A e \in q, f \in New : e.time # f.time
  BY <1>6, <1>7, <1>8 DEF QueueFor
<1>12. IsFiniteSet(both) /\ Cardinality(both) = Cardinality(q) + n
  <2>1. IsFiniteSet(q)
    BY DEF QueueFor
  <2>2. Cardinality(q) \in Nat /\ n \in Nat /\ Cardinality({}) = 0
    BY <1>2, <2>1, FS_CardinalityType, FS_EmptySet
  <2>3. /\ IsFiniteSet(both)
        /\ Cardinality(both) = Cardinality(q) + Cardinality(New)
                                   - Cardinality(q \cap New)
    BY <1>10, <2>1, FS_Union
  <2>4. Cardinality(q \cap New) = 0
    BY <1>11, <2>2
  <2> HIDE DEF both
  <2> QED
    BY <1>10, <2>2, <2>3, <2>4
<1>13. \A e \in both : e.time \in R.used /\ IsEvent(e)
  <2>1. \A i \in I : order[i] \in Links
    BY <1>2
  <2>2. \A e \in New : e.time \in R.used /\ IsEvent(e)
    BY <1>6, <1>7, <1>8, <2>1 DEF IsEvent
  <2>3. \A e \in q : e.time \in R.used /\ IsEvent(e)
    BY <1>6 DEF QueueFor
  <2> QED
    BY <2>2, <2>3
<1>14. \A e, f \in both : e.time = f.time => e = f
  <2>1. \A e, f \in New : e.time = f.time => e = f
    BY <1>6, <1>7, <1>8
  <2>2. \A e, f \in q : e.time = f.time => e = f
    BY DEF QueueFor
  <2> QED
    BY <1>11, <2>1, <2>2
<1>15. \A l : Repairs(both, l) = Repairs(q, l) \cup {e \in New : e.link = l}
  <2>1. \A e \in New : e.type = "recovery"
    BY <1>7, <1>8
  <2> QED
    BY <2>1 DEF Repairs
<1>16. \A l : l \notin S => {e \in New : e.link = l} = {}
  BY <1>2, <1>7, <1>8
<1>17. \A l \in S : \E e : {f \in New : f.link = l} = {e}
  <2> TAKE l \in S
  <2>1. PICK i \in I : order[i] = l
    BY <1>2
  <2>2. \A j \in I : order[j] = l => j = i
    BY <1>2, <2>1
  <2>3. {f \in New : f.link = l} = {ev[i]}
    BY <1>7, <1>8, <2>1, <2>2
  <2> QED
    BY <2>3
<1>18. \A l \in D \cup S : \E e : Repairs(both, l) = {e}
  <2>1. ASSUME NEW l \in D PROVE \E e : Repairs(both, l) = {e}
    <3>1. l \notin S
      OBVIOUS
    <3>2. Repairs(both, l) = Repairs(q, l)
      BY <1>15, <1>16, <3>1
    <3> QED
      BY <3>2 DEF QueueFor
  <2>2. ASSUME NEW l \in S PROVE \E e : Repairs(both, l) = {e}
    <3>1. Repairs(q, l) = {}
      BY DEF QueueFor
    <3> QED
      BY <1>15, <1>17, <3>1
  <2> QED
    BY <2>1, <2>2
<1>19. \A l \in Links \ (D \cup S) : Repairs(both, l) = {}
  BY <1>15, <1>16 DEF QueueFor
<1>20. R.used \in SUBSET Nat
  <2>1. \A i \in I : at[i] \in Nat
    BY <1>6
  <2>2. R.used = used \cup {at[i] : i \in I}
    BY <1>6
  <2> QED
    BY <1>3, <2>1, <2>2
<1>21. QueueFor(both, R.used, D \cup S)
  BY <1>6, <1>12, <1>13, <1>14, <1>18, <1>19, <1>20 DEF QueueFor
<1>22. \A e \in New : e.time >= low
  BY <1>6, <1>7, <1>8
<1> QED
  BY <1>2, <1>12, <1>21, <1>22 DEF New, R

-----------------------------------------------------------------------------
(***************************************************************************)
(* The network between two events, under a solution that protects links or *)
(* not and optimizes or not.                                               *)
(***************************************************************************)
RatesKnown(T) ==
    /\ \A l \in T.corrupting :
            T.lossRate[l] \in Nat /\ T.lossRate[l] > InitialLossRate
    /\ \A l \in Links \ (T.disabled \cup T.corrupting) :
            T.lossRate[l] = InitialLossRate

LgExact(T, protects) ==
    T.lgEnabled = IF protects THEN T.corrupting \cap LgCapable ELSE {}

\* No corrupting link could be disabled as well.
Tight(T) == \A l \in T.corrupting : ~Holds(T.disabled \cup {l})

Settled(T, protects, optimizes) ==
    /\ Exact(T) /\ RatesKnown(T) /\ LgExact(T, protects)
    /\ optimizes => Holds(T.disabled) /\ Tight(T)

\* The built network is settled.
LEMMA SettledBuilt ==
    ASSUME NEW protects, NEW optimizes
    PROVE  Settled(BuiltTopology, protects, optimizes)
<1> DEFINE T == BuiltTopology
<1>1. /\ T.disabled = {} /\ T.corrupting = {} /\ T.lgEnabled = {}
      /\ T.lossRate = [l \in Links |-> InitialLossRate]
  BY DEF BuiltTopology
<1>2. Exact(T)
  BY ExactBuilt
<1> HIDE DEF T
<1>3. RatesKnown(T) /\ LgExact(T, protects) /\ Tight(T)
  BY <1>1 DEF RatesKnown, LgExact, Tight
<1>4. Holds(T.disabled)
  BY <1>1, MinimumPaths DEF Holds
<1> QED
  BY <1>2, <1>3, <1>4 DEF Settled, T

\* The network P after link l of T failed, before the solution disables it.
Failed(T, l, P, protects) ==
    /\ Exact(P) /\ RatesKnown(P) /\ LgExact(P, protects)
    /\ P.disabled = T.disabled /\ P.corrupting = T.corrupting \cup {l}

\* A failure, with LinkGuardian activated where the solution does, touches
\* the failed link only.
LEMMA FailureEffect ==
    ASSUME NEW T, NEW protects, Exact(T), RatesKnown(T), LgExact(T, protects),
           NEW l \in Links \ T.disabled, NEW rate \in LossRates,
           NEW perf \in [lossRate : Nat, capacity : Nat]
    PROVE  /\ protects =>
                Failed(T, l, Protect(Corrupt(T, l, rate), l, perf), protects)
           /\ ~protects => Failed(T, l, Corrupt(T, l, rate), protects)
<1> DEFINE U == Corrupt(T, l, rate)
           P == Protect(U, l, perf)
<1>1. /\ rate \in Int /\ rate \in Nat /\ rate > InitialLossRate
      /\ InitialLossRate \in Nat
  BY SimulationAssumption, TopologyAssumption
<1>2. T \in Networks /\ T.corrupting \in SUBSET Links
  BY DEF Exact, Networks
<1>3. Exact(U) /\ Corrupted(T, l, rate, U)
  BY <1>1, <1>2, ExactCorrupted, CorruptEffect
<1> HIDE DEF U
<1>4. /\ U \in Networks
      /\ U.disabled = T.disabled /\ U.corrupting = T.corrupting \cup {l}
      /\ U.lgEnabled = T.lgEnabled
      /\ U.lossRate = [T.lossRate EXCEPT ![l] = rate]
  BY <1>3 DEF Corrupted
<1>5. RatesKnown(U)
  <2>1. T.lossRate \in [Links -> Int]
    BY <1>2 DEF Networks
  <2>2. /\ U.lossRate[l] = rate
        /\ \A k \in Links : k # l => U.lossRate[k] = T.lossRate[k]
    BY <1>4, <2>1
  <2> QED
    BY <1>1, <1>2, <1>4, <2>2 DEF RatesKnown
<1>6. Exact(P) /\ (l \in LgCapable => Protected(U, l, perf, P))
      /\ (l \notin LgCapable => P = U)
  BY <1>3, <1>4, ExactProtected, ProtectEffect
<1> HIDE DEF P
<1>7. /\ P.disabled = U.disabled /\ P.corrupting = U.corrupting
      /\ P.lossRate = U.lossRate
      /\ P.lgEnabled = IF l \in LgCapable THEN U.lgEnabled \cup {l}
                       ELSE U.lgEnabled
  BY <1>6 DEF Protected
<1>8. RatesKnown(P)
  BY <1>5, <1>7 DEF RatesKnown
<1>9. ASSUME protects PROVE LgExact(P, protects)
  <2>1. T.lgEnabled = T.corrupting \cap LgCapable
    BY <1>9 DEF LgExact
  <2>2. P.lgEnabled = P.corrupting \cap LgCapable
    BY <1>4, <1>7, <2>1
  <2> QED
    BY <1>9, <2>2 DEF LgExact
<1>10. ASSUME ~protects PROVE LgExact(U, protects)
  BY <1>4, <1>10 DEF LgExact
<1> QED
  BY <1>3, <1>4, <1>5, <1>6, <1>7, <1>8, <1>9, <1>10 DEF Failed, U, P

\* The links of S can be disabled, and no other corrupting link with them.
Maximal(P, S) ==
    /\ Holds(P.disabled \cup S)
    /\ \A k \in P.corrupting \ S : ~Holds((P.disabled \cup S) \cup {k})

\* After the links of S are disabled.
LEMMA SettledDisabled ==
    ASSUME NEW P, NEW protects, NEW optimizes,
           Exact(P), RatesKnown(P), LgExact(P, protects),
           NEW S \in SUBSET P.corrupting,
           optimizes => Maximal(P, S)
    PROVE  /\ Settled(DisableLinks(P, S), protects, optimizes)
           /\ DisableLinks(P, S).disabled = P.disabled \cup S
           /\ DisableLinks(P, S).corrupting = P.corrupting \ S
<1> DEFINE U == DisableLinks(P, S)
<1>1. AllDisabled(P, S, U)
  BY DisableLinksEffect
<1> HIDE DEF U
<1>2. /\ Exact(U)
      /\ U.disabled = P.disabled \cup S /\ U.corrupting = P.corrupting \ S
      /\ U.lgEnabled = P.lgEnabled \ S /\ U.lossRate = P.lossRate
  BY <1>1 DEF AllDisabled
<1>3. RatesKnown(U)
  BY <1>2 DEF RatesKnown
<1>4. LgExact(U, protects)
  <2>1. CASE protects
    <3>1. P.lgEnabled = P.corrupting \cap LgCapable
      BY <2>1 DEF LgExact
    <3>2. U.lgEnabled = U.corrupting \cap LgCapable
      BY <1>2, <3>1
    <3> QED
      BY <2>1, <3>2 DEF LgExact
  <2>2. CASE ~protects
    BY <1>2, <2>2 DEF LgExact
  <2> QED
    BY <2>1, <2>2
<1>5. optimizes => Holds(U.disabled) /\ Tight(U)
  BY <1>2 DEF Tight, Maximal
<1> QED
  BY <1>2, <1>3, <1>4, <1>5 DEF Settled, U

\* The links that a solution with a fast checker disables when l fails.
Checked(P, l, S) == S = IF CanDisable(P, l) THEN {l} ELSE {}

\* The fast checker: a link is disabled, or it would violate the constraint.
LEMMA FailureSettled ==
    ASSUME NEW T, NEW protects, NEW optimizes, Settled(T, protects, optimizes),
           NEW l \in Links \ T.disabled, NEW P, Failed(T, l, P, protects),
           NEW S \in SUBSET {l}, optimizes => Checked(P, l, S)
    PROVE  /\ Settled(DisableLinks(P, S), protects, optimizes)
           /\ DisableLinks(P, S).disabled = T.disabled \cup S
<1> DEFINE D == T.disabled
<1>1. /\ Exact(P) /\ RatesKnown(P) /\ LgExact(P, protects)
      /\ P.disabled = D /\ P.corrupting = T.corrupting \cup {l}
  BY DEF Failed
<1>2. P \in Networks /\ GraphExact(P)
  BY <1>1 DEF Exact
<1>3. S \in SUBSET P.corrupting
  BY <1>1
<1>4. ASSUME optimizes
      PROVE  /\ Holds(D \cup S)
             /\ \A k \in P.corrupting \ S : ~Holds((D \cup S) \cup {k})
  <2>1. Holds(D) /\ \A k \in T.corrupting : ~Holds(D \cup {k})
    BY <1>4 DEF Settled, Tight
  <2>2. CanDisable(P, l) <=> \A t \in AffectedTors(l) : Enough(t, D \cup {l})
    BY <1>1, <1>2, CanDisableMeans
  <2>3. AffectedTors(l) \subseteq Tors
    BY LinkEnds DEF AffectedTors
  <2>4. CanDisable(P, l) <=> Holds(D \cup {l})
    <3>1. ASSUME NEW t \in Tors, t \notin AffectedTors(l)
          PROVE  Enough(t, D \cup {l})
      <4> DEFINE L == {l}
      <4>1. L \in SUBSET Links /\ \A k \in L : t \notin AffectedTors(k)
        BY <3>1
      <4> HIDE DEF L
      <4>2. LivePaths(t, D \cup L) = LivePaths(t, D)
        BY <4>1, SamePaths
      <4> QED
        BY <2>1, <4>2 DEF Enough, Holds, L
    <3> QED
      BY <2>2, <2>3, <3>1 DEF Holds
  <2>5. CASE CanDisable(P, l)
    <3>1. S = {l} /\ Holds(D \cup S)
      BY <1>4, <2>4, <2>5 DEF Checked
    <3>2. ASSUME NEW k \in P.corrupting \ S PROVE ~Holds((D \cup S) \cup {k})
      <4> DEFINE A == D \cup {k}
                 B == (D \cup S) \cup {k}
      <4>1. k \in T.corrupting
        BY <1>1, <3>1
      <4>2. ~Holds(A) /\ A \subseteq B
        BY <2>1, <4>1
      <4> HIDE DEF A, B
      <4>3. ~Holds(B)
        BY <4>2, FewerHolds
      <4> QED
        BY <4>3 DEF B
    <3> QED
      BY <3>1, <3>2
  <2>6. CASE ~CanDisable(P, l)
    <3>1. S = {} /\ D \cup S = D
      BY <1>4, <2>6 DEF Checked
    <3> QED
      BY <1>1, <2>1, <2>4, <2>6, <3>1
  <2> QED
    BY <2>5, <2>6
<1>5. optimizes => Maximal(P, S)
  BY <1>1, <1>4 DEF Maximal
<1>6. /\ Settled(DisableLinks(P, S), protects, optimizes)
      /\ DisableLinks(P, S).disabled = P.disabled \cup S
  <2>1. Exact(P) /\ RatesKnown(P) /\ LgExact(P, protects)
    BY <1>1
  <2> QED
    BY <1>3, <1>5, <2>1, SettledDisabled
<1> QED
  BY <1>1, <1>6

\* What is safe and leaves the least loss leaves no link that could go too.
LEMMA BestIsTight ==
    ASSUME NEW V, Exact(V), RatesKnown(V), NEW S \in SafeSets(V),
           \A R \in SafeSets(V) :
                SumOver(V.lossRate, R) <= SumOver(V.lossRate, S)
    PROVE  Maximal(V, S)
<1> SUFFICES ASSUME NEW k \in V.corrupting \ S,
                    Holds((V.disabled \cup S) \cup {k})
             PROVE  FALSE
  BY SafeSetsAre DEF Maximal
<1> DEFINE f == V.lossRate
           R == S \cup {k}
<1>1. S \in SUBSET V.corrupting /\ V.corrupting \in SUBSET Links
  BY SafeSetsAre DEF Exact, Networks
<1>2. V.disabled \cup R = (V.disabled \cup S) \cup {k}
  OBVIOUS
<1>3. R \in SUBSET V.corrupting
  BY <1>1
<1>4. Holds(V.disabled \cup R)
  BY <1>2
<1>5. R \in SafeSets(V)
  <2> HIDE DEF R
  <2> QED
    BY <1>3, <1>4, SafeSetsAre
<1>6. SumOver(f, R) <= SumOver(f, S)
  BY <1>5
<1>7. IsFiniteSet(S) /\ S \in SUBSET Links
  BY <1>1, SubsetsOfLinks
<1>8. \A x \in V.corrupting : f[x] \in Int /\ f[x] > 0
  BY TopologyAssumption DEF RatesKnown
<1>9. (\A y \in S : f[y] \in Int) /\ k \notin S /\ f[k] \in Int /\ f[k] > 0
  BY <1>1, <1>8
<1> HIDE DEF f
<1>10. SumOver(f, R) = SumOver(f, S) + f[k]
  <2>1. \A y \in S : f[y] \in Int /\ f[y] = f[y]
    BY <1>9
  <2> QED
    BY <1>7, <1>9, <2>1, SumMore
<1>11. SumOver(f, S) \in Int
  BY <1>7, <1>9, SumType
<1> QED
  BY <1>6, <1>9, <1>10, <1>11

\* A repair brings one link back.
LEMMA RepairedEffect ==
    ASSUME NEW T, NEW protects, NEW optimizes, Settled(T, protects, optimizes),
           NEW l \in T.disabled
    PROVE  LET V == EnableLink(T, l)
           IN  /\ Exact(V) /\ RatesKnown(V) /\ LgExact(V, protects)
               /\ V.disabled = T.disabled \ {l}
               /\ V.corrupting = T.corrupting
               /\ optimizes => Holds(V.disabled)
<1> DEFINE V == EnableLink(T, l)
<1>1. /\ Exact(T) /\ RatesKnown(T) /\ LgExact(T, protects)
      /\ optimizes => Holds(T.disabled)
  BY DEF Settled
<1>2. /\ T \in Networks /\ l \in Links /\ l \notin T.corrupting
      /\ T.lossRate \in [Links -> Int] /\ T.corrupting \in SUBSET Links
  BY <1>1 DEF Exact, Networks
<1>3. Exact(V) /\ Enabled(T, l, V)
  BY <1>1, <1>2, ExactEnabled, EnableEffect
<1> HIDE DEF V
<1>4. /\ V.disabled = T.disabled \ {l} /\ V.corrupting = T.corrupting
      /\ V.lgEnabled = T.lgEnabled
      /\ V.lossRate = [T.lossRate EXCEPT ![l] = InitialLossRate]
  BY <1>3 DEF Enabled
<1>5. RatesKnown(V)
  <2>1. /\ V.lossRate[l] = InitialLossRate
        /\ \A k \in Links : k # l => V.lossRate[k] = T.lossRate[k]
    BY <1>2, <1>4
  <2> QED
    BY <1>1, <1>2, <1>4, <2>1 DEF RatesKnown
<1>6. LgExact(V, protects)
  BY <1>1, <1>4 DEF LgExact
<1>7. optimizes => Holds(V.disabled)
  <2> DEFINE D == T.disabled
             E == V.disabled
  <2>1. E \subseteq D
    BY <1>4
  <2> HIDE DEF D, E
  <2>2. Holds(D) => Holds(E)
    BY <2>1, FewerHolds
  <2> QED
    BY <1>1, <2>2 DEF D, E
<1> QED
  BY <1>3, <1>4, <1>5, <1>6, <1>7 DEF V

\* The optimizer, of the network with the repaired link.
LEMMA OptimizerEffect ==
    ASSUME NEW V, Exact(V), RatesKnown(V), Holds(V.disabled),
           NEW S \in Optimizer(V)
    PROVE  /\ S \in SafeSets(V) /\ S \in SUBSET V.corrupting
           /\ Maximal(V, S)
           /\ \A R \in SafeSets(V) :
                SumOver(V.lossRate, R) <= SumOver(V.lossRate, S)
<1>1. \A l \in V.corrupting : V.lossRate[l] \in Nat
  BY DEF RatesKnown
<1>2. /\ S \in SafeSets(V)
      /\ \A R \in SafeSets(V) :
            SumOver(V.lossRate, R) <= SumOver(V.lossRate, S)
  BY <1>1, OptimizerMeans
<1>3. S \in SUBSET V.corrupting
  BY <1>2, SafeSetsAre
<1> QED
  BY <1>2, <1>3, BestIsTight

-----------------------------------------------------------------------------
(***************************************************************************)
(* The invariant.  CorrOpt's decisions are right only for a network whose  *)
(* caches are exact and whose constraint holds, so these come together.    *)
(***************************************************************************)
Counted ==
    /\ skipped \in Nat /\ added \in Nat /\ processed \in Nat
    /\ processed + Cardinality(queue) = Len(FailureTimes) - skipped + added

SimInv ==
    /\ Settled(topo, Protects, Optimizes)
    /\ QueueFor(queue, usedTimes, topo.disabled)
    /\ Counted

\* The queue after a response to event e that leaves the links of D and S
\* disabled.
Responded(e, D, S) ==
    /\ QueueFor(queue', usedTimes', D \cup S)
    /\ \E n \in Nat : /\ Cardinality(queue') = Cardinality(queue \ {e}) + n
                      /\ added' = added + n
    /\ \A f \in queue' : f \in queue \ {e} \/ f.time > e.time

\* What a response to an event leaves in the queue.
LEMMA RespondEffect ==
    ASSUME NEW e, e.time \in Nat, NEW D \in SUBSET Links,
           QueueFor(queue \ {e}, usedTimes, D),
           NEW S \in SUBSET (Links \ D), NEW T, Respond(e, T, S)
    PROVE  topo' = T /\ Responded(e, D, S)
<1> DEFINE q == queue \ {e}
<1>1. PICK delay \in [S -> RepairDelays], order \in SetToSeqs(S) :
        LET repairs == Scheduled([i \in DOMAIN order |->
                            Recovery(e.time + delay[order[i]], order[i])],
                            usedTimes)
        IN  /\ topo' = T
            /\ queue' = q \cup repairs.events
            /\ usedTimes' = repairs.used
            /\ added' = added + Len(order)
  BY DEF Respond
<1> DEFINE events == [i \in DOMAIN order |->
                        Recovery(e.time + delay[order[i]], order[i])]
           R      == Scheduled(events, usedTimes)
           low    == e.time + 1
<1>2. /\ topo' = T /\ queue' = q \cup R.events /\ usedTimes' = R.used
      /\ added' = added + Len(order)
  BY <1>1
<1>3. IsFiniteSet(S)
  BY SubsetsOfLinks
<1>4. \A i \in DOMAIN order : order[i] \in S
  BY <1>3, OrdersOf
<1>5. Len(order) \in Nat
  BY <1>3, OrdersOf
<1>6. ASSUME NEW l \in S PROVE delay[l] \in Nat /\ delay[l] > 0
  <2>1. \A d \in RepairDelays : d \in Nat /\ d > 0
    BY SimulationAssumption DEF RepairDelays
  <2>2. delay[l] \in RepairDelays
    OBVIOUS
  <2> QED
    BY <2>1, <2>2
<1>7. DOMAIN events = DOMAIN order /\ low \in Nat
  OBVIOUS
<1>8. ASSUME NEW i \in DOMAIN order
      PROVE  /\ events[i] = Recovery(events[i].time, order[i])
             /\ events[i].time \in Nat /\ events[i].time >= low
  <2> DEFINE t == e.time + delay[order[i]]
  <2>1. events[i] = Recovery(t, order[i])
    OBVIOUS
  <2>2. events[i].time = t
    BY <2>1, RecoveryParts
  <2>3. delay[order[i]] \in Nat /\ delay[order[i]] > 0
    BY <1>4, <1>6
  <2>4. t \in Nat /\ t >= low
    BY <2>3
  <2> HIDE DEF t, events
  <2> QED
    BY <2>1, <2>2, <2>4
<1> HIDE DEF events, low
<1>9. /\ QueueFor(q \cup R.events, R.used, D \cup S)
      /\ Cardinality(q \cup R.events) = Cardinality(q) + Len(order)
      /\ \A f \in R.events : f.time >= low
  <2> HIDE DEF q
  <2>1. QueueFor(q, usedTimes, D)
    BY DEF q
  <2> QED
    BY <1>7, <1>8, <2>1, RepairsScheduled
<1> HIDE DEF R, q
<1>10. ASSUME NEW f \in queue' PROVE f \in q \/ f.time > e.time
  <2>1. QueueFor(queue', usedTimes', D \cup S)
    BY <1>2, <1>9
  <2>2. f.time \in Nat
    BY <2>1 DEF QueueFor
  <2>3. f \in q \/ f.time >= low
    BY <1>2, <1>9
  <2> QED
    BY <2>2, <2>3 DEF low
<1>11. \E n \in Nat : /\ Cardinality(queue') = Cardinality(q) + n
                      /\ added' = added + n
  BY <1>2, <1>5, <1>9
<1>12. QueueFor(queue', usedTimes', D \cup S)
  BY <1>2, <1>9
<1> QED
  BY <1>2, <1>10, <1>11, <1>12 DEF Responded, q

\* Events in the queue and events taken from it are those that were added.
LEMMA CountedAfter ==
    ASSUME Counted, NEW e \in queue, NEW D \in SUBSET Links,
           QueueFor(queue, usedTimes, D),
           \/ /\ queue' = queue \ {e} /\ skipped' = skipped + 1
              /\ UNCHANGED <<added, processed>>
           \/ /\ \E n \in Nat :
                    /\ Cardinality(queue') = Cardinality(queue \ {e}) + n
                    /\ added' = added + n
              /\ processed' = processed + 1 /\ UNCHANGED skipped
    PROVE  Counted'
<1> DEFINE c == Cardinality(queue)
           d == Cardinality(queue \ {e})
<1>1. c \in Nat /\ d = c - 1
  BY EventTaken
<1>2. /\ skipped \in Nat /\ added \in Nat /\ processed \in Nat
      /\ processed + c = Len(FailureTimes) - skipped + added
  BY DEF Counted
<1>3. Len(FailureTimes) \in Nat
  BY SimulationAssumption
<1> HIDE DEF c, d
<1>4. CASE /\ queue' = queue \ {e} /\ skipped' = skipped + 1
           /\ UNCHANGED <<added, processed>>
  <2>1. Cardinality(queue') = c - 1
    BY <1>1, <1>4 DEF d
  <2>2. /\ skipped' \in Nat /\ added' \in Nat /\ processed' \in Nat
        /\ processed' + Cardinality(queue')
                = Len(FailureTimes) - skipped' + added'
    BY <1>1, <1>2, <1>3, <1>4, <2>1
  <2> QED
    BY <2>2 DEF Counted
<1>5. CASE /\ \E n \in Nat : /\ Cardinality(queue') = Cardinality(queue \ {e}) + n
                             /\ added' = added + n
           /\ processed' = processed + 1 /\ UNCHANGED skipped
  <2>1. PICK n \in Nat : Cardinality(queue') = d + n /\ added' = added + n
    BY <1>5 DEF d
  <2>2. /\ skipped' \in Nat /\ added' \in Nat /\ processed' \in Nat
        /\ processed' + Cardinality(queue')
                = Len(FailureTimes) - skipped' + added'
    BY <1>1, <1>2, <1>3, <1>5, <2>1
  <2> QED
    BY <2>2 DEF Counted
<1> QED
  BY <1>4, <1>5

\* The trace's failures, at times of their own, are the initial queue.
LEMMA InitialQueue ==
    LET trace == Scheduled([i \in DOMAIN FailureTimes |->
                                Failure(FailureTimes[i])], {})
    IN  /\ QueueFor(trace.events, trace.used, {})
        /\ Cardinality(trace.events) = Len(FailureTimes)
<1> DEFINE n      == Len(FailureTimes)
           I      == 1 .. n
           events == [i \in DOMAIN FailureTimes |-> Failure(FailureTimes[i])]
           R      == Scheduled(events, {})
<1>1. n \in Nat /\ DOMAIN FailureTimes = I /\ \A i \in I : FailureTimes[i] \in Nat
  BY SimulationAssumption
<1>2. \A i \in I : events[i] = Failure(FailureTimes[i])
  BY <1>1
<1>3. DOMAIN events = 1 .. n
  BY <1>1
<1>4. \A i \in 1 .. n : events[i].time \in Nat
  BY <1>1, <1>2 DEF Failure
<1> HIDE DEF events, R
<1>5. PICK at : IsSchedule(events, {}, I, at, R)
  <2>1. {} \in SUBSET Nat /\ IsFiniteSet({})
    BY FS_EmptySet
  <2> HIDE DEF n
  <2> QED
    BY <1>1, <1>3, <1>4, <2>1, ScheduledIsSchedule DEF R
<1>6. IsFiniteSet(I) /\ Cardinality(I) = n
  <2>1. n \in Nat
    BY <1>1
  <2> HIDE DEF n
  <2> QED
    BY <2>1, FS_Interval
<1> HIDE DEF I, n
<1> DEFINE ev == [i \in I |-> Failure(at[i])]
<1>7. /\ at \in [I -> Nat] /\ IsFiniteSet(R.used)
      /\ \A i, j \in I : at[i] = at[j] => i = j
      /\ R.used = {at[i] : i \in I}
  BY <1>5 DEF IsSchedule
<1>8. \A i \in I : ev[i].time = at[i] /\ ev[i].type = "failure"
                   /\ ev[i] = Failure(at[i])
  BY DEF Failure
<1>9. R.events = {ev[i] : i \in I}
  <2>1. ASSUME NEW i \in I PROVE [events[i] EXCEPT !.time = at[i]] = ev[i]
    <3>1. events[i] = Failure(FailureTimes[i])
      BY <1>2
    <3> QED
      BY <3>1, FailureParts
  <2> DEFINE New == R.events
  <2>2. New = {[events[i] EXCEPT !.time = at[i]] : i \in I}
    BY <1>5 DEF IsSchedule
  <2> HIDE DEF ev, New
  <2>3. New = {ev[i] : i \in I}
    BY <2>1, <2>2
  <2> QED
    BY <2>3 DEF New
<1>10. ev \in Injection(I, R.events) /\ ev \in Surjection(I, R.events)
  <2>1. DOMAIN ev = I /\ ev \in [I -> R.events]
    BY <1>9
  <2>2. \A i, j \in I : ev[i] = ev[j] => i = j
    BY <1>7, <1>8
  <2> HIDE DEF ev
  <2> QED
    BY <1>9, <2>1, <2>2 DEF Injection, IsInjective, Surjection
<1> HIDE DEF ev
<1>11. IsFiniteSet(R.events) /\ Cardinality(R.events) = n
  BY <1>6, <1>10, FS_Surjection
<1>12. \A e \in R.events : e.time \in R.used /\ IsEvent(e)
  BY <1>7, <1>8, <1>9 DEF IsEvent
<1>13. \A e, f \in R.events : e.time = f.time => e = f
  BY <1>7, <1>8, <1>9
<1>14. \A l : Repairs(R.events, l) = {}
  BY <1>8, <1>9 DEF Repairs
<1>15. R.used \in SUBSET Nat
  BY <1>7
<1> QED
  BY <1>7, <1>11, <1>12, <1>13, <1>14, <1>15 DEF QueueFor, R, events, n

\* The invariant holds initially.
LEMMA InitSim == Init => SimInv
<1> SUFFICES ASSUME Init PROVE SimInv
  OBVIOUS
<1>1. Settled(topo, Protects, Optimizes) /\ topo.disabled = {}
  BY SettledBuilt DEF Init, BuiltTopology
<1>2. QueueFor(queue, usedTimes, {}) /\ Cardinality(queue) = Len(FailureTimes)
  BY InitialQueue DEF Init
<1>3. Len(FailureTimes) \in Nat
  BY SimulationAssumption
<1>4. Counted
  BY <1>2, <1>3 DEF Init, Counted
<1> QED
  BY <1>1, <1>2, <1>4 DEF SimInv

\* The measured performance has its type.
LEMMA PerfsTyped ==
    ASSUME NEW rate, NEW perf \in NearestPerf(rate)
    PROVE  perf \in [lossRate : Nat, capacity : Nat]
BY SimulationAssumption DEF NearestPerf

\* A failure that is processed keeps the invariant and adds only later
\* events.
LEMMA FailStep ==
    ASSUME SimInv, NEW e \in queue, e.type = "failure", UNCHANGED solution,
           NEW l \in Links, NEW rate \in LossRates, ProcessFailure(e, l, rate)
    PROVE  /\ SimInv'
           /\ \A f \in queue' : f \in queue \ {e} \/ f.time > e.time
<1> DEFINE C    == Corrupt(topo, l, rate)
           D    == topo.disabled
<1>1. /\ Settled(topo, Protects, Optimizes) /\ QueueFor(queue, usedTimes, D)
      /\ Counted
  BY DEF SimInv
<1>2. D \in SUBSET Links /\ l \in Links \ D
  BY <1>1 DEF Settled, Exact, Networks, ProcessFailure
<1>3. PICK perf \in NearestPerf(rate) :
        LET protected == IF Protects THEN Protect(C, l, perf) ELSE C
            disabled  == DisabledAtFailure(protected, l)
        IN  Respond(e, DisableLinks(protected, disabled), disabled)
  BY DEF ProcessFailure, FailLink, Protects
<1>4. perf \in [lossRate : Nat, capacity : Nat]
  BY PerfsTyped
<1> DEFINE P == IF Protects THEN Protect(C, l, perf) ELSE C
           S == DisabledAtFailure(P, l)
           U == DisableLinks(P, S)
<1>5. Respond(e, U, S)
  BY <1>3
<1>6. Failed(topo, l, P, Protects)
  <2>1. Exact(topo) /\ RatesKnown(topo) /\ LgExact(topo, Protects)
    BY <1>1 DEF Settled
  <2>2. /\ Protects => Failed(topo, l, Protect(C, l, perf), Protects)
        /\ ~Protects => Failed(topo, l, C, Protects)
    BY <1>2, <1>4, <2>1, FailureEffect
  <2> QED
    BY <2>2
<1> HIDE DEF P
<1>7. S \in SUBSET {l} /\ (Optimizes => Checked(P, l, S))
  BY DEF DisabledAtFailure, Optimizes, Checked
<1> HIDE DEF S
<1>8. Settled(U, Protects, Optimizes) /\ U.disabled = D \cup S
  <2>1. Settled(topo, Protects, Optimizes)
    BY <1>1
  <2>2. S \in SUBSET {l}
    BY <1>7
  <2>3. Optimizes => Checked(P, l, S)
    BY <1>7
  <2>4. l \in Links \ topo.disabled
    BY <1>2
  <2> HIDE DEF D, C
  <2>5. /\ Settled(DisableLinks(P, S), Protects, Optimizes)
        /\ DisableLinks(P, S).disabled = topo.disabled \cup S
    BY <1>6, <2>1, <2>2, <2>3, <2>4, FailureSettled
  <2> QED
    BY <2>5 DEF D
<1> HIDE DEF U
<1>9. e.time \in Nat /\ QueueFor(queue \ {e}, usedTimes, D)
  BY <1>1, <1>2, EventTaken
<1>10. S \in SUBSET (Links \ D)
  BY <1>2, <1>7
<1>11. topo' = U /\ Responded(e, D, S)
  <2> HIDE DEF D
  <2> QED
    BY <1>2, <1>5, <1>9, <1>10, RespondEffect
<1>12. Counted'
  <2>1. /\ \E n \in Nat : /\ Cardinality(queue') = Cardinality(queue \ {e}) + n
                          /\ added' = added + n
        /\ processed' = processed + 1 /\ UNCHANGED skipped
    BY <1>11 DEF Responded, ProcessFailure, FailLink
  <2> HIDE DEF D
  <2> QED
    BY <1>1, <1>2, <2>1, CountedAfter
<1>13. Protects' = Protects /\ Optimizes' = Optimizes
  BY DEF Protects, Optimizes
<1>14. Settled(topo', Protects', Optimizes')
  BY <1>8, <1>11, <1>13
<1>15. QueueFor(queue', usedTimes', topo'.disabled)
  BY <1>8, <1>11 DEF Responded
<1> QED
  BY <1>11, <1>12, <1>14, <1>15 DEF SimInv, Responded

\* The network before a recovery is responded to, and the links S that the
\* solution then disables.
LEMMA RecoverStep ==
    ASSUME SimInv, NEW e \in queue, e.type = "recovery", UNCHANGED solution,
           ProcessRecovery(e)
    PROVE  /\ SimInv'
           /\ \A f \in queue' : f \in queue \ {e} \/ f.time > e.time
           /\ Optimizes =>
                LET V == EnableLink(topo, e.link)
                IN  \E S \in SafeSets(V) :
                        /\ topo'.corrupting = V.corrupting \ S
                        /\ \A R \in SafeSets(V) :
                            SumOver(V.lossRate, R) <= SumOver(V.lossRate, S)
<1> DEFINE V == EnableLink(topo, e.link)
           D == topo.disabled
           E == D \ {e.link}
<1>1. /\ Settled(topo, Protects, Optimizes) /\ QueueFor(queue, usedTimes, D)
      /\ Counted
  BY DEF SimInv
<1>2. D \in SUBSET Links
  BY <1>1 DEF Settled, Exact, Networks
<1>3. e.link \in D /\ e.time \in Nat /\ QueueFor(queue \ {e}, usedTimes, E)
  BY <1>1, <1>2, EventTaken
<1>4. PICK S \in IF Optimizes THEN Optimizer(V) ELSE {{}} :
        Respond(e, DisableLinks(V, S), S)
  BY DEF ProcessRecovery, Optimizes
<1> DEFINE U == DisableLinks(V, S)
<1>5. Respond(e, U, S)
  BY <1>4
<1>6. /\ Exact(V) /\ RatesKnown(V) /\ LgExact(V, Protects)
      /\ V.disabled = E /\ V.corrupting = topo.corrupting
      /\ Optimizes => Holds(V.disabled)
  BY <1>1, <1>3, RepairedEffect
<1> HIDE DEF V
<1>7. Optimizes =>
        /\ S \in SafeSets(V) /\ Maximal(V, S)
        /\ \A R \in SafeSets(V) :
            SumOver(V.lossRate, R) <= SumOver(V.lossRate, S)
  <2>1. Exact(V) /\ RatesKnown(V)
    BY <1>6
  <2> SUFFICES ASSUME Optimizes PROVE
        /\ S \in SafeSets(V) /\ Maximal(V, S)
        /\ \A R \in SafeSets(V) :
            SumOver(V.lossRate, R) <= SumOver(V.lossRate, S)
    OBVIOUS
  <2>2. Holds(V.disabled) /\ S \in Optimizer(V)
    BY <1>4, <1>6
  <2> QED
    BY <2>1, <2>2, OptimizerEffect
<1>8. S \in SUBSET V.corrupting
  BY <1>4, <1>7, SafeSetsAre
<1>9. /\ Settled(U, Protects, Optimizes)
      /\ U.disabled = V.disabled \cup S /\ U.corrupting = V.corrupting \ S
  <2>1. Exact(V) /\ RatesKnown(V) /\ LgExact(V, Protects)
    BY <1>6
  <2>2. Optimizes => Maximal(V, S)
    BY <1>7
  <2> QED
    BY <1>8, <2>1, <2>2, SettledDisabled
<1> HIDE DEF U
<1>10. E \in SUBSET Links /\ S \in SUBSET (Links \ E)
  <2>1. V.corrupting \in SUBSET Links /\ V.disabled \cap V.corrupting = {}
    BY <1>6 DEF Exact, Networks
  <2>2. S \cap V.disabled = {}
    BY <1>8, <2>1
  <2> QED
    BY <1>2, <1>6, <1>8, <2>1, <2>2
<1>11. topo' = U /\ Responded(e, E, S)
  <2> HIDE DEF E
  <2> QED
    BY <1>3, <1>5, <1>10, RespondEffect
<1>12. Counted'
  <2>1. /\ \E n \in Nat : /\ Cardinality(queue') = Cardinality(queue \ {e}) + n
                          /\ added' = added + n
        /\ processed' = processed + 1 /\ UNCHANGED skipped
    BY <1>11 DEF Responded, ProcessRecovery
  <2> HIDE DEF D
  <2> QED
    BY <1>1, <1>2, <2>1, CountedAfter
<1>13. Protects' = Protects /\ Optimizes' = Optimizes
  BY DEF Protects, Optimizes
<1>14. Settled(topo', Protects', Optimizes')
  BY <1>9, <1>11, <1>13
<1>15. QueueFor(queue', usedTimes', topo'.disabled)
  BY <1>6, <1>9, <1>11 DEF Responded
<1>16. SimInv'
  BY <1>12, <1>14, <1>15 DEF SimInv
<1> QED
  BY <1>7, <1>9, <1>11, <1>16 DEF Responded, V

-----------------------------------------------------------------------------
(* The theorems. *)

\* A failure that is skipped does.
LEMMA SkipStep ==
    ASSUME SimInv, NEW e \in queue, e.type = "failure", UNCHANGED solution,
           NEW l, SkipFailure(e, l)
    PROVE  SimInv' /\ queue' = queue \ {e}
<1> DEFINE D == topo.disabled
<1>1. /\ Settled(topo, Protects, Optimizes) /\ QueueFor(queue, usedTimes, D)
      /\ Counted
  BY DEF SimInv
<1>2. D \in SUBSET Links
  BY <1>1 DEF Settled, Exact, Networks
<1>3. QueueFor(queue \ {e}, usedTimes, D)
  BY <1>1, <1>2, EventTaken
<1>4. /\ queue' = queue \ {e} /\ skipped' = skipped + 1
      /\ UNCHANGED <<topo, usedTimes, added, processed>>
  BY DEF SkipFailure
<1>5. Counted'
  <2> HIDE DEF D
  <2> QED
    BY <1>1, <1>2, <1>4, CountedAfter
<1>6. Settled(topo', Protects', Optimizes')
  BY <1>1, <1>4 DEF Protects, Optimizes
<1>7. QueueFor(queue', usedTimes', topo'.disabled)
  BY <1>3, <1>4
<1> QED
  BY <1>4, <1>5, <1>6, <1>7 DEF SimInv

\* What an event e does, whatever it is.
LEMMA EventStep ==
    ASSUME SimInv, NEW e \in queue, UNCHANGED solution,
           \/ e.type = "failure" /\ \E l \in Links : SkipFailure(e, l)
           \/ e.type = "failure" /\ \E l \in Links, rate \in LossRates :
                                        ProcessFailure(e, l, rate)
           \/ e.type = "recovery" /\ ProcessRecovery(e)
    PROVE  /\ SimInv'
           /\ \A f \in queue' : f \in queue \ {e} \/ f.time > e.time
<1>1. CASE e.type = "failure" /\ \E l \in Links : SkipFailure(e, l)
  BY <1>1, SkipStep
<1>2. CASE e.type = "failure" /\ \E l \in Links, rate \in LossRates :
                                    ProcessFailure(e, l, rate)
  BY <1>2, FailStep
<1>3. CASE e.type = "recovery" /\ ProcessRecovery(e)
  BY <1>3, RecoverStep
<1> QED
  BY <1>1, <1>2, <1>3

\* Every step keeps the invariant.
LEMMA NextSim == SimInv /\ [Next]_vars => SimInv'
<1> SUFFICES ASSUME SimInv, [Next]_vars PROVE SimInv'
  OBVIOUS
<1>1. CASE Next
  BY <1>1, EventStep DEF Next
<1>2. CASE UNCHANGED vars
  BY <1>2 DEF vars, SimInv, Counted, Protects, Optimizes
<1> QED
  BY <1>1, <1>2

\* The invariant of the simulation.
LEMMA SpecSim == Spec => []SimInv
BY InitSim, NextSim, PTL DEF Spec

\* However failures, repairs and LinkGuardian follow one another, the counts,
\* capacities, penalties and heaps that topology.py updates link by link are
\* those that computing them anew from the links gives.
THEOREM CachesStayExact == Spec => []CachesExact
<1>1. SimInv => CachesExact
  <2> SUFFICES ASSUME SimInv PROVE CachesExact
    OBVIOUS
  <2>1. /\ topo \in Networks
        /\ CountsExact(topo) /\ CapacityExact(topo)
        /\ RatesExact(topo) /\ PortsExact(topo)
    BY DEF SimInv, Settled, Exact
  <2>2. PathCountsExact /\ PodCapacityExact
    BY <2>1 DEF PathCountsExact, PodCapacityExact, CountsExact, CapacityExact
  <2>3. PenaltyExact
    BY <2>1 DEF PenaltyExact, RatesExact, HeapOf
  <2>4. topo.lgPorts = LgPortsOf(topo)
    <3>1. topo.lgPorts \in [Ports -> Int]
      BY <2>1 DEF Networks
    <3> QED
      BY <2>1, <3>1 DEF PortsExact, LgPortsOf, OnPort
  <2>5. LgPortsExact
    BY <2>1, <2>4 DEF LgPortsExact, PortsExact, HeapExact, HeapOf, LgPortSet
  <2> QED
    BY <2>2, <2>3, <2>5 DEF CachesExact
<1> QED
  BY <1>1, SpecSim, PTL

\* LinkGuardian is enabled on the corrupting links that can run it, and on no
\* others, under the solutions that use it.
THEOREM LgFollowsCorruption == Spec => []LgExactlyOnCorrupting
<1>1. SimInv => LgExactlyOnCorrupting
  BY DEF SimInv, Settled, LgExact, LgExactlyOnCorrupting
<1> QED
  BY <1>1, SpecSim, PTL

\* The fast checker and the optimizer never leave a ToR with fewer paths to
\* the core than the constraint demands.
THEOREM ConstraintHolds == Spec => []CapacityConstraintHolds
<1>1. SimInv => CapacityConstraintHolds
  BY DEF SimInv, Settled, Holds, Enough, CapacityConstraintHolds
<1> QED
  BY <1>1, SpecSim, PTL

\* No corrupting link stays up that the constraint would allow to disable.
THEOREM NoLinkLeftUp == Spec => []NothingMoreToDisable
<1>1. SimInv => NothingMoreToDisable
  <2> SUFFICES ASSUME SimInv, Optimizes, NEW l \in topo.corrupting
               PROVE  {l} \notin SafeSets(topo)
    BY DEF NothingMoreToDisable
  <2>1. ~Holds(topo.disabled \cup {l})
    BY DEF SimInv, Settled, Tight
  <2> QED
    BY <2>1, SafeSetsAre
<1> QED
  BY <1>1, SpecSim, PTL

\* Every disabled link has one repair coming, and no event is lost or counted
\* twice, although times are moved apart as events are added.
THEOREM RepairsCome == Spec => []RepairScheduled
<1>1. SimInv => RepairScheduled
  <2> SUFFICES ASSUME SimInv PROVE RepairScheduled
    OBVIOUS
  <2>1. topo.disabled \cap topo.corrupting = {}
    BY DEF SimInv, Settled, Exact
  <2>2. processed + Cardinality(queue) = Len(FailureTimes) - skipped + added
    BY DEF SimInv, Counted
  <2>3. ASSUME NEW l \in Links
        PROVE  Cardinality(Repairs(queue, l))
                    = IF l \in topo.disabled THEN 1 ELSE 0
    <3>1. CASE l \in topo.disabled
      <4>1. PICK e : Repairs(queue, l) = {e}
        BY <3>1 DEF SimInv, QueueFor
      <4>2. Cardinality({e}) = 1
        BY FS_Singleton
      <4> QED
        BY <3>1, <4>1, <4>2
    <3>2. CASE l \notin topo.disabled
      <4>1. Repairs(queue, l) = {}
        BY <3>2 DEF SimInv, QueueFor
      <4> QED
        BY <3>2, <4>1, FS_EmptySet
    <3> QED
      BY <3>1, <3>2
  <2> QED
    BY <2>1, <2>2, <2>3 DEF RepairScheduled, Repairs
<1> QED
  BY <1>1, SpecSim, PTL

\* When a link is repaired, no safe set of corrupting links has a larger loss
\* rate than the one the optimizer disables in two passes.
THEOREM OptimizerIsBest == Spec => OptimizerIsOptimal
<1> DEFINE Best ==
        \A e \in queue \ queue' : (e.type = "recovery" /\ Optimizes) =>
            LET before == EnableLink(topo, e.link)
                gone   == before.corrupting \ topo'.corrupting
            IN  /\ gone \in SafeSets(before)
                /\ \A S \in SafeSets(before) :
                    SumOver(before.lossRate, S)
                        <= SumOver(before.lossRate, gone)
<1>1. SimInv /\ [Next]_vars => [Best]_vars
  <2> SUFFICES ASSUME SimInv, Next, NEW e \in queue \ queue',
                      e.type = "recovery", Optimizes
               PROVE  LET before == EnableLink(topo, e.link)
                          gone   == before.corrupting \ topo'.corrupting
                      IN  /\ gone \in SafeSets(before)
                          /\ \A S \in SafeSets(before) :
                                SumOver(before.lossRate, S)
                                    <= SumOver(before.lossRate, gone)
    OBVIOUS
  <2> DEFINE V == EnableLink(topo, e.link)
  <2>1. PICK f \in queue :
            /\ UNCHANGED solution
            /\ \/ f.type = "failure" /\ \E l \in Links : SkipFailure(f, l)
               \/ f.type = "failure" /\ \E l \in Links, rate \in LossRates :
                                            ProcessFailure(f, l, rate)
               \/ f.type = "recovery" /\ ProcessRecovery(f)
    BY DEF Next
  <2>2. queue \ {f} \subseteq queue'
    <3>1. \A T, S : Respond(f, T, S) => queue \ {f} \subseteq queue'
      BY DEF Respond
    <3>2. CASE f.type = "failure" /\ \E l \in Links : SkipFailure(f, l)
      BY <3>2 DEF SkipFailure
    <3>3. CASE f.type = "failure" /\ \E l \in Links, rate \in LossRates :
                                        ProcessFailure(f, l, rate)
      BY <3>1, <3>3 DEF ProcessFailure, FailLink
    <3>4. CASE f.type = "recovery" /\ ProcessRecovery(f)
      BY <3>1, <3>4 DEF ProcessRecovery
    <3> QED
      BY <2>1, <3>2, <3>3, <3>4
  <2>3. e = f
    BY <2>2
  <2>4. ProcessRecovery(e) /\ UNCHANGED solution
    BY <2>1, <2>3
  <2>5. PICK S \in SafeSets(V) :
            /\ topo'.corrupting = V.corrupting \ S
            /\ \A R \in SafeSets(V) :
                SumOver(V.lossRate, R) <= SumOver(V.lossRate, S)
    BY <2>4, RecoverStep
  <2> HIDE DEF V
  <2>6. V.corrupting \ topo'.corrupting = S
    BY <2>5, SafeSetsAre
  <2> QED
    BY <2>5, <2>6 DEF V
<1> QED
  BY <1>1, SpecSim, PTL DEF Spec, OptimizerIsOptimal

-----------------------------------------------------------------------------
(***************************************************************************)
(* The rows of the output.  Extremes of finite sets of integers exist; the *)
(* heaps of the topology hold the values that the extremes are of.         *)
(***************************************************************************)
LEMMA Minimum ==
    ASSUME NEW S, IsFiniteSet(S), \A x \in S : x \in Int, S # {}
    PROVE  Min(S) \in S /\ \A y \in S : Min(S) <= y
<1> DEFINE Least(R) == \E x \in R : \A y \in R : x <= y
           Bad      == {R \in SUBSET S : R # {} /\ ~Least(R)}
<1>1. Bad = {}
  <2> SUFFICES ASSUME Bad # {} PROVE FALSE
    OBVIOUS
  <2>1. PICK R \in Bad : \A Q \in Bad : Q \subseteq R => Q = R
    <3>1. Bad \subseteq SUBSET S
      OBVIOUS
    <3> HIDE DEF Bad
    <3> QED
      BY <3>1, MinimalSubset
  <2>2. PICK x \in R : x \in Int
    OBVIOUS
  <2> DEFINE Q == R \ {x}
  <2>3. CASE Q = {}
    <3>1. \A y \in R : x <= y
      BY <2>2, <2>3
    <3> QED
      BY <2>1, <3>1
  <2>4. CASE Q # {}
    <3>1. Q \in SUBSET S /\ Q # R
      OBVIOUS
    <3>2. PICK z \in Q : \A y \in Q : z <= y
      BY <2>1, <2>4, <3>1
    <3>3. z \in Int /\ \A y \in R : y \in Int
      BY <3>1
    <3>4. CASE x <= z
      <4>1. \A y \in R : x <= y
        BY <2>2, <3>2, <3>3, <3>4
      <4> QED
        BY <2>1, <4>1
    <3>5. CASE ~(x <= z)
      <4>1. \A y \in R : z <= y
        BY <2>2, <3>2, <3>3, <3>5
      <4> QED
        BY <2>1, <4>1
    <3> QED
      BY <3>4, <3>5
  <2> QED
    BY <2>3, <2>4
<1>2. Least(S)
  BY <1>1
<1> QED
  BY <1>2 DEF Min

\* The minimum, by its bounds.
LEMMA MinimumIs ==
    ASSUME NEW S, NEW x \in S, \A y \in S : x <= y, \A y \in S : y \in Int
    PROVE  Min(S) = x
<1>1. \A z \in S : (\A y \in S : z <= y) => z = x
  OBVIOUS
<1> QED
  BY <1>1 DEF Min

\* The maximum, by its bounds.
LEMMA MaximumIs ==
    ASSUME NEW S, NEW x \in S, \A y \in S : x >= y, \A y \in S : y \in Int
    PROVE  Max(S) = x
<1>1. \A z \in S : (\A y \in S : z >= y) => z = x
  OBVIOUS
<1> QED
  BY <1>1 DEF Max

\* A number that is no more than another does not count for the maximum.
LEMMA MaximumWith ==
    ASSUME NEW S, IsFiniteSet(S), \A x \in S : x \in Nat, S # {}
    PROVE  Max({0} \cup S) = Max(S)
<1> DEFINE neg == [x \in S |-> -x]
           N   == {neg[x] : x \in S}
<1>1. neg \in Surjection(S, N)
  BY DEF Surjection
<1>2. IsFiniteSet(N)
  BY <1>1, FS_Surjection
<1>3. (\A x \in N : x \in Int) /\ N # {}
  OBVIOUS
<1>4. Min(N) \in N /\ \A y \in N : Min(N) <= y
  <2> HIDE DEF N
  <2> QED
    BY <1>2, <1>3, Minimum
<1>5. PICK m \in S : Min(N) = neg[m]
  BY <1>4
<1>6. \A y \in S : m >= y
  <2> TAKE y \in S
  <2>1. neg[m] <= neg[y]
    BY <1>4, <1>5
  <2>2. neg[m] = -m /\ neg[y] = -y /\ m \in Int /\ y \in Int
    OBVIOUS
  <2> HIDE DEF neg
  <2> QED
    BY <2>1, <2>2
<1>7. Max(S) = m
  BY <1>6, MaximumIs
<1> DEFINE Z == {0} \cup S
<1>8. m \in Z /\ (\A y \in Z : m >= y) /\ \A y \in Z : y \in Int
  BY <1>6
<1>9. Max(Z) = m
  <2> HIDE DEF Z
  <2> QED
    BY <1>8, MaximumIs
<1> QED
  BY <1>7, <1>9

\* The values in a heap.
LEMMA HeapValues ==
    ASSUME NEW i, NEW f, NEW S
    PROVE  BagToSet(HeapOf(i, f, S)) = {i} \cup {f[x] : x \in S}
BY DEF HeapOf, BagToSet, SetToBag, Histogram, (+)

\* The least capacity of a layer is the least bottleneck of a pod.
LEMMA LeastCapacity ==
    ASSUME NEW T \in Networks
    PROVE  Min({PodBottleneck(T, pod) : pod \in Pods})
                = Min({T.podCapacity[k] : k \in DOMAIN T.podCapacity})
<1> DEFINE cap == T.podCapacity
           K   == Pods \X {"TOR_AGG", "AGG_CORE"}
           A   == {PodBottleneck(T, pod) : pod \in Pods}
           B   == {cap[k] : k \in DOMAIN cap}
<1>1. cap \in [K -> Int] /\ DOMAIN cap = K
  BY DEF Networks
<1>2. ASSUME NEW pod \in Pods
      PROVE  /\ PodBottleneck(T, pod) \in B
             /\ PodBottleneck(T, pod) <= cap[<<pod, "TOR_AGG">>]
             /\ PodBottleneck(T, pod) <= cap[<<pod, "AGG_CORE">>]
  <2> DEFINE a == cap[<<pod, "TOR_AGG">>]
             c == cap[<<pod, "AGG_CORE">>]
             C == {a, c}
  <2>1. a \in Int /\ c \in Int /\ a \in B /\ c \in B
    BY <1>1
  <2>2. PodBottleneck(T, pod) = Min(C)
    <3>1. {cap[<<pod, type>>] : type \in {"TOR_AGG", "AGG_CORE"}} = C
      OBVIOUS
    <3> QED
      BY <3>1 DEF PodBottleneck
  <2> HIDE DEF a, c
  <2>3. CASE a <= c
    <3>1. Min(C) = a
      BY <2>1, <2>3, MinimumIs
    <3> QED
      BY <2>1, <2>2, <2>3, <3>1 DEF a, c
  <2>4. CASE ~(a <= c)
    <3>1. Min(C) = c
      BY <2>1, <2>4, MinimumIs
    <3> QED
      BY <2>1, <2>2, <2>4, <3>1 DEF a, c
  <2> QED
    BY <2>3, <2>4
<1>3. CASE Pods = {}
  <2>1. A = B
    BY <1>1, <1>3
  <2> QED
    BY <2>1
<1>4. CASE Pods # {}
  <2>1. IsFiniteSet(K)
    <3> DEFINE f == [sw \in Tors \cup Aggs |-> PodOf[sw]]
    <3>1. f \in Surjection(Tors \cup Aggs, Pods)
      BY DEF Surjection, Pods
    <3>2. IsFiniteSet(Tors \cup Aggs)
      BY TopologyAssumption, FS_Union
    <3>3. IsFiniteSet(Pods)
      BY <3>1, <3>2, FS_Surjection
    <3>4. IsFiniteSet({"TOR_AGG", "AGG_CORE"})
      <4> DEFINE X == {"TOR_AGG"}
                 Y == {"AGG_CORE"}
      <4>1. X \cup Y = {"TOR_AGG", "AGG_CORE"}
        OBVIOUS
      <4>2. IsFiniteSet(X) /\ IsFiniteSet(Y)
        BY FS_Singleton
      <4> HIDE DEF X, Y
      <4>3. IsFiniteSet(X \cup Y)
        BY <4>2, FS_Union
      <4> QED
        BY <4>1, <4>3
    <3> QED
      BY <3>3, <3>4, FS_Product
  <2>2. IsFiniteSet(B) /\ B # {} /\ \A y \in B : y \in Int
    <3>1. cap \in Surjection(K, B)
      BY <1>1 DEF Surjection
    <3>2. IsFiniteSet(B)
      BY <2>1, <3>1, FS_Surjection
    <3>3. PICK pod \in Pods : <<pod, "TOR_AGG">> \in K
      BY <1>4
    <3>4. cap[<<pod, "TOR_AGG">>] \in B
      BY <1>1, <3>3
    <3>5. \A y \in B : y \in Int
      BY <1>1
    <3> HIDE DEF B
    <3> QED
      BY <3>2, <3>4, <3>5
  <2> DEFINE b == Min(B)
  <2>3. b \in B /\ \A y \in B : b <= y
    <3> HIDE DEF B
    <3> QED
      BY <2>2, Minimum
  <2>4. PICK pod \in Pods, type \in {"TOR_AGG", "AGG_CORE"} :
            b = cap[<<pod, type>>]
    <3>1. PICK k \in K : b = cap[k]
      BY <1>1, <2>3
    <3>2. PICK pod \in Pods, type \in {"TOR_AGG", "AGG_CORE"} :
            k = <<pod, type>>
      OBVIOUS
    <3> QED
      BY <3>1, <3>2
  <2>5. PodBottleneck(T, pod) \in B /\ PodBottleneck(T, pod) <= b
    BY <1>2, <2>4
  <2> HIDE DEF b
  <2>6. b = PodBottleneck(T, pod)
    <3> HIDE DEF B
    <3>1. b <= PodBottleneck(T, pod) /\ b \in Int
          /\ PodBottleneck(T, pod) \in Int
      BY <2>2, <2>3, <2>5
    <3> QED
      BY <2>5, <3>1
  <2>7. b \in A /\ (\A y \in A : b <= y) /\ \A y \in A : y \in Int
    BY <1>2, <2>2, <2>3, <2>6
  <2>8. Min(A) = b
    <3> HIDE DEF A
    <3> QED
      BY <2>7, MinimumIs
  <2> QED
    BY <2>8 DEF b
<1> QED
  BY <1>3, <1>4

\* The metrics of an exact network are those of its links.
LEMMA MetricsAre ==
    ASSUME NEW T, Exact(T), RatesKnown(T), Links # {}
    PROVE  LET up == Links \ T.disabled
               m  == Metrics(T)
           IN  /\ m.effPenalty = SumOver(T.effLossRate, up)
               /\ m.minPaths = Min({PathsOf(T)[t] : t \in Tors})
               /\ m.minCapacity = Min({CapacitiesOf(T)[k] :
                                        k \in DOMAIN T.podCapacity})
               /\ m.maxLossRate = Max({InitialLossRate} \cup
                                        {T.lossRate[l] : l \in up})
               /\ m.maxLgPorts = Max({LgPortsOf(T)[p] : p \in Ports})
               /\ m.disabled + Cardinality(up) = Cardinality(Links)
<1> DEFINE up == Links \ T.disabled
           m  == Metrics(T)
<1>1. /\ T \in Networks /\ CountsExact(T) /\ CapacityExact(T)
      /\ RatesExact(T) /\ PortsExact(T) /\ T.disabled \cap T.corrupting = {}
  BY DEF Exact
<1>2. /\ T.disabled \in SUBSET Links /\ T.corrupting \in SUBSET Links
      /\ T.lgPorts \in [Ports -> Int]
  BY <1>1 DEF Networks
<1>3. m.effPenalty = SumOver(T.effLossRate, up)
  BY <1>1 DEF Metrics, RatesExact
<1>4. m.minPaths = Min({PathsOf(T)[t] : t \in Tors})
  BY <1>1 DEF Metrics, CountsExact
<1>5. m.minCapacity = Min({CapacitiesOf(T)[k] : k \in DOMAIN T.podCapacity})
  <2>1. m.minCapacity = Min({PodBottleneck(T, pod) : pod \in Pods})
    BY DEF Metrics
  <2>2. T.podCapacity = CapacitiesOf(T)
    BY <1>1 DEF CapacityExact
  <2> QED
    BY <1>1, <2>1, <2>2, LeastCapacity
<1>6. m.maxLossRate = Max({InitialLossRate} \cup {T.lossRate[l] : l \in up})
  <2> DEFINE inHeap == {InitialLossRate} \cup {T.lossRate[l] : l \in T.corrupting}
             all    == {InitialLossRate} \cup {T.lossRate[l] : l \in up}
  <2>1. BagToSet(T.topLossRates) = inHeap
    BY <1>1, HeapValues DEF RatesExact
  <2>2. inHeap \subseteq all
    BY <1>1, <1>2
  <2>3. all \subseteq inHeap
    <3>1. \A l \in up : l \in T.corrupting \/ T.lossRate[l] = InitialLossRate
      BY DEF RatesKnown
    <3> QED
      BY <3>1
  <2>4. m.maxLossRate = Max(BagToSet(T.topLossRates))
    BY DEF Metrics, Largest
  <2>5. inHeap = all
    BY <2>2, <2>3
  <2> HIDE DEF inHeap, all
  <2>6. m.maxLossRate = Max(all)
    BY <2>1, <2>4, <2>5
  <2> QED
    BY <2>6 DEF all
<1>7. m.maxLgPorts = Max({LgPortsOf(T)[p] : p \in Ports})
  <2> DEFINE f      == T.lgPorts
             S      == {f[p] : p \in Ports}
             inHeap == {0} \cup {f[p] : p \in LgPortSet(T)}
             all    == {0} \cup S
  <2>1. BagToSet(T.topLgPorts) = inHeap
    BY <1>1, HeapValues DEF PortsExact, HeapExact
  <2>2. inHeap = all
    BY DEF LgPortSet
  <2>3. Ports # {}
    <3>1. PICK l : l \in Links
      OBVIOUS
    <3>2. l[1] \in Ends(l)
      BY DEF Ends
    <3> QED
      BY <3>1, <3>2, LinkEnds DEF Ports, Plugs
  <2>4. \A p \in Ports : f[p] \in Nat
    <3>1. T.lgEnabled \in SUBSET Links
      BY <1>1 DEF Networks
    <3>2. ASSUME NEW p \in Ports
          PROVE  Cardinality(OnPort(T.lgEnabled, p)) \in Nat
      <4>1. OnPort(T.lgEnabled, p) \in SUBSET Links
        BY <3>1 DEF OnPort
      <4> QED
        BY <4>1, SubsetsOfLinks, FS_CardinalityType
    <3> QED
      BY <1>1, <3>2 DEF PortsExact
  <2>5. IsFiniteSet(S) /\ (\A x \in S : x \in Nat) /\ S # {}
    <3>1. f \in Surjection(Ports, S)
      BY <1>2 DEF Surjection
    <3>2. IsFiniteSet(S)
      BY <3>1, PortsFinite, FS_Surjection
    <3> QED
      BY <2>3, <2>4, <3>2
  <2>6. Max(all) = Max(S)
    <3> HIDE DEF S
    <3> QED
      BY <2>5, MaximumWith
  <2>7. m.maxLgPorts = Max(BagToSet(T.topLgPorts))
    BY DEF Metrics, Largest
  <2>8. f = LgPortsOf(T)
    BY <1>1, <1>2 DEF PortsExact, LgPortsOf, OnPort
  <2>9. {LgPortsOf(T)[p] : p \in Ports} = S
    <3> HIDE DEF f
    <3> QED
      BY <2>8
  <2> HIDE DEF inHeap, all, S, f
  <2>10. m.maxLgPorts = Max(S)
    BY <2>1, <2>2, <2>6, <2>7
  <2> QED
    BY <2>9, <2>10
<1>8. m.disabled + Cardinality(up) = Cardinality(Links)
  <2> DEFINE D == T.disabled
  <2>1. IsFiniteSet(D) /\ IsFiniteSet(up) /\ D \cap up = {} /\ D \cup up = Links
    BY <1>2, SubsetsOfLinks
  <2>2. m.disabled = Cardinality(D)
    BY DEF Metrics
  <2> HIDE DEF D, up
  <2>3. /\ Cardinality(D) \in Nat /\ Cardinality(up) \in Nat
        /\ Cardinality(D \cap up) = 0
    BY <2>1, FS_CardinalityType, FS_EmptySet
  <2>4. Cardinality(D \cup up) =
            Cardinality(D) + Cardinality(up) - Cardinality(D \cap up)
    BY <2>1, FS_Union
  <2>5. Cardinality(D \cup up) = Cardinality(D) + Cardinality(up)
    BY <2>3, <2>4
  <2>6. D \cup up = Links
    BY <2>1
  <2> QED
    BY <2>2, <2>5, <2>6
<1> QED
  BY <1>3, <1>4, <1>5, <1>6, <1>7, <1>8

RowInv ==
    /\ prevRow.time = now \/ now = -1
    /\ prevRow.metrics = Metrics(topo)
    /\ \A e \in queue : prevRow.time < e.time

\* The fields of a row.
LEMMA RowParts ==
    ASSUME NEW t, NEW T
    PROVE  Row(t, T).time = t /\ Row(t, T).metrics = Metrics(T)
BY DEF Row

\* A queue that is not empty has an earliest event.
LEMMA HeadExists ==
    ASSUME NEW q, \A e \in q : e.time \in Nat, q # {}
    PROVE  \E e : IsHead(e, q)
<1> DEFINE times == {e.time : e \in q}
<1>1. PICK t \in times : \A u \in times : t <= u
  <2>1. times \subseteq Nat /\ times # {}
    OBVIOUS
  <2> HIDE DEF times
  <2> QED
    BY <2>1, LeastNat
<1> QED
  BY <1>1 DEF IsHead

\* The first row describes the built network.
LEMMA InitRow == Init => RowInv
<1> SUFFICES ASSUME Init PROVE RowInv
  OBVIOUS
<1>1. QueueFor(queue, usedTimes, topo.disabled)
  BY InitSim DEF SimInv
<1>2. \A e \in queue : e.time \in Nat
  BY <1>1 DEF QueueFor
<1>3. prevRow = Row(HeadTime(queue) - StartOffset, topo) /\ now = -1
  BY DEF Init
<1>4. ASSUME NEW e \in queue PROVE HeadTime(queue) - StartOffset < e.time
  <2> DEFINE h == CHOOSE f \in queue : IsHead(f, queue)
  <2>1. HeadTime(queue) = h.time
    BY DEF HeadTime
  <2>2. IsHead(h, queue)
    <3>1. PICK f : IsHead(f, queue)
      BY <1>2, HeadExists
    <3>2. f \in queue
      BY <3>1 DEF IsHead
    <3> QED
      BY <3>1, <3>2
  <2> HIDE DEF h
  <2>3. h.time \in Nat /\ e.time \in Nat /\ h.time <= e.time
    BY <1>2, <2>2 DEF IsHead
  <2>4. StartOffset \in Nat /\ StartOffset > 0
    BY SimulationAssumption
  <2> QED
    BY <2>1, <2>3, <2>4
<1> QED
  BY <1>3, <1>4, RowParts DEF RowInv

\* Every row describes the network it was taken from.
LEMMA NextRow == SimInv /\ RowInv /\ [Next]_vars => RowInv'
<1> SUFFICES ASSUME SimInv, RowInv, [Next]_vars PROVE RowInv'
  OBVIOUS
<1>1. CASE Next
  <2>1. PICK e \in queue :
            /\ IsHead(e, queue) /\ now' = e.time /\ UNCHANGED solution
            /\ \/ e.type = "failure" /\ \E l \in Links : SkipFailure(e, l)
               \/ e.type = "failure" /\ \E l \in Links, rate \in LossRates :
                                            ProcessFailure(e, l, rate)
               \/ e.type = "recovery" /\ ProcessRecovery(e)
            /\ prevRow' = Row(e.time, topo')
    BY <1>1 DEF Next
  <2>2. \A f \in queue' : f \in queue \ {e} \/ f.time > e.time
    BY <2>1, EventStep
  <2>3. ASSUME NEW f \in queue \ {e} PROVE f.time > e.time
    <3>1. /\ f.time \in Nat /\ e.time \in Nat
          /\ f.time = e.time => f = e
      BY DEF SimInv, QueueFor
    <3>2. e.time <= f.time
      BY <2>1 DEF IsHead
    <3> QED
      BY <3>1, <3>2
  <2>4. prevRow'.time = e.time /\ prevRow'.metrics = Metrics(topo')
    BY <2>1, RowParts
  <2>5. \A f \in queue' : prevRow'.time < f.time
    <3> TAKE f \in queue'
    <3>1. f.time > e.time
      BY <2>2, <2>3
    <3> QED
      BY <2>4, <3>1
  <2>6. Metrics(topo)' = Metrics(topo')
    OBVIOUS
  <2> QED
    BY <2>1, <2>4, <2>5, <2>6 DEF RowInv
<1>2. CASE UNCHANGED vars
  <2>1. UNCHANGED <<prevRow, now, queue, topo>>
    BY <1>2 DEF vars
  <2>2. Metrics(topo)' = Metrics(topo)
    BY <2>1
  <2> QED
    BY <2>1, <2>2 DEF RowInv
<1> QED
  BY <1>1, <1>2

\* Every row that the DataDumper writes describes the network at its time, and
\* rows come in the order of time.  (Without links there is no port whose
\* number of LinkGuardian links could be reported.)
THEOREM RowsAreRight ==
    ASSUME Links # {}
    PROVE  Spec => []RowDescribesNetwork
<1>1. SimInv /\ RowInv => RowDescribesNetwork
  <2> SUFFICES ASSUME SimInv, RowInv PROVE RowDescribesNetwork
    OBVIOUS
  <2>1. Exact(topo) /\ RatesKnown(topo)
    BY DEF SimInv, Settled
  <2> DEFINE up == Links \ topo.disabled
             m  == Metrics(topo)
  <2>2. /\ m.effPenalty = SumOver(topo.effLossRate, up)
        /\ m.minPaths = Min({PathsOf(topo)[t] : t \in Tors})
        /\ m.minCapacity = Min({CapacitiesOf(topo)[k] :
                                    k \in DOMAIN topo.podCapacity})
        /\ m.maxLossRate = Max({InitialLossRate} \cup
                                 {topo.lossRate[l] : l \in up})
        /\ m.maxLgPorts = Max({LgPortsOf(topo)[p] : p \in Ports})
        /\ m.disabled + Cardinality(up) = Cardinality(Links)
    BY <2>1, MetricsAre
  <2> HIDE DEF m
  <2>3. prevRow.metrics = m
    BY DEF RowInv, m
  <2>4. /\ prevRow.time = now \/ now = -1
        /\ \A e \in queue : prevRow.time < e.time
    BY DEF RowInv
  <2> QED
    BY <2>2, <2>3, <2>4 DEF RowDescribesNetwork
<1>2. Spec => []RowInv
  BY InitRow, NextRow, SpecSim, PTL DEF Spec
<1> QED
  BY <1>1, <1>2, SpecSim, PTL
=============================================================================
