----------------------------- MODULE Simulation -----------------------------
(***************************************************************************)
(* The simulation: events are taken from a queue in the order of their     *)
(* times.  A failure gives a link a loss rate and asks the solution what   *)
(* to do; a solution that disables a link has its repair added to the      *)
(* queue; a recovery enables the link and lets the solution optimize.      *)
(*                                                                         *)
(* The times of the failures are those of the trace; which link fails and  *)
(* how badly is chosen when the failure is taken, so that a run stands for *)
(* every trace with these times.                                           *)
(***************************************************************************)
EXTENDS CorrOpt, EventQueue

CONSTANTS
    Solutions,      \* the solutions to simulate
    FailureTimes,   \* times of the failures in the trace, in its order
    LossRates,      \* loss rates of failures
    ShortRepair,    \* delay of a repair that succeeds at once (2 days)
    LongRepair,     \* delay of a repair that does not (4 days)
    LgPerf,         \* tested loss rate -> [lossRate, capacity] under LinkGuardian
    StartOffset     \* DATA_DUMPER_START_END_OFFSET

ASSUME SimulationAssumption ==
    /\ Solutions \subseteq {"DoNothing", "DisableAndRepair", "CorrOpt",
                            "LinkGuardian", "LG_CorrOpt"}
    /\ FailureTimes \in Seq(Nat)
    /\ LossRates \subseteq Nat \ 0 .. InitialLossRate
    /\ LgPerf \in [DOMAIN LgPerf -> [lossRate : Nat, capacity : Nat]]
    /\ DOMAIN LgPerf \subseteq Nat
    /\ {ShortRepair, LongRepair, StartOffset} \subseteq Nat \ {0}

VARIABLES
    solution,       \* the solution of this simulation
    topo,           \* the Topology object
    queue,          \* _queue: set of events
    usedTimes,      \* _timestamp_records
    now,            \* time of the last event, -1 before the first
    skipped,        \* skipped_loss_events
    added,          \* added_recovery_events
    processed,      \* processed_event_counter
    prevRow         \* prev_row of the DataDumper: the last row of the output

vars == <<solution, topo, queue, usedTimes, now, skipped, added, processed,
          prevRow>>

NoLink == <<>>

\* LinkEvent.  The link of a failure is chosen when it is taken.
Failure(time)        == [time |-> time, type |-> "failure", link |-> NoLink]
Recovery(time, link) == [time |-> time, type |-> "recovery", link |-> link]

\* Mutant of Largest: the head of the heap.
HeadOfHeap(heap) == Min(BagToSet(heap))

\* heapq.nlargest(1, heap)[0]
Largest(heap) == Max(BagToSet(heap))

\* min of the capacities to the core, per pod
PodBottleneck(T, pod) ==
    Min({T.podCapacity[<<pod, type>>] : type \in {"TOR_AGG", "AGG_CORE"}})

\* get_current_metrics, with the sums that the code divides by the number
\* of ToRs and of pods
Metrics(T) ==
    [penalty     |-> T.totalLossRate,
     effPenalty  |-> T.totalEffLossRate,
     sumPaths    |-> SumOver(T.numPaths, Tors),
     minPaths    |-> Min({T.numPaths[t] : t \in Tors}),
     sumCapacity |-> MapThenSumSet(LAMBDA pod : PodBottleneck(T, pod), Pods),
     minCapacity |-> Min({PodBottleneck(T, pod) : pod \in Pods}),
     maxLossRate |-> Largest(T.topLossRates),
     disabled    |-> Cardinality(T.disabled),
     corrupting  |-> Cardinality(T.corrupting),
     maxLgPorts  |-> Largest(T.topLgPorts)]

\* dump: the row before is repeated at this time, then comes this one.
Row(time, T) == [time |-> time, metrics |-> Metrics(T)]

Init ==
    /\ solution \in Solutions
    /\ topo = BuiltTopology
    /\ LET trace == Scheduled([i \in DOMAIN FailureTimes |->
                                    Failure(FailureTimes[i])], {})
       IN  queue = trace.events /\ usedTimes = trace.used
    /\ now = -1
    /\ skipped = 0 /\ added = 0 /\ processed = 0
    /\ prevRow = Row(HeadTime(queue) - StartOffset, topo)

-----------------------------------------------------------------------------
\* get_effective_loss_rate_capacity: that of a nearest tested loss rate
NearestPerf(rate) ==
    LET Distance(tested) == IF rate < tested THEN tested - rate
                            ELSE rate - tested
    IN  {LgPerf[tested] : tested \in {r \in DOMAIN LgPerf :
            \A other \in DOMAIN LgPerf : Distance(r) <= Distance(other)}}

\* LinkGuardianSolution.process_failure_event
Protect(T, l, perf) ==
    IF l \notin LgCapable THEN T
    ELSE SetEffLossRate(
            UpdateEffCapacity(SetLgEnabled(T, l), l, perf.capacity),
            l, perf.lossRate)

\* process_event, what a failure does to the link before the solution is asked
Corrupt(T, l, rate) ==
    LET recorded == SetLossRate(RecordTopLossRate(T, l, rate), l, rate)
        marked   == [recorded EXCEPT !.corrupting = @ \cup {l}]
    IN  IF l \in T.lgEnabled THEN marked ELSE SetEffLossRate(marked, l, rate)

\* get_corropt_recovery_event; DisableAndRepair always waits the long delay.
RepairDelays ==
    IF solution = "DisableAndRepair" THEN {LongRepair}
    ELSE {ShortRepair, LongRepair}

\* The solution's new topology T and the links S it disabled: their repairs
\* are scheduled from the time of the event, in the order of a Python set.
Respond(event, T, S) ==
    \E delay \in [S -> RepairDelays], order \in SetToSeqs(S) :
        LET repairs == Scheduled([i \in DOMAIN order |->
                            Recovery(event.time + delay[order[i]], order[i])],
                            usedTimes)
        IN  /\ topo' = T
            /\ queue' = (queue \ {event}) \cup repairs.events
            /\ usedTimes' = repairs.used
            /\ added' = added + Len(order)

\* Which links the solution disables at the failure of link l.
DisabledAtFailure(T, l) ==
    CASE solution = "DisableAndRepair" -> {l}
      [] solution \in {"CorrOpt", "LG_CorrOpt"} /\ CanDisable(T, l) -> {l}
      [] OTHER -> {}

\* process_event, FailureEvent of a link that is disabled
SkipFailure(e, l) ==
    /\ l \in topo.disabled
    /\ queue' = queue \ {e}
    /\ skipped' = skipped + 1
    /\ UNCHANGED <<topo, usedTimes, added, processed>>

\* A failure is processed, whether or not the link is up.
FailLink(e, l, rate) ==
    /\ \E perf \in NearestPerf(rate) :
        LET corrupted == Corrupt(topo, l, rate)
            protected == IF solution \in {"LinkGuardian", "LG_CorrOpt"}
                         THEN Protect(corrupted, l, perf) ELSE corrupted
            disabled  == DisabledAtFailure(protected, l)
        IN  Respond(e, DisableLinks(protected, disabled), disabled)
    /\ processed' = processed + 1
    /\ UNCHANGED skipped

\* process_event, FailureEvent of a link that is up
ProcessFailure(e, l, rate) == l \notin topo.disabled /\ FailLink(e, l, rate)

\* process_event, RecoveryEvent: post_recovery_event_cb runs the optimizer
\* of the solutions that have one.
ProcessRecovery(e) ==
    LET enabled == EnableLink(topo, e.link)
        choices == IF solution \in {"CorrOpt", "LG_CorrOpt"}
                   THEN Optimizer(enabled) ELSE {{}}
    IN  /\ \E S \in choices : Respond(e, DisableLinks(enabled, S), S)
        /\ processed' = processed + 1
        /\ UNCHANGED skipped

\* run: one event
Next == \E e \in queue :
    /\ IsHead(e, queue)
    /\ now' = e.time
    /\ UNCHANGED solution
    /\ \/ e.type = "failure" /\ \E l \in Links : SkipFailure(e, l)
       \/ e.type = "failure" /\ \E l \in Links, rate \in LossRates :
                                    ProcessFailure(e, l, rate)
       \/ e.type = "recovery" /\ ProcessRecovery(e)
    /\ prevRow' = Row(e.time, topo')

Spec == Init /\ [][Next]_vars

-----------------------------------------------------------------------------
Optimizes == solution \in {"CorrOpt", "LG_CorrOpt"}
Protects  == solution \in {"LinkGuardian", "LG_CorrOpt"}

\* The number of paths kept for every ToR, updated at each change by the
\* switches that are thought to be affected, is that of the graph.
PathCountsExact == topo.numPaths = PathsOf(topo)

\* The capacity kept for every pod is the sum of the effective capacities of
\* its links that are up, however often LinkGuardian changed them.
PodCapacityExact == topo.podCapacity = CapacitiesOf(topo)

\* The total penalties are the sums over the links that are up, and the heap
\* holds the rates of the corrupting links, once each, and the initial one.
PenaltyExact ==
    LET up == Links \ topo.disabled
    IN  /\ topo.totalLossRate = SumOver(topo.lossRate, up)
        /\ topo.totalEffLossRate = SumOver(topo.effLossRate, up)
        /\ topo.topLossRates = SetToBag({InitialLossRate})
                                  (+) Histogram(topo.lossRate, topo.corrupting)

\* The number of ports of every pipe that run LinkGuardian, and the heap of
\* these numbers, agree with the links it is enabled on.
LgPortsExact ==
    /\ topo.lgPorts = LgPortsOf(topo)
    /\ topo.topLgPorts = SetToBag({0})
            (+) Histogram(topo.lgPorts, {p \in Ports : topo.lgPorts[p] # 0})

(***************************************************************************)
(* Everything the topology keeps besides the state of its links, and       *)
(* updates at each change of a link instead of computing it, is what       *)
(* computing it anew from the links gives.                                 *)
(***************************************************************************)
CachesExact ==
    PathCountsExact /\ PodCapacityExact /\ PenaltyExact /\ LgPortsExact

(***************************************************************************)
(* LinkGuardian runs on the corrupting links that can run it, no others: a *)
(* link that is disabled and repaired comes back without it.               *)
(***************************************************************************)
LgExactlyOnCorrupting ==
    topo.lgEnabled = IF Protects THEN topo.corrupting \cap LgCapable ELSE {}

(***************************************************************************)
(* CorrOpt never takes from a ToR more paths than the constraint allows,   *)
(* although it checks links and sets of links on counts it keeps.          *)
(***************************************************************************)
CapacityConstraintHolds ==
    Optimizes => \A t \in Tors :
        Cardinality(LivePaths(t, topo.disabled)) >= MinActivePaths

(***************************************************************************)
(* CorrOpt leaves a corrupting link up only if the constraint forbids to   *)
(* disable it, although a failure only has its own link checked.           *)
(***************************************************************************)
NothingMoreToDisable ==
    Optimizes => \A l \in topo.corrupting : {l} \notin SafeSets(topo)

(***************************************************************************)
(* A link is disabled exactly if one repair of it is to come; it does not  *)
(* count as corrupting meanwhile.  The equation of the summary, "processed *)
(* (input - skipped + added)", holds with the events that still wait.      *)
(***************************************************************************)
RepairScheduled ==
    /\ topo.disabled \cap topo.corrupting = {}
    /\ \A l \in Links :
        Cardinality({e \in queue : e.type = "recovery" /\ e.link = l})
            = IF l \in topo.disabled THEN 1 ELSE 0
    /\ processed + Cardinality(queue) = Len(FailureTimes) - skipped + added

(***************************************************************************)
(* The last row of the output describes the network as it is: its extremes *)
(* and sums, taken from heaps and running totals, are those of the links   *)
(* that are up, also after an event that was skipped.  The first row is    *)
(* dated before all events, and no event has the time of the row before.   *)
(***************************************************************************)
RowDescribesNetwork ==
    LET up == Links \ topo.disabled
        m  == prevRow.metrics
    IN  /\ prevRow.time = now \/ now = -1
        /\ \A e \in queue : prevRow.time < e.time
        /\ m.effPenalty = SumOver(topo.effLossRate, up)
        /\ m.minPaths = Min({PathsOf(topo)[t] : t \in Tors})
        /\ m.minCapacity = Min({CapacitiesOf(topo)[k] :
                                    k \in DOMAIN topo.podCapacity})
        /\ m.maxLossRate = Max({InitialLossRate} \cup
                                 {topo.lossRate[l] : l \in up})
        /\ m.maxLgPorts = Max({LgPortsOf(topo)[p] : p \in Ports})
        /\ m.disabled + Cardinality(up) = Cardinality(Links)

(***************************************************************************)
(* What the optimizer disables is best among all the safe sets of          *)
(* corrupting links, although it first disables the links that are not     *)
(* upstream of a violation and then tries combinations of single ones.     *)
(***************************************************************************)
OptimizerIsOptimal ==
    [][\A e \in queue \ queue' : (e.type = "recovery" /\ Optimizes) =>
        LET before == EnableLink(topo, e.link)
            gone   == before.corrupting \ topo'.corrupting
        IN  /\ gone \in SafeSets(before)
            /\ \A S \in SafeSets(before) :
                SumOver(before.lossRate, S) <= SumOver(before.lossRate, gone)
      ]_vars
=============================================================================
