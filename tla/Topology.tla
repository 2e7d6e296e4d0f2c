------------------------------ MODULE Topology ------------------------------
(***************************************************************************)
(* The network of the simulator: pods of ToR and aggregation switches, and *)
(* planes of core switches.  The object is a record; its methods are       *)
(* operators from a topology to a topology.  Beside the state of the links *)
(* it keeps what is derived from them: the paths of every ToR to the core, *)
(* the capacity of every pod, the total loss rates, the heaps of the       *)
(* largest loss rates and port counts.                                     *)
(*                                                                         *)
(* A link is the pair of its downstream and its upstream switch.  Loss     *)
(* rates and capacities are integers (floats in the code).                 *)
(***************************************************************************)
EXTENDS Integers, FiniteSets, FiniteSetsExt, Bags

CONSTANTS
    Tors, Aggs, Cores,  \* the switches
    PodOf,              \* pod of a ToR or aggregation switch
    PlaneOf,            \* spine plane of an aggregation or core switch
    PipeOf,             \* pipe of a switch that a link is plugged into
    LgCapable,          \* links that can run LinkGuardian
    LinkCapacity,       \* Gbps of every link
    InitialLossRate     \* INITIAL_LINK_LOSS_RATE

Switches  == Tors \cup Aggs \cup Cores
Pods      == {PodOf[sw] : sw \in Tors \cup Aggs}
TorLinks  == {l \in Tors \X Aggs : PodOf[l[1]] = PodOf[l[2]]}
CoreLinks == {l \in Aggs \X Cores : PlaneOf[l[1]] = PlaneOf[l[2]]}
Links     == TorLinks \cup CoreLinks
Ends(l)   == {l[1], l[2]}
Plugs     == {p \in Switches \X Links : p[1] \in Ends(p[2])}
Ports     == {<<p[1], PipeOf[p]>> : p \in Plugs}

ASSUME TopologyAssumption ==
    /\ IsFiniteSet(Tors) /\ IsFiniteSet(Aggs) /\ IsFiniteSet(Cores)
    /\ Tors \cap Aggs = {} /\ Tors \cap Cores = {} /\ Aggs \cap Cores = {}
    /\ LgCapable \subseteq Links
    /\ LinkCapacity \in Nat
    /\ InitialLossRate \in Nat

SumOver(f, S) == MapThenSumSet(LAMBDA x : f[x], S)

LinkType(l) == IF l \in TorLinks THEN "TOR_AGG" ELSE "AGG_CORE"
PodOfLink(l) == PodOf[l[1]]
CapacityKey(l) == <<PodOfLink(l), LinkType(l)>>

\* link_id_to_affected_tors: the ToRs that reach the core through the link.
AffectedTors(l) ==
    IF l \in TorLinks THEN {l[1]} ELSE {t \in Tors : <<t, l[1]>> \in TorLinks}

\* The paths of a ToR to the core that avoid the links of a set.
LivePaths(tor, avoided) ==
    {p \in (TorLinks \ avoided) \X (CoreLinks \ avoided) :
        p[1][1] = tor /\ p[1][2] = p[2][1]}

\* The topology as built: every link up and clean, LinkGuardian nowhere.
BuiltTopology ==
    [disabled |-> {}, corrupting |-> {}, lgEnabled |-> {},
     lossRate |-> [l \in Links |-> InitialLossRate],
     effLossRate |-> [l \in Links |-> InitialLossRate],
     effCapacity |-> [l \in Links |-> LinkCapacity],
     aggSwitches |-> [t \in Tors |-> {a \in Aggs : <<t, a>> \in TorLinks}],
     activeUplinks |->
        [a \in Aggs |-> Cardinality({c \in Cores : <<a, c>> \in CoreLinks})],
     numPaths |-> [t \in Tors |-> Cardinality(LivePaths(t, {}))],
     podCapacity |->
        [k \in Pods \X {"TOR_AGG", "AGG_CORE"} |->
            LinkCapacity * Cardinality({l \in Links : CapacityKey(l) = k})],
     totalLossRate |-> InitialLossRate * Cardinality(Links),
     totalEffLossRate |-> InitialLossRate * Cardinality(Links),
     topLossRates |-> SetToBag({InitialLossRate}),
     lgPorts |-> [p \in Ports |-> 0],
     topLgPorts |-> SetToBag({0})]

-----------------------------------------------------------------------------
\* get_num_paths_to_core: without some aggregation switches, and with the
\* number of uplinks given for each.
NumPathsToCore(T, tor, excluded, uplinks) ==
    SumOver(uplinks, T.aggSwitches[tor] \ excluded)

\* The end of disable_link and enable_link: the affected ToRs count again.
RecountPaths(T, l) ==
    [T EXCEPT !.numPaths = [t \in Tors |->
        IF t \in AffectedTors(l)
        THEN NumPathsToCore(T, t, {}, T.activeUplinks)
        ELSE @[t]]]

\* A heap is a bag of numbers: heappush, and remove with heapify.
Pushed(heap, n)  == heap (+) SetToBag({n})
Removed(heap, n) == heap (-) SetToBag({n})

\* incr_lg_ports_per_pipe
IncrLgPorts(T, sw, l) ==
    LET port == <<sw, PipeOf[<<sw, l>>]>>
        n    == T.lgPorts[port]
        heap == IF n # 0 THEN Removed(T.topLgPorts, n) ELSE T.topLgPorts
    IN  [T EXCEPT !.lgPorts[port] = n + 1, !.topLgPorts = Pushed(heap, n + 1)]

\* decr_lg_ports_per_pipe
DecrLgPorts(T, sw, l) ==
    LET port == <<sw, PipeOf[<<sw, l>>]>>
        n    == T.lgPorts[port]
        heap == Removed(T.topLgPorts, n)
    IN  [T EXCEPT !.lgPorts[port] = n - 1,
                  !.topLgPorts = IF n # 1 THEN Pushed(heap, n - 1) ELSE heap]

\* set_linkguardian_enabled
SetLgEnabled(T, l) ==
    IF l \in T.lgEnabled THEN T
    ELSE IncrLgPorts(IncrLgPorts([T EXCEPT !.lgEnabled = @ \cup {l}], l[1], l),
                     l[2], l)

\* Mutant of SetLgDisabled: LinkGuardian stays on the link.
KeepLg(T, l) == T

\* The part of disable_link that ends LinkGuardian on the link.
SetLgDisabled(T, l) ==
    IF l \notin T.lgEnabled THEN T
    ELSE DecrLgPorts(DecrLgPorts([T EXCEPT !.lgEnabled = @ \ {l}], l[1], l),
                     l[2], l)

\* remove_agg_switch_from_tor, decrement_num_active_uplinks
Unplug(T, l) ==
    IF l \in TorLinks THEN [T EXCEPT !.aggSwitches[l[1]] = @ \ {l[2]}]
    ELSE [T EXCEPT !.activeUplinks[l[1]] = @ - 1]

\* add_agg_switch_to_tor, increment_num_active_uplinks
Plug(T, l) ==
    IF l \in TorLinks THEN [T EXCEPT !.aggSwitches[l[1]] = @ \cup {l[2]}]
    ELSE [T EXCEPT !.activeUplinks[l[1]] = @ + 1]

\* disable_link, of a corrupting link
DisableLink(T, l) ==
    SetLgDisabled(RecountPaths(Unplug(
        [T EXCEPT !.disabled = @ \cup {l},
                  !.corrupting = @ \ {l},
                  !.topLossRates = Removed(@, T.lossRate[l]),
                  !.totalLossRate = @ - T.lossRate[l],
                  !.totalEffLossRate = @ - T.effLossRate[l],
                  !.podCapacity[CapacityKey(l)] = @ - T.effCapacity[l]],
        l), l), l)

\* enable_link, of a repaired link: clean and at full capacity
EnableLink(T, l) ==
    RecountPaths(Plug(
        [T EXCEPT !.lossRate[l] = InitialLossRate,
                  !.effLossRate[l] = InitialLossRate,
                  !.effCapacity[l] = LinkCapacity,
                  !.disabled = @ \ {l},
                  !.totalLossRate = @ + InitialLossRate,
                  !.totalEffLossRate = @ + InitialLossRate,
                  !.podCapacity[CapacityKey(l)] = @ + LinkCapacity],
        l), l)

\* record_link_top_loss_rates: called before the new rate is set
RecordTopLossRate(T, l, rate) ==
    [T EXCEPT !.topLossRates =
        Pushed(IF l \in T.corrupting THEN Removed(@, T.lossRate[l]) ELSE @,
               rate)]

\* set_link_loss_rate
SetLossRate(T, l, rate) ==
    [T EXCEPT !.lossRate[l] = rate,
              !.totalLossRate = @ - T.lossRate[l] + rate]

\* set_link_effective_loss_rate
SetEffLossRate(T, l, rate) ==
    [T EXCEPT !.effLossRate[l] = rate,
              !.totalEffLossRate = @ - T.effLossRate[l] + rate]

\* Mutant of UpdateEffCapacity: takes the old capacity for the full one.
UpdateFromFullCapacity(T, l, capacity) ==
    [T EXCEPT !.effCapacity[l] = capacity,
              !.podCapacity[CapacityKey(l)] = @ - LinkCapacity + capacity]

\* update_effective_link_capacity
UpdateEffCapacity(T, l, capacity) ==
    [T EXCEPT !.effCapacity[l] = capacity,
              !.podCapacity[CapacityKey(l)] = @ - T.effCapacity[l] + capacity]

-----------------------------------------------------------------------------
\* What the caches of a topology must say, computed from its links.
PathsOf(T) ==
    [t \in Tors |-> Cardinality(LivePaths(t, T.disabled))]

CapacitiesOf(T) ==
    [k \in Pods \X {"TOR_AGG", "AGG_CORE"} |->
        SumOver(T.effCapacity,
                {l \in Links \ T.disabled : CapacityKey(l) = k})]

\* How many of the items of S have each value of f.
Histogram(f, S) ==
    [v \in {f[x] : x \in S} |-> Cardinality({x \in S : f[x] = v})]

LgPortsOf(T) ==
    [p \in Ports |->
        Cardinality({l \in T.lgEnabled :
                        p[1] \in Ends(l) /\ PipeOf[<<p[1], l>>] = p[2]})]
=============================================================================
