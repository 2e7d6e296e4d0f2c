--------------------------- MODULE TopologyBuilder ---------------------------
(***************************************************************************)
(* How the simulator builds its network, link by link, and keeps with      *)
(* every link what later steps look up.  Links are numbered in the order   *)
(* they are built, and the failure trace names them by these numbers.      *)
(*                                                                         *)
(* Both topologies have pods of ToR and aggregation switches, completely   *)
(* connected, and as many planes of core switches as a pod has aggregation *)
(* switches.  The finished network is compared with what Topology assumes. *)
(***************************************************************************)
EXTENDS Integers, FiniteSets, Sequences, SequencesExt, FiniteSetsExt

CONSTANTS
    Fabrics,        \* parameters of the topologies to build
    PodOrders,      \* outcomes of shuffling the pods, by their number
    MaxPortsPerPipe \* MAX_PORTS_PER_PIPE

ASSUME BuilderAssumption ==
    /\ \A f \in Fabrics :
        \/ f \in [type : {"FatTree"}, k : {n \in Nat \ {0} : n % 2 = 0}]
        \/ f \in [type : {"FbFabric"}, pods : Nat \ {0}, tors : Nat \ {0},
                  oversubscription : Nat \ {0}, deployment : 1 .. 100]
    /\ MaxPortsPerPipe \in Nat \ {0}

VARIABLES
    fabric,     \* topo_type and topo_params of the simulation
    traced,     \* topo_type and topo_params in the file of the trace
    lgPods,     \* lg_enabled_pod_ids_set
    podsBuilt,  \* pods whose switches and ToR links are there
    coresBuilt, \* core switches that are connected, in their order
    links,      \* the links in the order of their ids
    built       \* what is recorded of switches and pods on the way

builderVars ==
    <<fabric, traced, lgPods, podsBuilt, coresBuilt, links, built>>

\* int(n / m)
Quotient(n, m) == n \div m

\* The size of a pod and of the planes.
Pods(f)  == IF f.type = "FatTree" THEN f.k ELSE f.pods
ToRs(f)  == IF f.type = "FatTree" THEN f.k \div 2 ELSE f.tors
Planes(f) == IF f.type = "FatTree" THEN f.k \div 2 ELSE 4
CoresPerPlane(f) == IF f.type = "FatTree" THEN f.k \div 2
                    ELSE Quotient(f.tors, f.oversubscription)

NumLinks(f) ==
    IF f.type = "FatTree" THEN Quotient(f.k * f.k * f.k, 2)
    ELSE Pods(f) * (f.tors * 4 + 4 * CoresPerPlane(f))

Tor(pod, i)    == [type |-> "TOR", group |-> pod, index |-> i]
Agg(pod, i)    == [type |-> "AGG", group |-> pod, index |-> i]
Core(plane, i) == [type |-> "CORE", group |-> plane, index |-> i]

\* add_link: downstream and upstream switch, and what the builder adds
Link(low, up, pod, affected, capable) ==
    [ends |-> <<low, up>>, pod |-> pod, affected |-> affected,
     lgCapable |-> capable]

Full(f) == f.type = "FatTree" \/ f.deployment = 100

\* math.ceil(num_pods * deployment_percent / 100)
LgPods(f) == (f.pods * f.deployment + 99) \div 100

\* Mutant of SameTopology: only the types are compared.
SameType(f, t) == f.type = t.type

\* Simulation.__init__: every parameter of the topology is that of the
\* trace; how much of it has LinkGuardian is added afterwards.
SameTopology(f, t) ==
    /\ f.type = t.type
    /\ \A param \in DOMAIN f \ {"deployment"} : f[param] = t[param]

\* generate_loss_trace.main: links the generator gives failures to, as
\* int(num_pods * (4 * tors + 4 * tors / oversubscription))
TracedLinks(t) ==
    IF t.type = "FatTree" THEN Quotient(t.k * t.k * t.k, 2)
    ELSE Quotient(t.pods * (4 * t.tors * t.oversubscription + 4 * t.tors),
                  t.oversubscription)

\* A simulation whose configuration is not accepted exits.
BuilderInit ==
    /\ fabric \in Fabrics
    /\ traced \in {t \in Fabrics : SameTopology(fabric, t)}
    /\ \E order \in PodOrders[Pods(fabric)] :
        lgPods = IF Full(fabric) THEN {}
                 ELSE {order[i] : i \in 1 .. LgPods(fabric)}
    /\ podsBuilt = 0 /\ coresBuilt = 0
    /\ links = <<>>
    /\ built = [aggSwitches |-> <<>>, uplinks |-> <<>>,
                torCapacity |-> <<>>, coreCapacity |-> <<>>]

\* The switches of the next pod, and its links from every ToR to every Agg.
BuildPod ==
    LET pod   == podsBuilt
        tors  == ToRs(fabric)
        aggs  == Planes(fabric)
        added == [i \in 1 .. tors * aggs |->
                    LET tor == Tor(pod, (i - 1) \div aggs)
                    IN  Link(tor, Agg(pod, (i - 1) % aggs), pod, {tor},
                             Full(fabric) \/ pod \in lgPods)]
    IN  /\ podsBuilt < Pods(fabric)
        /\ podsBuilt' = podsBuilt + 1
        /\ links' = links \o added
        /\ built' = [built EXCEPT
            !.aggSwitches = @ \o [i \in 1 .. tors |->
                                    {Agg(pod, j) : j \in 0 .. aggs - 1}],
            !.uplinks = @ \o [i \in 1 .. aggs |-> 0],
            !.torCapacity = Append(@, Len(added)),
            !.coreCapacity = Append(@, 0)]
        /\ UNCHANGED <<fabric, traced, lgPods, coresBuilt>>

\* get_adjacent_switch_ids: the ToRs linked to an Agg so far
TorsBelow(agg) ==
    {l.ends[1] : l \in {m \in ToSet(links) : m.ends[2] = agg}}

\* Mutant of CoreAffects: a core link affects the ToRs of its own position.
CoreAffectsOne(agg) == {t \in TorsBelow(agg) : t.index = agg.index}

\* The ToRs affected by a link between an Agg and the core.
CoreAffects(agg) == TorsBelow(agg)

\* The next core switch is connected to one Agg of every pod: that of its
\* plane (the stride of the fat tree).
ConnectCore ==
    LET plane == coresBuilt \div CoresPerPlane(fabric)
        core  == Core(plane, coresBuilt % CoresPerPlane(fabric))
        aggs  == Planes(fabric)
    IN  /\ podsBuilt = Pods(fabric)
        /\ coresBuilt < aggs * CoresPerPlane(fabric)
        /\ coresBuilt' = coresBuilt + 1
        /\ links' = links \o [p \in 1 .. podsBuilt |->
                LET agg == Agg(p - 1, plane)
                IN  Link(agg, core, p - 1, CoreAffects(agg), Full(fabric))]
        /\ built' = [built EXCEPT
            !.uplinks = [i \in DOMAIN @ |->
                IF (i - 1) % aggs = plane THEN @[i] + 1 ELSE @[i]],
            !.coreCapacity = [p \in DOMAIN @ |-> @[p] + 1]]
        /\ UNCHANGED <<fabric, traced, lgPods, podsBuilt>>

BuilderNext == BuildPod \/ ConnectCore

BuilderSpec == BuilderInit /\ [][BuilderNext]_builderVars

BuilderDone ==
    /\ podsBuilt = Pods(fabric)
    /\ coresBuilt = Planes(fabric) * CoresPerPlane(fabric)

-----------------------------------------------------------------------------
\* link_id_list: the links of a switch, by their ids
LinksOf(sw) ==
    {i \in DOMAIN links : sw \in {links[i].ends[1], links[i].ends[2]}}

\* list_of_links.index; the list is in the order in which links are added
LinkIdx(sw, i) == Cardinality({j \in LinksOf(sw) : j < i})

\* num_links of add_switch
PortsOf(sw) ==
    IF fabric.type = "FatTree" THEN fabric.k
    ELSE CASE sw.type = "TOR"  -> 4
           [] sw.type = "AGG"  -> fabric.tors + CoresPerPlane(fabric)
           [] sw.type = "CORE" -> fabric.pods

\* num_pipes of add_switch: as many as the ports need, or the fixed number
NumPipes(sw) ==
    IF fabric.type = "FatTree" \/ sw.type = "CORE"
    THEN (PortsOf(sw) + MaxPortsPerPipe - 1) \div MaxPortsPerPipe
    ELSE IF sw.type = "TOR" THEN 2 ELSE 6

\* ports_per_pipe of add_switch
PortsPerPipe(sw) == (PortsOf(sw) + NumPipes(sw) - 1) \div NumPipes(sw)

\* get_pipe_id
PipeId(sw, i) == LinkIdx(sw, i) % NumPipes(sw)

Ends(type) == {l.ends[j] : l \in ToSet(links), j \in 1 .. 2}
                \cap [type : {type}, group : Int, index : Int]

\* The network as the methods of Topology see it.
Network == INSTANCE Topology WITH
    Tors <- Ends("TOR"), Aggs <- Ends("AGG"), Cores <- Ends("CORE"),
    PodOf <- [sw \in Ends("TOR") \cup Ends("AGG") |-> sw.group],
    PlaneOf <- [sw \in Ends("AGG") \cup Ends("CORE") |->
                    IF sw.type = "AGG" THEN sw.index ELSE sw.group],
    PipeOf <- [plug \in {<<l.ends[j], l.ends>> : l \in ToSet(links), j \in 1 .. 2}
                |-> PipeId(plug[1], CHOOSE i \in DOMAIN links :
                                        links[i].ends = plug[2])],
    LgCapable <- {l.ends : l \in {m \in ToSet(links) : m.lgCapable}},
    LinkCapacity <- 1, InitialLossRate <- 1

(* The ToRs recorded with a link, whose paths are counted again when it    *)
(* changes, are all that have a path through it.                           *)
AffectedTorsExact ==
    \A l \in ToSet(links) :
        l.affected = {t \in Ends("TOR") :
            \E path \in Network!LivePaths(t, {}) : l.ends \in ToSet(path)}

(* Every link goes to a pipe its switches have, and no pipe gets more      *)
(* links than it has ports.                                                *)
PipesExist ==
    \A sw \in Ends("TOR") \cup Ends("AGG") \cup Ends("CORE") :
        /\ \A i \in LinksOf(sw) : PipeId(sw, i) \in 0 .. NumPipes(sw) - 1
        /\ \A p \in 0 .. NumPipes(sw) - 1 :
            Cardinality({i \in LinksOf(sw) : PipeId(sw, i) = p})
                <= PortsPerPipe(sw)

(***************************************************************************)
(* When the loops have run, the network is the one the simulation starts   *)
(* from: every link of the graph is there once, and the uplinks of the     *)
(* aggregation switches, the neighbours of the ToRs and the capacity of    *)
(* the pods, counted link by link, are those of the graph.  The number of  *)
(* links computed from the parameters, from which the total loss rates     *)
(* start, is the number of links that are built.                           *)
(***************************************************************************)
BuiltAsAssumed ==
    BuilderDone =>
        LET T == Network!BuiltTopology
        IN  /\ {l.ends : l \in ToSet(links)} = Network!Links
            /\ Len(links) = Cardinality(Network!Links)
            /\ Len(links) = NumLinks(fabric)
            /\ \A t \in Ends("TOR") :
                T.aggSwitches[t] = built.aggSwitches[t.group * ToRs(fabric)
                                                        + t.index + 1]
            /\ \A a \in Ends("AGG") :
                T.activeUplinks[a] = built.uplinks[a.group * Planes(fabric)
                                                        + a.index + 1]
            /\ \A p \in 1 .. Pods(fabric) :
                /\ T.podCapacity[<<p - 1, "TOR_AGG">>] = built.torCapacity[p]
                /\ T.podCapacity[<<p - 1, "AGG_CORE">>] = built.coreCapacity[p]
            /\ AffectedTorsExact /\ PipesExist

(***************************************************************************)
(* The links the generator numbers are the links that are built, if the    *)
(* oversubscription divides the ToRs of a pod: the generator adds up       *)
(* fractions of core switches, the builder rounds down before.             *)
(***************************************************************************)
TracedLinksExist ==
    BuilderDone /\ (traced.type = "FbFabric" =>
                        traced.tors % traced.oversubscription = 0)
        => TracedLinks(traced) = Len(links)
=============================================================================
