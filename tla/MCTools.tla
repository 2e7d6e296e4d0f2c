------------------------------ MODULE MCTools ------------------------------
(***************************************************************************)
(* Programs that share nothing, one of them in a behaviour: the builder of *)
(* the simulated network, the experiment scripts of the testbed, and the   *)
(* monitoring daemons of a link.                                           *)
(***************************************************************************)
EXTENDS TopologyBuilder, Experiment, MCCorruptd

VARIABLE program    \* the program that runs
allVars == <<program, builderVars, exptVars, vars>>

\* Fat trees of two and four ports; fabrics with an oversubscription that
\* divides the ToRs and one that does not, and two that are deployed in part.
FatTree(k) == [type |-> "FatTree", k |-> k]
FbFabric(pods, tors, oversubscription, deployment) ==
    [type |-> "FbFabric", pods |-> pods, tors |-> tors,
     oversubscription |-> oversubscription, deployment |-> deployment]
MCFabrics == {FatTree(2), FatTree(4), FbFabric(1, 3, 1, 100),
              FbFabric(1, 3, 2, 100), FbFabric(3, 2, 2, 50),
              FbFabric(2, 4, 2, 1)}
MCPodOrders == [n \in 1 .. 4 |-> SetToSeqs(0 .. n - 1)]

\* Both modes, with and without the polling thread; where drops are emulated
\* the cable loses frames too.
MCScripts ==
    {[name |-> "effective", mode |-> 0, buffs |-> TRUE,  rand |-> FALSE],
     [name |-> "effective", mode |-> 1, buffs |-> FALSE, rand |-> TRUE],
     [name |-> "check",     mode |-> 1, buffs |-> FALSE, rand |-> TRUE]}

\* The programs that do not run wait in one of their initial states.
MCInit ==
    /\ program \in {"build", "experiment", "monitor"}
    /\ BuilderInit /\ ExptInit /\ Init
    /\ program # "build" => fabric = FatTree(2) /\ traced = FatTree(2)
    /\ program # "experiment" => script.name = "check"

MCNext ==
    /\ UNCHANGED program
    /\ \/ /\ program = "build" /\ BuilderNext
          /\ UNCHANGED <<exptVars, vars>>
       \/ /\ program = "experiment" /\ ExptNext
          /\ UNCHANGED <<builderVars, vars>>
       \/ /\ program = "monitor" /\ Next
          /\ UNCHANGED <<builderVars, exptVars>>

Monitoring == program = "monitor"

\* The fairness of each program, for the one that runs.
MCSpec ==
    /\ MCInit /\ [][MCNext]_allVars
    /\ ExptFairness
    /\ WF_vars(Monitoring /\ Poll) /\ WF_vars(Monitoring /\ PollerStep)
    /\ WF_vars(Monitoring /\ Activate) /\ SF_vars(Monitoring /\ RecordProtection)
    /\ WF_vars(Monitoring /\ UpstreamStart)
    /\ WF_vars(Monitoring /\ LoadVersion) /\ WF_vars(Monitoring /\ LoadTopo)
=============================================================================
