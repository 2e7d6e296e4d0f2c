---------------------------- MODULE MCSimulation ----------------------------
(***************************************************************************)
(* The generator of failure traces or the simulator that reads one, of a   *)
(* network with one pod of two ToRs and two aggregation switches, and two  *)
(* planes of two core switches: every ToR has four paths to the core.      *)
(***************************************************************************)
EXTENDS Simulation, LossTrace

VARIABLE program    \* the program that runs
allVars == <<program, vars, genVars>>

MCTors  == {"t1", "t2"}
MCAggs  == {"a1", "a2"}
MCCores == {"c1", "c2", "c3", "c4"}

MCPodOf   == [sw \in MCTors \cup MCAggs |-> "pod"]
MCPlaneOf == "a1" :> 1 @@ "a2" :> 2 @@ "c1" :> 1 @@ "c2" :> 1
                @@ "c3" :> 2 @@ "c4" :> 2

\* Links to odd neighbours go to the first pipe of a switch.
MCPipeOf == [p \in (MCTors \cup MCAggs \cup MCCores)
                    \X ((MCTors \cup MCAggs) \X (MCAggs \cup MCCores)) |->
    LET neighbour == IF p[2][1] = p[1] THEN p[2][2] ELSE p[2][1]
    IN  IF neighbour \in {"t1", "a1", "c1", "c3"} THEN 0 ELSE 1]

\* Partial deployment: core links and one ToR do without LinkGuardian.
MCLgCapable == {<<"t1", "a1">>, <<"t1", "a2">>, <<"t2", "a1">>, <<"a1", "c1">>,
                <<"a1", "c2">>}

MCLossRates == {2, 3}
MCLgPerf == 2 :> [lossRate |-> 1, capacity |-> 9]
         @@ 3 :> [lossRate |-> 2, capacity |-> 8]

AllSolutions == {"DoNothing", "DisableAndRepair", "CorrOpt", "LinkGuardian",
                 "LG_CorrOpt"}
MCFailureTimes == <<1, 1, 3, 4>>

MCShares == {<<6>>, <<1, 2, 3>>}
MCGaps == {0, 2}

\* The program that does not run waits in one of its initial states.
MCInit ==
    /\ program \in {"generate", "simulate"}
    /\ Init /\ GenInit
    /\ program = "simulate" => shares = <<6>>
    /\ program = "generate" => solution = "DoNothing"

MCNext ==
    /\ UNCHANGED program
    /\ \/ program = "generate" /\ GenNext /\ UNCHANGED vars
       \/ program = "simulate" /\ Next /\ UNCHANGED genVars

MCSpec ==
    /\ MCInit /\ [][MCNext]_allVars
    /\ WF_genVars(program = "generate" /\ GenNext)
=============================================================================
