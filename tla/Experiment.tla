----------------------------- MODULE Experiment ------------------------------
(***************************************************************************)
(* The scripts of the sender's shell that measure the loss rate of the     *)
(* link: run_effective_lossRate_linkSpeed_expt and check_loss_rate.  They  *)
(* reset the registers and counters of three switches, let the packet      *)
(* generator send a number of frames, and compare what the counters say at *)
(* the two ends.  The other switches are reached by commands nobody        *)
(* confirms; a process on one of them polls its counters meanwhile, and a  *)
(* thread on this one.                                                     *)
(*                                                                         *)
(* A script may be interrupted (Ctrl-C) before any of its steps and is     *)
(* then not cleaned up after; the next one starts from what is left.       *)
(*                                                                         *)
(* Taken from the time scale: the link, with its retransmissions, comes to *)
(* rest in the time of one call of the control plane (microseconds and     *)
(* milliseconds); five seconds are enough for a command on another switch, *)
(* two for a counter to be copied into the shadow that software reads and  *)
(* for a poller that was told to stop, one for a poller to start.          *)
(***************************************************************************)
EXTENDS Integers, Sequences, FiniteSets, FiniteSetsExt

CONSTANTS
    Scripts,        \* the scripts to choose from, a record each
    Target,         \* num_pkts
    PktgenLimit,    \* frames that pass while the generator is limited
    MaxFrames,      \* bound on the frames of a run
    MaxLosses,      \* bound on the frames lost on the cable in a run
    MaxDrops,       \* bound on the emulated drops of a run
    MaxRuns         \* bound on the runs

ASSUME ExperimentAssumption ==
    /\ Scripts \subseteq [name : {"effective", "check"}, mode : {0, 1},
                          buffs : BOOLEAN, rand : BOOLEAN]
    /\ MaxFrames \in Nat /\ Target \in 1 .. MaxFrames
    /\ PktgenLimit \in 0 .. Target - 1
    /\ MaxLosses \in Nat /\ MaxDrops \in Nat /\ MaxRuns \in Nat

VARIABLES
    script,     \* the script that runs, or ran last
    steps,      \* what it has still to do
    run,        \* its number
    disturbed,  \* of "interrupted" and "lost" (a command), what befell it
    remote,     \* the calls other shells have still to make
    pktgen,     \* packet generator: on, limit_pktgen_traffic, its counter
    entry,      \* blocking_mode of the link_protect entry, or -1
    stale,      \* registers of both ends that hold something of a run
    hw,         \* counters of the switches
    shadow,     \* the port counters as software sees them
    link,       \* frames in flight, copies to send; what was lost on the
                \* cable, and dropped by the receiver's emulation (history)
    pollers,    \* the remote process of each run: its state and its switch
    client,     \* by switch, the run whose poller is its client 99
    stopEvent,  \* stop_polling_tx_buffer
    threads,    \* runs whose tx_buff_polling_thread runs
    values,     \* what the script has read
    results     \* the loss it has written, or none

runVars == <<script, steps, run, disturbed, values, results>>
switchVars == <<pktgen, entry, stale, hw, shadow, link>>
pollVars == <<pollers, client, stopEvent, threads>>
exptVars == <<runVars, remote, switchVars, pollVars>>

\* The registers of the protocol, by what they are about: reg_seq_no, reg_era
\* and the dummy packets' count; the LACK; the holes.  At the receiver
\* expected_seq_no; leading_ack, its era and count; reg_ack and its era.
SenderRegs == {"numbers", "lack", "holes"}
ReceiverRegs == {"expected", "lackToSend", "ack"}

\* Frames sent by and received at the ends of the link, behind the filter,
\* forwarded by the receiver, and past the duplicates dropped by the switch
\* behind it.  The register of protected frames has no shadow.
PortCounters == {"tx", "rx", "rxFilter", "forwarded", "deduped"}
CountersOf(sw) == CASE sw = "sender"   -> {"tx"}
                 [] sw = "receiver" -> {"rx", "rxFilter", "forwarded"}
                 [] sw = "topo"     -> {"deduped"}

Unset == -1
NoResults == [lost |-> Unset, unrecovered |-> Unset]

-----------------------------------------------------------------------------
(* The scripts *)

Do(op) == <<op, "">>
ClearAll(names) == [i \in DOMAIN names |-> <<"clear", names[i]>>]

\* Mutant of SenderReset: the LACK is forgotten.
SenderResetShort ==
    <<<<"clear", "port_stat">>, Do("stop_traffic")>>
    \o ClearAll(<<"numbers", "reg_pktgen_cntr", "protected", "holes">>)

\* reset_all of the sender
SenderReset ==
    <<<<"clear", "port_stat">>, Do("stop_traffic")>>
    \o ClearAll(<<"numbers", "lack", "reg_pktgen_cntr", "protected", "holes">>)

\* reset_all of the receiver and of the topology switch
RemoteReset(sw) ==
    IF sw = "topo" THEN <<"port_stat">>
    ELSE <<"port_stat", "expected", "lackToSend", "ack">>

When(condition, op) == IF condition THEN <<Do(op)>> ELSE <<>>

\* Mutant of LetTrafficPass: the generator stays limited.
LeaveLimited == <<>>

LetTrafficPass == <<Do("unlimit")>>

\* Mutant of FinalPause: the counters are read at once.
NoPause == <<>>

\* "Getting final counters"
FinalPause == <<Do("sleep")>>

\* run_effective_lossRate_linkSpeed_expt
Effective(s) ==
    <<Do("stop_traffic")>> \o LetTrafficPass
    \o <<<<"clear", "reg_pktgen_cntr">>, Do("disable"), Do("enable")>>
    \o SenderReset
    \o <<<<"remote", "receiver">>, <<"remote", "topo">>, Do("sleep"),
         Do("start_traffic"), Do("start_poller")>>
    \o When(s.buffs, "start_thread")
    \o <<Do("count")>>
    \o When(s.buffs, "stop_thread")
    \o <<Do("stop_poller"), Do("stop_traffic")>> \o FinalPause
    \o <<Do("rx_ok"), Do("tx_all"), Do("sent"), Do("rx_forwarded"),
         Do("limit"), <<"clear", "reg_pktgen_cntr">>, Do("write")>>

\* check_loss_rate; the operator clears the counters of the receiver.
CheckLossRate ==
    <<Do("stop_traffic"), Do("disable"), Do("unlimit"),
      <<"clear", "reg_pktgen_cntr">>, <<"clear", "port_stat">>, Do("input"),
      Do("start_traffic"), Do("count"), Do("stop_traffic"), Do("sleep"),
      Do("rx_ok"), Do("tx_all"), Do("limit"), <<"clear", "reg_pktgen_cntr">>,
      Do("write")>>

Steps(s) == IF s.name = "effective" THEN Effective(s) ELSE CheckLossRate

ExptInit ==
    /\ script \in Scripts
    /\ steps = <<>> /\ run = 0 /\ disturbed = {}
    /\ remote = [sw \in {"receiver", "topo"} |-> <<>>]
    /\ pktgen = [on |-> FALSE, limited |-> TRUE, count |-> 0]
    /\ entry = Unset
    /\ stale = {}
    /\ hw = [c \in PortCounters \cup {"protected"} |-> 0]
    /\ shadow = [c \in PortCounters |-> 0]
    /\ link = [sent |-> 0, flight |-> 0, retx |-> 0, lost |-> 0,
               dropped |-> 0, unrecovered |-> 0]
    /\ pollers = [r \in 1 .. MaxRuns |-> [state |-> "none", at |-> "receiver"]]
    /\ client = [sw \in {"receiver", "topo"} |-> 0]
    /\ stopEvent = FALSE
    /\ threads = {}
    /\ values = <<>>
    /\ results = NoResults

\* A script is typed into the shell.
Start ==
    /\ steps = <<>> /\ run < MaxRuns
    /\ script' \in Scripts
    /\ steps' = Steps(script')
    /\ run' = run + 1
    /\ disturbed' = {}
    /\ values' = [c \in {} |-> 0] /\ results' = NoResults
    /\ UNCHANGED <<remote, switchVars, pollVars>>

AtRest == link.flight = 0 /\ link.retx = 0

\* The shell makes its next step.
Step(op) ==
    /\ steps # <<>> /\ Head(steps)[1] = op
    /\ pktgen.on \/ AtRest
    /\ steps' = Tail(steps)
    /\ UNCHANGED <<script, run>>

\* A counter and its shadow are set to zero.
ClearPorts(sw) ==
    /\ hw' = [c \in DOMAIN hw |-> IF c \in CountersOf(sw) THEN 0 ELSE hw[c]]
    /\ shadow' = [c \in DOMAIN shadow |->
                    IF c \in CountersOf(sw) THEN 0 ELSE shadow[c]]

\* What a call to clear something does.
ClearCall(sw, name) ==
    \/ /\ name = "port_stat"
       /\ ClearPorts(sw)
       /\ UNCHANGED <<pktgen, stale>>
    \/ /\ name = "reg_pktgen_cntr"
       /\ pktgen' = [pktgen EXCEPT !.count = 0]
       /\ UNCHANGED <<hw, shadow, stale>>
    \/ /\ name = "protected"
       /\ hw' = [hw EXCEPT !["protected"] = 0]
       /\ UNCHANGED <<pktgen, shadow, stale>>
    \/ /\ name \in SenderRegs \cup ReceiverRegs
       /\ stale' = stale \ {name}
       /\ UNCHANGED <<pktgen, hw, shadow>>

Clear ==
    /\ Step("clear")
    /\ ClearCall("sender", Head(steps)[2])
    /\ UNCHANGED <<disturbed, values, results, remote, entry, link, pollVars>>

\* Another shell clears what it was told to.
RemoteClear(sw) ==
    /\ remote[sw] # <<>>
    /\ ClearCall(sw, Head(remote[sw]))
    /\ remote' = [remote EXCEPT ![sw] = Tail(@)]
    /\ UNCHANGED <<runVars, entry, link, pollVars>>

StopTraffic ==
    /\ Step("stop_traffic")
    /\ pktgen' = [pktgen EXCEPT !.on = FALSE]
    /\ UNCHANGED <<disturbed, values, results, remote, entry, stale, hw, shadow,
                   link, pollVars>>

StartTraffic ==
    /\ Step("start_traffic")
    /\ pktgen' = [pktgen EXCEPT !.on = TRUE]
    /\ link' = [sent |-> 0, flight |-> 0, retx |-> 0, lost |-> 0,
                dropped |-> 0, unrecovered |-> 0]
    /\ UNCHANGED <<disturbed, values, results, remote, entry, stale, hw, shadow,
                   pollVars>>

\* limit_trafficgen and unlimit_trafficgen
Limit ==
    /\ Step("limit") \/ Step("unlimit")
    /\ pktgen' = [pktgen EXCEPT !.limited = Head(steps)[1] = "limit"]
    /\ UNCHANGED <<disturbed, values, results, remote, entry, stale, hw, shadow,
                   link, pollVars>>

\* disable_protection and enable_protection
Protect ==
    /\ Step("disable") \/ Step("enable")
    /\ entry' = IF Head(steps)[1] = "enable" THEN script.mode ELSE Unset
    /\ UNCHANGED <<disturbed, values, results, remote, pktgen, stale, hw, shadow,
                   link, pollVars>>

\* exec_remote_bfrt_command: the command may be lost on its way.
Remote ==
    /\ Step("remote")
    /\ LET sw == Head(steps)[2]
       IN  \/ /\ remote' = [remote EXCEPT ![sw] = @ \o RemoteReset(sw)]
              /\ UNCHANGED disturbed
           \/ /\ disturbed' = disturbed \cup {"lost"}
              /\ UNCHANGED remote
    /\ UNCHANGED <<values, results, switchVars, pollVars>>

\* The operator answers the prompt, in a shell that has nothing left to do,
\* after having cleared the counters.
Input ==
    /\ Step("input")
    /\ remote["receiver"] = <<>>
    /\ ClearPorts("receiver")
    /\ UNCHANGED <<disturbed, values, results, remote, pktgen, entry, stale,
                   link, pollVars>>

\* The five seconds after the commands, the two before the last counters.
Sleep ==
    /\ Step("sleep")
    /\ remote = [sw \in DOMAIN remote |-> <<>>]
    /\ \A c \in PortCounters : shadow[c] = hw[c]
    /\ \A r \in DOMAIN pollers : pollers[r].state # "stopping"
    /\ UNCHANGED <<disturbed, values, results, remote, switchVars, pollVars>>

\* The switch that counts what the receiver hands on: in non-blocking mode
\* the one that drops the duplicates.
CountingSwitch == IF script.mode = 0 THEN "topo" ELSE "receiver"

\* start_rx_counters_polling and start_rx_counters_polling_ext
StartPoller ==
    /\ Step("start_poller")
    /\ pollers' = [pollers EXCEPT
        ![run] = [state |-> "requested", at |-> CountingSwitch]]
    /\ UNCHANGED <<disturbed, values, results, remote, switchVars, client,
                   stopEvent, threads>>

\* start_tx_buff_polling
StartThread ==
    /\ Step("start_thread")
    /\ stopEvent' = FALSE
    /\ threads' = threads \cup {run}
    /\ UNCHANGED <<disturbed, values, results, remote, switchVars, pollers, client>>

Sent == IF script.name = "effective" THEN hw["protected"] ELSE shadow["tx"]

\* The loop goes on until num_pkts are sent.
Count ==
    /\ Step("count")
    /\ Sent >= Target
    /\ pollers[run].state # "requested"
    /\ UNCHANGED <<disturbed, values, results, remote, switchVars, pollVars>>

\* Mutant of RaiseStop: the event is not set.
NoStop == FALSE

RaiseStop == TRUE

\* stop_tx_buff_polling: set, then join.
SetStop ==
    /\ steps # <<>> /\ Head(steps)[1] = "stop_thread" /\ stopEvent # RaiseStop
    /\ stopEvent' = RaiseStop
    /\ UNCHANGED <<runVars, remote, switchVars, pollers, client, threads>>

\* Mutant of Joined: the thread is not joined.
NotJoined == TRUE

\* tx_buff_polling_thread.join() returns.
Joined == run \notin threads

Join ==
    /\ Step("stop_thread")
    /\ stopEvent = RaiseStop
    /\ Joined
    /\ UNCHANGED <<disturbed, values, results, remote, switchVars, pollVars>>

ThreadEnds(r) ==
    /\ r \in threads /\ stopEvent
    /\ threads' = threads \ {r}
    /\ UNCHANGED <<runVars, remote, switchVars, pollers, client, stopEvent>>

-----------------------------------------------------------------------------
(* poll_rx_counters.py on the other switch *)

PollerStarts(r) ==
    /\ pollers[r].state = "requested"
    /\ pollers' = [pollers EXCEPT ![r].state = "starting"]
    /\ UNCHANGED <<runVars, remote, switchVars, client, stopEvent, threads>>

\* A client number that is taken makes it crash.
PollerConnects(r) ==
    /\ pollers[r].state = "starting"
    /\ \/ /\ client[pollers[r].at] = 0
          /\ pollers' = [pollers EXCEPT ![r].state = "polling"]
          /\ client' = [client EXCEPT ![pollers[r].at] = r]
       \/ /\ client[pollers[r].at] # 0
          /\ pollers' = [pollers EXCEPT ![r].state = "ended"]
          /\ UNCHANGED client
    /\ UNCHANGED <<runVars, remote, switchVars, stopEvent, threads>>

\* pkill -2: a process that does not poll yet dies or ends at once.
StopPoller ==
    /\ Step("stop_poller")
    /\ pollers' = [r \in DOMAIN pollers |->
        IF pollers[r].at # CountingSwitch THEN pollers[r]
        ELSE CASE pollers[r].state = "starting" ->
                    [pollers[r] EXCEPT !.state = "ended"]
               [] pollers[r].state = "polling"  ->
                    [pollers[r] EXCEPT !.state = "stopping"]
               [] OTHER -> pollers[r]]
    /\ UNCHANGED <<disturbed, values, results, remote, switchVars, client,
                   stopEvent, threads>>

PollerEnds(r) ==
    /\ pollers[r].state = "stopping"
    /\ pollers' = [pollers EXCEPT ![r].state = "ended"]
    /\ client' = [client EXCEPT ![pollers[r].at] = 0]
    /\ UNCHANGED <<runVars, remote, switchVars, stopEvent, threads>>

-----------------------------------------------------------------------------
(* The final counters *)

\* Mutant of ReceivedCounter: always the port of the link.
LinkCounter == "rx"

\* The counter get_rx_ok_counter fetches.  Emulated drops happen between link
\* and filter; check_loss_rate does not say that there are any.
ReceivedCounter ==
    IF script.name = "effective" /\ script.rand THEN "rxFilter" ELSE "rx"

\* get_rx_forwarded_counter
ForwardedCounter == IF script.mode = 0 THEN "deduped" ELSE "forwarded"

\* A value is read; an error ends the script.
Value(name, value, error) ==
    /\ steps # <<>> /\ Head(steps)[1] = name /\ (pktgen.on \/ AtRest)
    /\ IF error THEN steps' = <<>> /\ UNCHANGED values
       ELSE /\ steps' = Tail(steps)
            /\ values' = [c \in DOMAIN values \cup {name} |->
                            IF c = name THEN value ELSE values[c]]
    /\ UNCHANGED <<script, run, disturbed, results, remote, switchVars, pollVars>>

\* The scripts that fetch a counter are client 99 of the other switch; the
\* losses are divided by the frames sent.
Read ==
    \/ Value("rx_ok", shadow[ReceivedCounter], client["receiver"] # 0)
    \/ Value("tx_all", shadow["tx"], shadow["tx"] = 0)
    \/ Value("sent", hw["protected"], FALSE)
    \/ Value("rx_forwarded", shadow[ForwardedCounter],
             client[CountingSwitch] # 0 \/ values["sent"] = 0)

Write ==
    /\ Step("write")
    /\ results' = [lost |-> values["tx_all"] - values["rx_ok"],
                   unrecovered |->
                        IF script.name = "check" THEN Unset
                        ELSE values["sent"] - values["rx_forwarded"]]
    /\ UNCHANGED <<disturbed, values, remote, switchVars, pollVars>>

\* Ctrl-C; run_effective_lossRate_linkSpeed_expt catches it where it counts,
\* and goes on behind the loop.
Interrupt ==
    /\ steps # <<>>
    /\ steps' = IF script.name = "effective" /\ Head(steps)[1] = "count"
                THEN Tail(steps) ELSE <<>>
    /\ disturbed' = disturbed \cup {"interrupted"}
    /\ UNCHANGED <<script, run, values, results, remote, switchVars, pollVars>>

-----------------------------------------------------------------------------
(* The link *)

\* The packet generator ticks.
Generate ==
    /\ pktgen.on /\ link.sent < MaxFrames
    /\ pktgen.limited => pktgen.count < PktgenLimit
    /\ pktgen' = [pktgen EXCEPT !.count = IF pktgen.limited THEN @ + 1 ELSE @]
    /\ link' = [link EXCEPT !.sent = @ + 1, !.flight = @ + 1]
    /\ hw' = [hw EXCEPT !["tx"] = @ + 1,
                        !["protected"] = IF entry = Unset THEN @ ELSE @ + 1]
    /\ stale' = IF entry = Unset THEN stale ELSE SenderRegs \cup ReceiverRegs
    /\ UNCHANGED <<runVars, remote, entry, shadow, pollVars>>

\* Of the frames of one packet "arrived" get to the port of the link and "good"
\* through the filter; in blocking mode the receiver hands on one of them.
Received(arrived, good) ==
    [hw EXCEPT
        !["rx"]        = @ + arrived,
        !["rxFilter"]  = @ + good,
        !["forwarded"] = @ + (IF entry = 1 /\ good > 1 THEN 1 ELSE good),
        !["deduped"]   = @ + (IF good > 1 THEN 1 ELSE good)]

\* Only emulation drops what has arrived.
Arriving(copies, good) == IF script.rand THEN good .. copies ELSE {good}

Transmit ==
    \E good \in 0 .. 1 : \E arrived \in Arriving(1, good) :
        /\ link.flight > 0
        /\ link.lost + 1 - arrived <= MaxLosses
        /\ link.dropped + arrived - good <= MaxDrops
        /\ hw' = Received(arrived, good)
        /\ link' = [link EXCEPT
            !.flight = @ - 1,
            !.lost = @ + 1 - arrived,
            !.dropped = @ + arrived - good,
            !.retx = IF good = 0 /\ entry # Unset THEN @ + 1 ELSE @]
        /\ UNCHANGED <<runVars, remote, pktgen, entry, stale, shadow, pollVars>>

\* Two copies of a lost frame.
Retransmit ==
    \E good \in 0 .. 2 : \E arrived \in Arriving(2, good) :
        /\ link.retx > 0
        /\ link.lost + 2 - arrived <= MaxLosses
        /\ link.dropped + arrived - good <= MaxDrops
        /\ hw' = [Received(arrived, good) EXCEPT !["tx"] = @ + 2]
        /\ link' = [link EXCEPT
            !.retx = @ - 1,
            !.lost = @ + 2 - arrived,
            !.dropped = @ + arrived - good,
            !.unrecovered = IF good = 0 THEN @ + 1 ELSE @]
        /\ UNCHANGED <<runVars, remote, pktgen, entry, stale, shadow, pollVars>>

\* The drivers copy the port counters, now and then.  (What they copy while
\* frames are on their way is overwritten before it is read.)
Sync ==
    /\ AtRest
    /\ shadow # [c \in PortCounters |-> hw[c]]
    /\ shadow' = [c \in PortCounters |-> hw[c]]
    /\ UNCHANGED <<runVars, remote, pktgen, entry, stale, hw, link, pollVars>>

-----------------------------------------------------------------------------
ScriptStep ==
    \/ Clear \/ StopTraffic \/ StartTraffic \/ Limit \/ Protect \/ Remote
    \/ Input \/ Sleep \/ StartPoller \/ StartThread \/ Count \/ SetStop \/ Join
    \/ StopPoller \/ Read \/ Write

LinkStep == Transmit \/ Retransmit

ExptNext ==
    \/ Start \/ ScriptStep \/ Interrupt
    \/ Generate \/ LinkStep \/ Sync
    \/ \E sw \in {"receiver", "topo"} : RemoteClear(sw)
    \/ \E r \in 1 .. MaxRuns :
        PollerStarts(r) \/ PollerConnects(r) \/ PollerEnds(r) \/ ThreadEnds(r)

(***************************************************************************)
(* The shell goes on, the generator ticks while it is on, frames arrive,   *)
(* the other shells and processes run, the shadows are refreshed.  Nobody  *)
(* need interrupt a script or start one.                                   *)
(***************************************************************************)
ExptFairness ==
    /\ WF_exptVars(ScriptStep) /\ WF_exptVars(Generate) /\ WF_exptVars(LinkStep)
    /\ WF_exptVars(Sync)
    /\ \A sw \in {"receiver", "topo"} : WF_exptVars(RemoteClear(sw))
    /\ \A r \in 1 .. MaxRuns :
        WF_exptVars(PollerStarts(r) \/ PollerConnects(r) \/ PollerEnds(r)
                        \/ ThreadEnds(r))

ExptSpec == ExptInit /\ [][ExptNext]_exptVars /\ ExptFairness

-----------------------------------------------------------------------------
(***************************************************************************)
(* When run_effective_lossRate_linkSpeed_expt starts the traffic, and no   *)
(* command to another switch was lost, no register of the two ends and no  *)
(* counter of the three switches holds anything of an earlier run, however *)
(* that ended.                                                             *)
(***************************************************************************)
CleanStart ==
    /\ steps # <<>> /\ Head(steps)[1] = "start_traffic"
    /\ script.name = "effective" /\ "lost" \notin disturbed
    => /\ ~pktgen.on /\ stale = {}
       /\ \A c \in DOMAIN hw : hw[c] = 0
       /\ \A c \in DOMAIN shadow : shadow[c] = 0

\* What a script can see of the losses.
MeasuredLosses ==
    IF script.name = "effective" THEN link.lost + link.dropped ELSE link.lost

(***************************************************************************)
(* The written loss rates are exact, copies of retransmissions included,   *)
(* also when the counting was interrupted, and whatever an earlier,        *)
(* interrupted run left behind.  run_effective_lossRate_linkSpeed_expt     *)
(* writes the frames lost on the cable and those dropped by emulation, and *)
(* the packets that no copy of got through; check_loss_rate the frames     *)
(* lost on the cable, and nothing of emulated drops, which happen behind   *)
(* the port it always reads.                                               *)
(***************************************************************************)
MeasurementExact ==
    results # NoResults /\ "lost" \notin disturbed =>
        /\ results.lost = MeasuredLosses
        /\ results.unrecovered \in {Unset, link.unrecovered}

(***************************************************************************)
(* A run that nobody interrupted leaves no traffic, no thread that writes  *)
(* its file, and no process on the other switch that keeps the client      *)
(* number the next run needs.                                              *)
(***************************************************************************)
LeavesNothing ==
    results # NoResults /\ "interrupted" \notin disturbed =>
        /\ ~pktgen.on /\ pktgen.limited
        /\ run \notin threads
        /\ pollers[run].state \in {"none", "ended"}

\* Every script comes to an end, or hits an error.
RunEnds == (steps # <<>>) ~> (steps = <<>>)
=============================================================================
