# A TLA+ verification of LinkGuardian

LinkGuardian masks corruption packet loss on one direction of a link between
two switches. The sending switch numbers and buffers packets; the receiving
switch finds holes in the numbers and asks for a retransmission. In *blocking
mode* the receiver also holds back what came after a hole, so that the user
sees no reordering; in *non-blocking mode* it does not. The repository holds
the two data planes (P4 for Tofino), a control-plane daemon (`corruptd`) that
turns protection on, and an event-driven simulator of a data centre that
deploys LinkGuardian together with CorrOpt.

Paths below are relative to `src/`; `sender.p4`, `receiver.p4`,
`linkradar_hdr.p4` and the two `includes/` are those of
`switch_impl/system_impl/`.

## 1. The system

| component | state it keeps | operations | speaks to |
|---|---|---|---|
| sender data plane, `sender.p4` | `reg_seq_no`, `reg_era`, `reg_dummy_pkt_notify_count`, `reg_leading_ack(_era)`, `reg_holes_1..5`, mirrored copies in recirculation | protect and mirror a packet; send dummy packets when idle; record a LACK and a loss notification; retransmit, free or recirculate a copy | receiver, over the link in both directions |
| receiver data plane, `receiver.p4` (`receiver_10g.p4`: same program, other time-out) | `reg_expected_seq_no`, `reg_ack_no`, `reg_ack_era`, `reg_timeout_flag`, `reg_leading_ack(_era)`, `reg_leading_ack_notify_count`, rx buffer in recirculation | find holes; update the LACK; send loss notifications, courier and piggybacked LACKs; in blocking mode hand on, hold back, de-duplicate, time out | sender, hosts |
| flow control, `receiver.p4`, `*/config_pktgen.py` | depth of the recirculation queue, `reg_pfc_curr_state`, a one-slot request register, the pause state of the sender's MAC | compare the depth with two thresholds; send pause and resume frames with the timer packets | sender's MAC |
| parsers and headers, `*/includes/*.p4`, `linkradar_hdr.p4`, `linkradar_scapy.py` | none | tell packets apart by type bits; add, remove and order headers | all pipelines |
| `corruptd`, `setup.py`, `util.py` | per port a window of counter deltas, a cached topology and its version, the keys of Redis, the tables of the switch | poll counters; look up the upstream switch; publish; activate protection; load the topology | daemons of other switches, through Redis |
| simulator: topology | links with loss rate, effective loss rate, capacity; per switch active uplinks, path counts, LinkGuardian ports; per pod capacity; a heap of loss rates | build, disable, enable, set rates | event loop, solutions |
| simulator: event loop, solutions | event queue, counters; reject cache of the optimizer | failure, recovery; fast checker, optimizer, LinkGuardian, combination | topology |
| set-up scripts (`setup-ae.py` of three switches and their 10G versions, `setup_all_switches.sh`, `change_link_speeds.sh`, `check_link_speeds.py`) | tables, ports, mirror sessions, multicast groups, queue priorities of each switch | fill the tables in order, inject the first dummy and courier packet, change the copies of a retransmission or the speed of links, check the links | data planes, the operator |
| control-plane commands (`devtest_cmds.py` of three switches) | registers and counters of the switch, a polling thread and an event, result files | reset, start and limit traffic, switch protection, measure the loss rate | the other switches, by commands over ssh nobody confirms |
| remote scripts `poll_rx_counters.py`, `get_rx_*_counter.py` | a client number of the switch they poll | poll counters until told to stop, fetch the final counters | control-plane commands |
| testbed switch `topo.p4` | forwarding between emulated switches, the time-stamp of the last marked packet | forward, drop second copies, drop on purpose | data planes, hosts |
| trace generator | an event queue, the distribution of loss rates | draw the failures of every link, cut the trace | simulator, by a file |
| RDMA test programs, plotting | none that the system reads | load, figures | around the system |

What is hard here, and what each component must guarantee:

- *Numbers and eras.* 16-bit numbers wrap, a one-bit era tells two
  consecutive rounds apart, and each is a register of its own on each side.
  Both switches must count alike across every wrap, for dummy packets and for
  time-outs as well.
- *Order on the way back.* A LACK frees copies, a loss notification saves
  them. They travel through different mirror sessions, queues and registers,
  and a LACK that overtakes a notification loses a packet for good.
- *Silence.* The last packets before the link falls idle can be lost too, and
  only dummy packets reveal that; a hole bit, a copy, a pause or a held back
  packet that nobody ever comes back for stays for ever.
- *Time-outs racing late answers* in blocking mode, with copies of one
  retransmission arriving before and after.
- *Flow control* with a one-slot mailbox between the egress that compares the
  depth and the timer packet that sends the frame.
- *Redis between daemons.* Publications are lost when nobody listens, reads
  and writes of two keys are not atomic, and activation programs two tables
  and then a key with awaits in between that a time-out may cut.
- *Caches of the simulator.* Path counts, capacities, penalties, ports and a
  heap are updated incrementally by every operation, and the optimizer judges
  sets of links by them before any is disabled.
- *Three shells and a testbed.* The set-up scripts fill three switches
  independently while frames cross them; a command interrupted between two
  table operations leaves what the next one starts from, and a packet that
  must circulate for ever is injected once.
- *Measurements.* Registers of three switches are reset by commands whose loss
  nobody notices; counters are read from shadows that lag; a thread, a remote
  process and a rate limit outlive a script that is interrupted.
- *Builders and generators.* The number of links, the ToRs a link affects and
  the capacities are computed in several places by different formulas.

`PROJECT.json` lists these hazards at their lines, with the properties that
would catch them.

## 2. The modules

    LGSeqNo ── LGWires ──┬── LGSender ───┐
                         └── LGReceiver ─┴── LinkGuardian ──┬── MCLinkGuardian
                                             (OrderedLink)  └── LGFlowControl ── MCFlowControl
    LGPackets, Testbed ── MCPackets
    EventQueue ──┬── LossTrace ───┬── MCSimulation
                 └── Simulation ──┘
    Topology ── CorrOpt ──┘
    Corruptd ── MCCorruptd ───────┬── MCTools
    Topology ── TopologyBuilder ──┤
    Experiment ───────────────────┘

    proofs:
    LGFlowControl ── LinkGuardianProofs ── LGRecoveryProofs
    Corruptd, Testbed ── ControlPlaneProofs
    EventQueue ── FoldProofs ──┬── TopologyProofs (CorrOpt) ── SimulationProofs (Simulation)
                               └── ToolsProofs (LossTrace, TopologyBuilder)
    Experiment ── ExperimentProofs

**LGSeqNo** has numbers, eras, their arithmetic and the era-corrected
comparison (`era_correction`), for any range `2 * HalfRange`; the code has
`2^16`.

**LGWires** has the messages and the link: one FIFO wire each way. `Packet`
is the data header, `AckMessage` a LACK with or without a loss notification.
Each message also carries an `id`, the index of its packet. It stands for the
payload and is used by properties only; every guard of an action looks at
`seq`, `era` and the other fields the code has.

**LGSender** and **LGReceiver** have one action for each kind of packet that
passes a pipeline of the switch:

| action | code |
|---|---|
| `SendNormal`, `SendDummy` | sender `SwitchEgress.apply`, normal and dummy packet |
| `RecordLeadingAck` | sender `SwitchIngress.apply`, packet with a LACK |
| `ProcessBuffered` | sender `SwitchIngress.apply`, buffered copy (comparison, hole registers, retransmission) |
| `ReceivePacket` | receiver `SwitchIngress.apply`, packet from the wire: hole detection, mirroring, forwarding |
| `ReprocessBuffered` | the same, packet of the rx buffer |
| `TimerPacket` | the same, packet of the packet generator |
| `EgressLackUpdate`, `EgressLossNotification`, `EgressLack` | receiver `SwitchEgress.apply`, the two mirrored copies, courier or normal packet that takes a pending LACK |

An action is atomic, as a packet's pass through a Tofino pipeline is: the
stages of one packet never see the registers between two stages of another
packet's update. What is *not* atomic in the switch is not atomic in the
model: ingress and egress are separate actions with queues (`lackUpdates`,
`lossNotifications`) between them, and the buffers are sets whose members come
round in any order.

**LinkGuardian** composes the two switches and states the properties.
**OrderedLink** is what blocking mode promises; the link is shown to implement
it with `accepted <- sent, output <- delivered, skipped <- gaveUp`.

**LGFlowControl** adds to the link the recirculation queue as a queue, its
depth, the two thresholds, the request register and the sender's paused queue.
Its actions extend those of LinkGuardian, so every interleaving of the
protocol with the flow control is there.

**LGPackets** follows one frame, or any one of the copies mirrored from it,
through the four parsers, controls and deparsers. Here a frame is the sequence
of its headers; what depends on registers is any choice, since the other
modules decide it. The receiver marks the source address of retransmitted test
traffic for the switch behind it; this mark is modelled, other address bytes
are not.

**Topology**, **CorrOpt** and **Simulation** are the simulator: state and
caches with the operations on them, the fast checker and the optimizer (as
operators on a topology), and the event loop with the solutions. Every cache
is a variable that the operations update the way the code does; the properties
recompute it from the graph.

**Corruptd** is one protected link with its two daemons, Redis and the set-up
tool. A step ends where the code awaits Redis or the switch: everything else
may happen there.

**EventQueue** is the queue of the simulator, `EventQueue` of
`simulation.py`: a set of events and the record of the times in use, with the
step that moves an event to a free time. **Simulation** and **LossTrace** use
it.

**LossTrace** is the trace generator: `AddLink` gives one link its failures,
`StartCutting` and `TakeEvent` are the loop that cuts the trace, `DumpTrace`
writes it. The bucket of a loss rate is computed with the ranges of
`loss_rate_generator.py`. **TopologyBuilder** builds a fat tree or a fabric
loop by loop, `BuildPod` for each pod and `ConnectCore` for each core switch,
and compares the result with `BuiltTopology`, from which Simulation starts.

**Testbed** has the control planes of the three switches. `todo[sw]` is the
list of calls a shell has still to make, in the order of its script;
`Call(sw)` makes the first. A call adds or deletes an entry, and fails where
the drivers refuse it. `SetNumberOfRetxCopies` and `ChangeLinkSpeeds` are
commands typed in later, `Interrupt(sw)` is Ctrl-C, `CheckLinks` and
`EndOfRound` are the operator's script, `SendFrame` and `Forward` a frame that
crosses the switches while all this happens. `operator.answers` has what each
switch printed in this round, `operator.early` the ports that had the speed
before it was asked for. `seed` follows the first dummy and courier packet:
injected before its mirror session it is lost.

**Experiment** has the two measurement scripts as lists of steps, each with an
action (`Clear`, `Limit`, `Remote`, `Count`, `Read`, ...). The other switches,
the poller, the polling thread, the packet generator, the link with the losses
of the cable and those the receiver's switch emulates, and the refresh of the
shadow counters are processes beside it. A script may
be interrupted before any step, and the next run starts from what is left.

TopologyBuilder, Experiment and Corruptd are three programs that share no
state; MCTools runs one of them in a behaviour. So does MCPackets with
LGPackets and Testbed, and MCSimulation with the generator of traces and the
simulator that reads one.

## 3. The runs

| run | states | what it shows |
|---|---|---|
| `nonblocking` | 1,212,259 | eight packets over numbers `0..5`, so more than one wrap and two eras; three corruptions of data, dummy packets or copies; two copies a retransmission; two hole registers, so that a burst may exceed them; mirrored copies overtake each other |
| `blocking` | 1,185,565 | seven packets over the same range, time-outs at any moment; refinement of OrderedLink, the ack and the recorded LACK; deadlock is checked, and the only state without a step is the one at rest (`Quiet`) |
| `liveness` | 51,473 | six packets over `0..3`: retransmission, drained buffers and delivery under fairness |
| `boot_loss` | violation | the zeros of the LACK registers acknowledge packet 0 |
| `timeout_wrap` | violation | a time-out over the last number of an era leaves `reg_ack_era` |
| `flow_control` | 187,647 | thresholds 2 and 1, five packets, two PFC frames on the way |
| `simulation` | 141,995 | the simulator: a pod of 2 ToRs, 2 aggregation switches, 2 planes of 2 cores; four failures at times 1, 1, 3, 4 of any link and rate; each of five solutions. The trace generator: two links, two failures each, clashing times |
| `light_traffic`, `stale_topology`, `fluctuating` | violations | see section 6 |
| `packets` | 1,395,523 | every kind of frame on every path through both pipelines, both modes; and the set-up of three switches for 10 or 100 Gbit/s in any interleaving with a frame, one later command and the checks of the links |
| `tools` | 443,302 | six fat trees and fabrics, built for a trace of any of them; two measurement runs in a row with losses, emulated drops, lost commands and Ctrl-C at any step; the daemons of a busy link whose loss rate goes up and down, with a crash and restart, two loads of the topology and two messages on the way |

Why the bounds are enough. The numbers are relative to a window and a range;
the comparison depends on them only through `HalfRange`, and the theorem
`EraComparison` covers every range. Six numbers and eight packets let every
header cross a wrap with all registers in play. Two of five hole registers,
and bursts of up to three, reach the case of a burst that is too long. Three
corruptions hit a packet, its notification's trigger and copies of its
retransmission together. Most of what these runs check is proved for every
bound (section 4).

The simulator's pod is the smallest where a ToR has two ways up and an
aggregation switch has two uplinks, so that the capacity constraint of 50 %
makes every decision of the fast checker and the optimizer occur; times
1, 1, 3, 4 with repair delays 2 and 4 make events clash. In the generator, gaps
of 0 and 2 hours make the failures of two links share a time or not, and a
duration of 3 cuts between them; `Whole = 6` with the shares `<<6>>` and
`<<1, 2, 3>>` has one bucket and three. The daemons' window has a threshold of
four frames, which one or two polls reach; two messages on the way let a
weaker report come behind a stronger one.

In `packets`, 10 and 100 are the speeds that set-up scripts exist for and 10
is the new speed, which one of the two set-ups has already; 0, 1 and 3 copies are the three branches of
`set_number_of_retx_copies` (no entry, unicast, multicast); one command
already meets every state of the set-up and an interruption at each of its
calls. In `tools` the fabrics have
an oversubscription that divides the ToRs and one that does not, a deployment
of 1 %, 50 % and 100 %, and more ports than fit in one pipe
(`MaxPortsPerPipe = 3`). One frame, up to three losses of it and its copies on
the cable and one emulated drop, and two runs let a run start from everything
an interrupted one can leave. The scripts are `effective` in both modes, with
and without the polling thread and emulated drops, and `check` with drops
emulated, which include none.

Deadlock is checked in `blocking`, `light_traffic`, `stale_topology` and
`fluctuating`. The other systems may stop: the bounded traffic, the trace,
the script, the set-up or the recirculation has ended.

### What the environment may do, and what is assumed

The link:

- `WithinWindow`: no packet a header still refers to is half the range behind
  the newest. The code rests on this (half the range is 32768 packets, a round
  trip a few hundred) and never checks it. It is a guard of the model, so the
  theorems rest on it too.
- A corrupted packet is dropped by the receiving MAC, so it is never put on
  the wire, and the wire stays FIFO. The reverse direction does not corrupt:
  LinkGuardian protects one direction.
- A retransmission leaves at once, since its queue has the highest priority,
  and its copies leave back to back.
- `LossyIds`: which first transmissions may be lost. Packet 0 is excluded in
  the passing runs, and included in `boot_loss`. In `liveness` and
  `flow_control` the last number of an era is excluded too, because a time-out
  over it is the case of `timeout_wrap`.
- `MayTimeout`: which acks the timer may step over; all in `timeout_wrap`, all
  but the last number of an era elsewhere.
- `CrossPortRace`: the two mirrored copies of the receiver go to the egress
  through different ports. In `nonblocking` they may overtake each other. In
  the other runs they arrive in the order they were mirrored in, as they do
  while neither port is congested; `LackNeverRegresses` needs that, since a
  LACK update that comes after a later notification arms the older LACK again.
- `TimeoutVal` 0 lets the timer fire at any moment (the code waits several
  ticks); 1 lets it count.

The testbed and the scripts around it:

- Queues keep a seed packet until its link is up; deleting a port may lose the
  one that circulates through it, or not.
- A frame's path is forgotten when the next call is made after it has arrived.
- The link comes to rest within one call of the control plane. Five seconds
  are enough for a command on another switch, two for the shadow counters and
  for a poller that was told to stop, one for a poller to start: these are the
  `sleep`s of the scripts. The operator answers their `input` when the shell
  of the receiver is idle.
- A command to another switch may be lost (ssh fails, or nobody sits in that
  shell's session). The script goes on, so the results of such a run are
  wrong, and `CleanStart` and `MeasurementExact` are about the others.

Bounds: `NumPackets`, `MaxLoss`, `MaxFrames` (PFC frames on the wire, in
Experiment frames of a run), `MaxLosses`, `MaxRuns`, `MaxCommands`,
`MaxDrops` (emulated), `MaxLoads`, `MaxCrashes`, `MaxMessages`, `MaxNops` (events made up from an
empty queue).

### Fairness

Weak fairness of each action of the data planes except `SendNormal`: buffered
copies, courier, dummy and held back packets recirculate at line rate for
ever, mirrored packets leave their queues, the wires deliver, the packet
generator ticks every 100 ns. Nothing is assumed of the traffic, which may
stop after any packet; that is what the dummy packets are for. In
LGFlowControl it is the same with the pause frames delivered, and a paused
sender is *not* assumed to send. In Corruptd the loops of the daemons
go on when they can, Redis answers, a crashed daemon is started again and a
load of the topology that began ends (weak fairness); the one-second time-out
may cut off recordings of the key, but not every one (strong fairness of
`RecordProtection`). Nothing obliges the link to get worse or better, a daemon
to crash or an operator to do anything. In Experiment the shell goes on, the generator
ticks while it is on, frames arrive, the shells, threads and pollers run and
the shadows are refreshed; nobody starts or interrupts a script by
obligation. The trace generator runs on.

### Properties and mutants

Each module has one property for the types and caches at most; for the
simulator, the packets and the daemons none is needed, since the properties
that compare caches with the graph, or headers with what a parser expects,
say more. `CachesExact` joins the comparisons of path counts, capacities,
penalties and ports. Losses of packets are checked by `NothingVanishes` in
`nonblocking`; in `blocking` the refinement says it, since a packet that
disappears stops the ordered link's output (`OrderedLinkFair` in `liveness`).

Each property has in `PROJECT.json` a mutant: a definition of the model changed
as a plausible bug would change the code (an era left out of a comparison, a
register not reset, a threshold off by one, a header emitted in another
order, a seed injected too early, a range one too short). With it, the same
run violates the property.

## 4. What is proved

The theorems hold for every value of the constants that satisfies the named
assumptions (`HalfRangeAssumption`, `WiresAssumption` and the like, which TLC
evaluates in the runs), so for 16-bit numbers, five hole registers and any
number of packets, copies, losses and time-outs. A theorem that needs more has
it as a hypothesis; the last column says which run shows that it is needed, or
with which constant changed the run of the property finds a counterexample.

| theorem | of | hypothesis | why |
|---|---|---|---|
| `TypeCorrect` | `TypeOK` | | |
| `HeadersAreFaithful` | `HeadersFaithful` | | |
| `LinkIsOrdered` | `OrderInv` | | |
| `AckIsTracked` | `AckTracksExpected` | no time-out over the last number of an era | the constants of `timeout_wrap` |
| `ImplementsOrderedLink` | `OrderedLinkSpec` | the same; blocking mode | the proof uses the count of the ack; TLC finds no counterexample within the bounds of `timeout_wrap` |
| `FlowControlImplementsLink` | LinkGuardian's `Spec` | | |
| `FlowControlKeepsOrder` | `OrderedLinkSpec`, with flow control | as above | as above |
| `FlowControlTypeCorrect` | `FlowControlTypeOK` | | |
| `NoPauseWithoutQueue` | `ResumedWhenDrained` | `1 <= ResumeThreshold < PauseThreshold` | an assumption on the constants; the set-up programs it so |
| `ResumeNeverLost` | `ResumeIsLastWord` | | |
| `HolesAreFresh` | `NoStaleHole` | packet 0 is not lost | packet 0 among `LossyIds` in `nonblocking`: its hole bit outlives its copy |
| `LossesStayBuffered` | `BufferedUntilRecovered` | the same; `[]ShortBursts` | `boot_loss`; `HoleSizeRange = 2` in `nonblocking` |
| `LacksNeverGoBack` | `LackNeverRegresses` | no overtaking between the mirror ports | `CrossPortRace = TRUE` in `blocking` |
| `OnlyLostAreDuplicated` | `NoSpuriousDuplicate` | non-blocking mode; packet 0 is not lost | as for `NoStaleHole`; in blocking mode the ordered link says more |
| `NothingIsLost` | `NothingVanishes` | packet 0 is not lost; `[]ShortBursts`; in blocking mode no time-out over the last number of an era | `boot_loss`, `HoleSizeRange = 2`, `timeout_wrap` |
| `FewLossesAreRepaired` | `NothingVanishes`, `BufferedUntilRecovered` | as above, with `MaxLoss < HoleSizeRange` for `[]ShortBursts` | |
| `EraComparison` | the comparison | packets at most half the range apart | |
| `KeyIsBacked` | `KeyStaysBacked` | | an action property: `KeyMeansProtected` itself is not an invariant when the loss rate goes down (section 5) |
| `LinksAreUp` | `AllUpMeansUp` | | the two ways in which the report can be wrong are part of the property; with either left out of it `packets` finds a counterexample (section 5) |
| `RetxGroupIsWhole` | `RetxGroupWhole` | | |
| `FramesArrive` | `FramesOnTheirWay` | for the arrival only: the scripts have run and no call of theirs failed or was interrupted | part of the property: a frame that meets half a configuration is dropped |
| `SeedsKeepCirculating` | `SeedsCirculate` | the shell was not changed to another speed or interrupted | part of the property: a deleted port loses what circulates through it |
| `CachesStayExact` | `CachesExact` | | |
| `LgFollowsCorruption` | `LgExactlyOnCorrupting` | | |
| `ConstraintHolds` | `CapacityConstraintHolds` | all ToRs have as many paths | an assumption on the constants: CorrOpt takes the number of one ToR for all, and says so (`corropt.py:33`) |
| `NoLinkLeftUp` | `NothingMoreToDisable` | the same | |
| `OptimizerIsBest` | `OptimizerIsOptimal` | the same | |
| `RepairsCome` | `RepairScheduled` | repairs take time | an assumption on the constants; two and four days in the code |
| `RowsAreRight` | `RowDescribesNetwork` | there is a link | without one there is no port whose count could be reported |
| `ScheduledIsSchedule` | `Scheduled`, the event queue | | |
| `TraceIsComplete` | `TraceComplete` | | |
| `StartIsClean` | `CleanStart` | no command to another shell was lost | part of the property: nobody notices the loss (`disturbed` in Experiment) |
| `MeasurementIsExact` | `MeasurementExact` | the same | the same; what `check_loss_rate` writes is the losses of the cable, without emulated drops (section 5) |
| `NothingIsLeft` | `LeavesNothing` | the run was not interrupted | part of the property: an interrupted script is not cleaned up after (section 5) |
| `TracedLinksAreBuilt` | `TracedLinksExist` | the oversubscription divides the ToRs | part of the property: the generator adds up fractions of core switches that the builder rounds down |
| `NetworkIsBuilt` | `BuiltAsAssumed` | the network has core switches | a fabric with one ToR a pod and an oversubscription of 2 among `MCFabrics` in `tools`: without a core switch there is no path, so the ToR recorded with a link is not affected by it |

The argument, from the bottom:

1. **LinkGuardianProofs**, arithmetic of numbers and eras: `EraComparison` is
   what `WithinWindow` is for: under it every comparison two headers take part
   in decides which packet was sent first.
2. **LinkGuardianProofs**, types and headers: `TypeOK` is inductive as it
   stands; the work is in the queues. `HeadersFaithful` is inductive relative to it, because it speaks
   of all places a header can be: number and era are two registers that each
   side moves by itself, and a LACK made from a dummy packet steps back by one
   across a possible wrap. It needs no window: counting alike needs no bound
   on delays, comparing does. `AckInv` (the ack counts what was handed on or
   given up, and what was given up lies before it) follows the same way.
3. **LinkGuardianProofs**, order: `OrderInv` relates *identities*, where headers only have
   numbers. `ArrivalsInv`: the first transmissions on the wire lie between the
   packet hole detection expects and the newest sent one, in order. `PastInv`:
   what has been noticed, recorded, held back or notified lies before the
   expected one. `NearInv`: nothing a header refers to is more than half
   the range behind. With it, each comparison of numbers and eras in a guard
   is replaced by one of identities, which the later proofs use. `AckBehind`
   (the ack never passes the expected packet) then makes the timer's test for
   equality enough, and the packet handed on is the one the ordered link
   delivers next: `OrderedLinkStep` maps every step of the link to a step of
   OrderedLink or to a stutter.
4. **LinkGuardianProofs**, flow control: the flow-controlled link, where early packets
   circulate in a queue and the sender may be paused, only restricts what
   LinkGuardian does (`LoopInv`: the queue holds each packet of the rx buffer
   once). What is proved of the link is therefore proved of it, the ordered
   link included. `PfcTypeOK` with `ResumeIsLastWord` is inductive.
5. **LGRecoveryProofs**, losses: `UnseenInv` says that of the packets not yet
   expected each was lost or is on the wire, and that copies of those are still
   buffered. `ReportsInv` relates the notifications in the receiver, those on
   the way and the hole bits: each reported number belongs to a lost packet
   whose copy is there and that no recorded LACK covers before the report.
   `RecoveryInv` adds that every loss that can be repaired is pending
   somewhere (not yet noticed, in a notification, in a hole bit) until its
   packet is retransmitted.
   `LackOrder` orders the recorded LACK, those on the way, in both mirror
   queues and in the receiver's register while it is armed.
6. **LGRecoveryProofs**, delivery: `DuplicateInv` counts: how often a packet was handed
   on is bounded by the number of its next copy on the wire. `FateInv` is the
   invariant behind `NothingVanishes`: a packet is retransmitted once, when its
   copy leaves the buffer, so its copies can all be corrupted only after its
   own corruption and as many more as there are copies; and in blocking mode
   what the ack has passed came out or was given up on, so that a packet
   dropped behind the ack is a duplicate. `FewLossesAreRepaired` bounds every
   burst by the number of losses.
7. **ControlPlaneProofs**, corruptd: as long as no poll has found less loss
   than one before (`eased`), `KeyInv` orders the same number in five places,
   from the key in Redis over the tables of the switch and the messages in the
   mailbox to what the poller found last; so no message is weaker than the key.
   `TablesInv` says without that condition that a message about to be recorded
   is what the tables were programmed for (`DaemonInv` joins the two). Of the steps
   that could get the key ahead of the tables, a record writes what the tables
   have, a load only clears the key, and an activation lowers the tables only
   below a key that is stronger than its message, which `KeyInv` excludes until
   the loss rate has gone down.
8. **ControlPlaneProofs**, testbed: `TestbedInv` relates what the tables of a
   switch hold to the calls its shell has still to make, since the tables are
   only right together with these. An entry that is needed at the end is there
   or still to be added, and nothing deletes it afterwards (`Settles`); a call
   still to be made will be accepted (`Accepted`): what it deletes is there or
   added before it, what it adds is not there or deleted before it. For the
   copies of retransmissions the order counts: the entry goes before the group
   it points to and comes after it (`RetxOrder`), which also covers an
   interruption between any two calls. `SeedReady` says that the route and the
   session of a seed packet precede its injection and that no call deletes
   them, and `PortsStay` that a port which has the speed asked for keeps it,
   unless it had this speed when the change began: otherwise the new speed
   means that its calls are over. So a good answer (`LinksDone`) stays true
   while the next switch is asked, for both ends of each link of the switch
   that gave it, but for ports that had the speed and are deleted. The scripts are taken call by call (`SenderListed` and the like
   write each one out). For the frames, `RouteInv` says what the forwarding
   entries can be: each only ever has the one right value (`Route`), some are
   there whenever others are because no script adds them in the other order
   (`Behind`), and what a frame needs on its way is there or still to come, and
   is not deleted (`Completes`). `FrameInv` then says that the path of a frame
   is the beginning of one of the few ways there are to its host, or left it by
   being dropped, which happens only on incomplete tables.
9. **FoldProofs** and **TopologyProofs**: the operations on the topology. A
   fold over a set, or over the places of a sequence, is the value of a
   recursive function on subsets. The lemmas about sums (one element more or
   less, unions, congruence), heaps (a bag is the initial value and one copy
   for each element) and schedules (one event more keeps the times apart) are
   what every later proof uses. `Disabled` and `Enabled` say all that `disable_link` and `enable_link`
   change; under them `Exact` is preserved: the paths of the ToRs that are
   *not* recounted are the same because no path of theirs uses the link, and
   the capacity is given back as it was taken. `ViolatingMeans` and
   `CanDisableMeans` translate the products that CorrOpt counts into paths of
   the graph. `OptimizerMeans` is the optimizer: links below which no ToR is
   violated even with all links gone belong to every largest set, a set with a
   violating subset is violating, and so skipping it loses nothing.
10. **SimulationProofs**: `SimInv` joins `Exact` with the queue (one recovery
   for each disabled link, all times apart), LinkGuardian on the corrupting
   links, the constraint, and `Tight`: with any further corrupting link
   disabled, some ToR would fall below it. A failure keeps `Tight` since
   disabled links only grow; a repair calls the optimizer, whose set is
   largest and therefore leaves no link that could be added. `RowInv` adds the
   row that was written last.
11. **ToolsProofs**: the ranges of the loss rates are sums of the first
   shares, and part the numbers since these sums grow up to the whole. `GenInv`
   says that while failures are added the queue has all of them, and that from
   then on what was taken and what is left are all of them, the former before
   the latter and in the duration. The first failure always is, so a trace that
   is written is not empty; NopEvents come from an empty queue only, and then
   the loop does not end. `BuilderInv` counts the links after every pod and
   core switch. `GraphInv` says which they are: a link is known by the step
   that built it, every link of the pods and core switches so far is there,
   and none is there twice, since core switches are connected plane by plane
   and a number less than the cores so far is one pair of plane and place.
   `RecordInv` gives each entry of the recorded lists by pod and place. For
   the finished network the sets of links are counted by pairs of indices,
   and the pipe of a link is its rank among the links of its switch, so that
   a pipe gets at most the links of every `NumPipes`-th rank.
12. **ExperimentProofs**: `Control` says that what a script has still to do is
   the end of its list, so that the number of steps left is a place in the
   script; `Placed` lists the places of its calls, and `Past(op)` that it is
   behind one. `ExptInv` says of each process what it has done for a script
   that is behind a place: the generator is off but between start and stop and
   the link at rest one step later, since no step is made before
   (`TrafficInv`); what is to be reset is reset, or a call to reset it is still
   to be made by another shell (`CleanInv`), and behind the pause there is no
   such call (`RemoteInv`). So the counters begin at zero, and from then on the
   frames sent are those received, on their way and lost (`CountInv`), whatever
   the mode. Values are read behind the pause in which the shadows are copied
   (`ValuesInv`). A script that ended with nothing written is behind no place,
   and leaves the next one anything: nothing is assumed of what an interrupted
   run left but the types, and that its thread and poller have its number
   (`PollInv`).

Each proof has one step per action and, below it, one per conjunct that the
action can disturb. All invariants were model-checked before.

Induction over finite sets and over naturals (for sums, schedules of events,
links disabled one after the other) goes by a least counterexample: the
library's theorem for that speaks of sets, not of a predicate as a parameter.

Only model-checked: all liveness properties (fairness and ENABLED are out of
the prover's reach) and the headers of the packets (`ParsersFit`,
`FramesRestored`, `InternalHeadersStayInside`). Of these the run decides all
there is without ARP: their state is finite, smaller constants only take steps
away, and `Packets.cfg` gives the largest (IPv4, both modes).

## 5. Abstractions

- *Link*: counters, debug registers, ECN marking and the measurement of
  latencies are left out. The emulation of corruption in the sender's egress
  is replaced by the corrupting wire.
- *Flow control*: queue depth is counted in packets, not cells; a pause also
  expires by itself, as its quanta do.
- *Packets*: user frames are IPv4. With ARP among `UserTypes` TLC finds
  `ParsersFit` and `FramesRestored` violated, since decapsulation
  (`receiver.p4:145`, `sender.p4:162`) writes the type of IPv4 into every
  frame. In the testbed no ARP frame enters the protected link: `topo.p4`
  floods them straight to the hosts. The copies mirrored to report affected
  flows are left out.
- *Simulator*: integers stand for rates, capacities and times (a float moved
  by `1e-6` is a time moved by 1). Which link fails, and how badly, is chosen
  when the event is popped, which amounts to every trace. The order in which
  the optimizer walks a Python set is any order. Counts for the summary of a
  solution are left out, and so is drawing.
- *Trace generator*: what is sampled is any of a few values; the shapes of the
  distributions are left out, the ranges the loss rate is looked up in are
  not.
- *Testbed*: a table entry is a key and what the properties need of its data.
  Frames are not followed through LGPackets at the same time: how a frame is
  changed on its way (LGPackets) and where it goes (Testbed) do not depend on
  each other once its headers are told apart.
- *Experiment*: registers are grouped by what they are about and are clean or
  not; the link is the number of frames in flight and of copies still to be
  sent. `change_link_speeds` and `set_number_of_retx_copies` are in
  Testbed.
- *Corruptd*: one link; the first poll, whose deltas are zero, is left out;
  the daemon restarts, the switch does not; `setup.py --clear` is possible in
  the model and off in the runs.

Read in the code while modelling it:

- `corruptd.py` compares `PYTHON3_VER` as a string and calls
  `asyncio.run(main(sub_topic))` although `main` takes no argument; on Python
  3.7 and later `await init_redis()` runs the reader's loop and does not
  return to the polling; the blocking flag computed at line 140 is not what
  line 144 uses; the test `(sw, dp) == (-1,-1,-1)` is never true. These end the
  program, or do nothing; the model has the daemon as it runs where they do
  not bite.
- `corruptd.py:165`: a weaker activation that is processed after a stronger
  one, and cut off before it records itself, leaves a key that promises more
  than the tables do, and the key ends all reports. It takes a link whose loss
  rate goes up and down, as in `fluctuating`, where TLC finds the link without
  the protection it needs for ever, and in `tools`, where `KeyStaysBacked` and
  `ProtectedUnlessKeyAhead` say that nothing else leads there.
- `check_link_speeds.py` quits in an `except` without parentheses when its
  client number is taken, goes on and crashes with no output; the calling
  script counts the silence as "up" (`[ $link_up_proc1 -eq 0 ]` is an error with an
  empty variable, and so false); a port that is not there has the same effect.
  `AllUpMeansUp` says what this leads to: a link may be down after the report if
  the checks at all its ends were silent, the first ones before the set-up has
  added a port among them; one good answer at either end is enough.
- `change_link_speeds.sh` types the command into three shells and asks for
  speed and state. With the speed the links have already, all three checks may
  answer 1 before the shells begin to delete the ports; nothing but the pause
  of 5 s puts them in order. This is the other exception of `AllUpMeansUp`: a
  port that had the speed (`operator.early`) and has been deleted since.
- `check_loss_rate` calls `get_rx_ok_counter()` without its argument
  (`devtest_cmds.py:517`), so it always reads the port of the link, which
  counts frames before drops are emulated: with emulation on it reports the
  losses of the cable and none of the emulated ones. `MeasuredLosses` says so
  for each script.
- `change_link_speeds` deletes ports and injects no packets afterwards: a
  dummy or courier packet that was lost with its port is gone until the set-up
  is run again. `SeedsCirculate` is about the other cases.
- A poller left by an aborted run keeps its client number, and the next
  read of the counters on that switch fails: the script then stops with an
  error and writes no result. Ctrl-C outside the loop that counts leaves the
  traffic, the thread and the poller running. With zero frames sent the
  script divides by zero.
- A lost command to another switch is not noticed; the measurement is wrong.
- The generator sums fractions of core switches where the builder rounds down
  each time (`generate_loss_trace.py`, `topology.py:1127`): if the
  oversubscription does not divide the ToRs of a pod, the trace may name links
  that do not exist, which is why `TracedLinksExist` excludes the case.
- The table of ECN marking for DCQCN says in a comment that 100 % begins at
  `K_MAX`; the last row begins at the end of the last range, below it.
- A hole of a multiple of 256 losses is reported with size 0, and longer ones
  modulo 256 (`hole_size` has 8 bits): hypothesis `ShortBursts`.

## 6. Disagreements between code and documentation

Each is a run with one property, the code as it is, and TLC's trace.

- `boot_loss`: the LACK registers start at 0, which reads as a LACK for packet
  0; its copy is freed at once, and if packet 0 was corrupted it is lost.
- `timeout_wrap`: `check_timeout_increment_ack` moves the ack past the last
  number and leaves the era; arrived packets are then dropped as duplicates.
- `light_traffic`: the moving window drops its *newest* deltas, so old traffic
  dilutes the loss rate of a quiet link for ever.
- `stale_topology`: the set-up tool writes the version before the topology,
  and a daemon that reads in between keeps the old topology for ever.
- `fluctuating`: a weaker report processed after a stronger one lowers the
  protection, and if the record of it is cut off the key hides that from every
  later poll.

## 7. Not modelled

- *RDMA test application*: a client and a server that time writes over one
  connection, load behind the verbs library; they know nothing of the link.
- *Plotting, statistics and captures* of the experiments, and the files of the
  simulator: files in, numbers out. Of the experiment scripts, those that
  start other machines' traffic generators are shell commands in a row.
- Of the control-plane commands: printing of registers, the emulation of
  drops, the tables of DCQCN and ECN marking, buffer peaks, and the experiment
  on congestion signals, which repeats the steps of the loss-rate experiment
  with another counter.
- Of the testbed switch: emulated drops (`test_loss_rate` of its shell), ECN
  marking and the mirroring of RDMA packets for their time-stamps.
- *Visualization* of the simulator and its deprecated graph traversal.
- Packing of headers into bits, floats (the running sums of loss rates at
  `topology.py:700` may lose small ones), probabilities and real time.
- A switch that restarts while its key in Redis says it is protected
  (`corruptd.py:186`): the code has no step for it; an operator runs
  `setup.py --clear`.

The scripts for 10 Gbit/s (`*_10g.py`, `*_10g.p4`) differ from the others in
port speeds, thresholds and the name of the program, which are CONSTANTS; the
one for the receiver's commands is otherwise the same file.

## 8. What could come next

1. Several links at one daemon, and a switch that restarts under it.
2. The frame of LGPackets crossing Testbed, with the switches of the emulated
   topology between two protected links.
3. Theorems about the packets, the frames in the testbed, and the graph that
   the builder of topologies builds.
