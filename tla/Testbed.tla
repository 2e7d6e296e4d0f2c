------------------------------- MODULE Testbed -------------------------------
(***************************************************************************)
(* The control planes of the three switches of the testbed: the sender and *)
(* the receiver of LinkGuardian, and a third switch that plays the         *)
(* switches and cables around them.                                        *)
(*                                                                         *)
(*  lumos -160 (0) 128-136 (1) 36-36 sender 32-36 receiver 52-56 (2) 168-  *)
(*                                                     filter: 44   caelus *)
(*                                                                         *)
(* Every switch executes the calls of its shell one by one: those of its   *)
(* set-up script, then what is typed into it.  Frames cross the testbed    *)
(* all the while.  A script of the operator asks the switches in turn      *)
(* whether their links are up.                                             *)
(***************************************************************************)
EXTENDS Integers, Sequences, FiniteSets, SequencesExt, Functions, TLC

CONSTANTS
    SetupSpeeds,    \* link speeds the set-up scripts exist for
    NewSpeeds,      \* arguments of change_link_speeds
    Copies,         \* arguments of set_number_of_retx_copies
    MaxCommands     \* bound on the commands after the set-up

ASSUME TestbedAssumption ==
    /\ SetupSpeeds # {} /\ SetupSpeeds \cup NewSpeeds \subseteq {10, 25, 100}
    /\ Copies \subseteq 0 .. 4
    /\ MaxCommands \in Nat

Switches == {"sender", "receiver", "topo"}
Hosts == {"lumos", "caelus"}

VARIABLES
    todo,       \* calls a shell has still to make
    entries,    \* entries of the tables, by table and key
    seed,       \* the first dummy or courier packet: none, circulates, lost
    tracked,    \* a frame on its way, or the last one
    operator,   \* the operator's script
    failed,     \* shells in which a call has failed
    disturbed,  \* shells in which a command was interrupted or a port deleted
    commands    \* commands so far

testbedVars ==
    <<todo, entries, seed, tracked, operator, failed, disturbed, commands>>

-----------------------------------------------------------------------------
(* The calls *)

Add(table, key, data) == [op |-> "add", key |-> <<table, key>>, data |-> data]
Delete(table, key)    == [op |-> "delete", key |-> <<table, key>>]
\* A deletion in a try block.
Clear(table, key)     == [op |-> "clear", key |-> <<table, key>>]
Inject(route)         == [op |-> "inject", key |-> <<"l2", route>>]

\* add_port_config, for every port of a list
AddPorts(ports, speed) ==
    [i \in DOMAIN ports |-> Add("port", ports[i], speed)]

\* modify_port_config
ModifyPorts(ports, speed) ==
    [i \in 1 .. 2 * Len(ports) |->
        IF i % 2 = 1 THEN Delete("port", ports[(i + 1) \div 2])
        ELSE Add("port", ports[i \div 2], speed)]

\* set_q_priority: pipe, group of the port and queue in the group
QueueKey(port, queue) ==
    <<port \div 128, (port % 128) \div 4, (port % 4) * 8 + queue>>

\* Normal frames, seed packets and notifications (three calls).
Priorities(port) ==
    <<Add("priority", [q \in 1 .. 3 |-> QueueKey(port, q - 1)], <<1, 0, 2>>)>>

\* The address that leads a seed packet into a queue.
SeedRoute(port, queue) == <<port * 32 + queue, "seed">>

\* The address of a host, or of the end of the protected link.
To(name) == <<0, name>>

\* A mirror session, and the table that hands it to the packets of a port.
Mirror(session, port, queue, table, protected) ==
    <<Add("mirror", session, <<port, queue>>), Add(table, protected, session)>>

\* Mutant of RetxCalls: the group is replaced under its entry.
RetxCallsInPlace(current, new) ==
    IF new = current THEN <<>>
    ELSE (IF current > 1
          THEN [i \in 1 .. current |-> Delete("node", i - 1)]
               \o <<Delete("group", 1)>>
          ELSE <<>>)
         \o <<Clear("retx", 32)>>
         \o (CASE new = 0 -> <<>>
               [] new = 1 -> <<Add("retx", 32, "ucast")>>
               [] OTHER   ->
                    [i \in 1 .. new |-> Add("node", i - 1, 32)]
                    \o <<Add("group", 1, 0 .. new - 1), Add("retx", 32, "mcast")>>)

\* set_number_of_retx_copies: the entry, then nodes and multicast group
RetxCalls(current, new) ==
    IF new = current THEN <<>>
    ELSE <<Clear("retx", 32)>>
         \o (IF current > 1
             THEN [i \in 1 .. current |-> Delete("node", i - 1)]
                  \o <<Delete("group", 1)>>
             ELSE <<>>)
         \o (CASE new = 0 -> <<>>
               [] new = 1 -> <<Add("retx", 32, "ucast")>>
               [] OTHER   ->
                    [i \in 1 .. new |-> Add("node", i - 1, 32)]
                    \o <<Add("group", 1, 0 .. new - 1), Add("retx", 32, "mcast")>>)

-----------------------------------------------------------------------------
(* The set-up scripts *)

SpeedPorts(sw) ==
    CASE sw = "sender"   -> <<32, 36>>
      [] sw = "receiver" -> <<36, 52>>
      [] sw = "topo"     -> <<160, 168, 128, 136, 36, 56>>

\* Mutant of DummyQueue: the first packet is sent before it can be mirrored.
DummyQueueLast ==
    <<Add("l2", SeedRoute(32, 1), 32), Inject(SeedRoute(32, 1))>>
    \o Mirror(17, 32, 1, "mirror_dummy_pkt", 32)

\* The dummy packet, mirrored each time it is sent.
DummyQueue ==
    <<Add("l2", SeedRoute(32, 1), 32)>>
    \o Mirror(1, 68, 0, "copy_pkt_for_buffering", 32)
    \o Mirror(17, 32, 1, "mirror_dummy_pkt", 32)
    \o <<Inject(SeedRoute(32, 1))>>

SenderSetup(speed) ==
    AddPorts(SpeedPorts("sender"), speed)
    \o <<Add("port", 16, 100), Add("loopback", 16, TRUE),
         Add("l2", To("receiver"), 32), Add("l2", To("lumos"), 36),
         Add("l2", To("caelus"), 32), Add("mirror", 400, <<60, 0>>)>>
    \o Priorities(32)
    \o DummyQueue
    \o RetxCalls(0, 2)

SenderSetup10g == SenderSetup(10)

PortMd(filter, protect) == [filter |-> filter, protect |-> protect, lpbk |-> 44]

\* Mutant of ReceiverPorts: the port of the filter filters again.
ReceiverPortsLoop ==
    <<Add("port_md", 36, PortMd(TRUE, FALSE)),
      Add("port_md", 44, PortMd(TRUE, TRUE))>>

\* Frames from the link pass the filter once, and are then protected; the
\* timer packets of port 68 use the entry of the link.
ReceiverPorts ==
    <<Add("port_md", 36, PortMd(TRUE, FALSE)),
      Add("port_md", 44, PortMd(FALSE, TRUE)),
      Add("port_md", 68, PortMd(FALSE, FALSE))>>

\* Courier packets, PFC frames and loss notifications.
CourierQueue ==
    <<Add("l2", SeedRoute(36, 1), 36)>>
    \o Mirror(33, 36, 1, "get_courier_pkt_mirror_session", 36)
    \o <<Add("mirror", 500, <<36, 2>>)>>
    \o Mirror(49, 36, 2, "generate_loss_notification", 36)
    \o <<Inject(SeedRoute(36, 1))>>

ReceiverSetup(speed) ==
    <<Add("port", 36, speed), Add("port", 44, 100), Add("port", 52, speed),
      Add("port", 20, 100), Add("loopback", 44, TRUE), Add("loopback", 20, TRUE)>>
    \o ReceiverPorts
    \o <<Add("l2", To("sender"), 36), Add("l2", To("receiver"), 52),
         Add("l2", To("lumos"), 36), Add("l2", To("caelus"), 52),
         Add("mirror", 300, <<68, 1>>)>>
    \o Priorities(36)
    \o CourierQueue

ReceiverSetup10g == ReceiverSetup(10)

\* The emulated switches a port belongs to, and their routes.
TopoTables ==
    <<Add("port_md", 128, 0), Add("port_md", 160, 0), Add("port_md", 136, 1),
      Add("port_md", 36, 1), Add("port_md", 56, 2), Add("port_md", 168, 2),
      Add("l2", <<0, "lumos">>, 160), Add("l2", <<1, "lumos">>, 136),
      Add("l2", <<2, "lumos">>, 56), Add("l2", <<0, "caelus">>, 128),
      Add("l2", <<1, "caelus">>, 36), Add("l2", <<2, "caelus">>, 168),
      Add("l2", <<2, "receiver">>, 168)>>

TopoSetup(speed) ==
    AddPorts(SpeedPorts("topo"), speed)
    \o TopoTables
    \o <<Add("node", 0, {160, 168}), Add("group", 1, {0})>>

TopoSetup10g == TopoSetup(10)

Setup(sw, speed) ==
    CASE sw = "sender" ->
            IF speed = 10 THEN SenderSetup10g ELSE SenderSetup(speed)
      [] sw = "receiver" ->
            IF speed = 10 THEN ReceiverSetup10g ELSE ReceiverSetup(speed)
      [] sw = "topo" -> IF speed = 10 THEN TopoSetup10g ELSE TopoSetup(speed)

-----------------------------------------------------------------------------
Has(sw, table, key) == <<table, key>> \in DOMAIN entries[sw]
Get(sw, table, key) == entries[sw][<<table, key>>]

\* The two ends of every cable between two ports of the testbed.
Cables == {{<<"sender", 32>>, <<"receiver", 36>>}, {<<"sender", 36>>, <<"topo", 36>>},
           {<<"receiver", 52>>, <<"topo", 56>>}, {<<"topo", 128>>, <<"topo", 136>>}}

PeerOf == [end \in UNION Cables |->
            CHOOSE peer \in UNION Cables : peer # end /\ {end, peer} \in Cables]

HostAt == [end \in {<<"topo", 160>>, <<"topo", 168>>} |->
            <<"host", IF end[2] = 160 THEN "lumos" ELSE "caelus">>]

\* Both ends of a link have the same speed; hosts take any.
PortUp(sw, port) ==
    /\ Has(sw, "port", port)
    /\ <<sw, port>> \in DOMAIN PeerOf =>
        LET peer == PeerOf[<<sw, port>>]
        IN  /\ Has(peer[1], "port", peer[2])
            /\ Get(peer[1], "port", peer[2]) = Get(sw, "port", port)

Gone == <<"gone", 0>>
NoFrame == [to |-> "nobody", path |-> <<>>, place |-> Gone, ready |-> FALSE]

\* The switches and the ports at which a frame is still to be forwarded.
OnTheWay == DOMAIN PeerOf \cup DOMAIN HostAt
                \cup {<<"sender", 68>>, <<"receiver", 44>>}

\* What the three switches have answered in this round.
NoAnswers == [sw \in Switches |-> "nothing"]

TestbedInit ==
    \E speed \in SetupSpeeds :
        /\ todo = [sw \in Switches |-> Setup(sw, speed)]
        /\ entries = [sw \in Switches |-> <<>>]
        /\ seed = [sw \in {"sender", "receiver"} |-> "none"]
        /\ tracked = NoFrame
        /\ operator = [speed |-> speed, asked |-> 0, answers |-> NoAnswers,
                       allUp |-> FALSE, early |-> {}]
        /\ failed = {} /\ disturbed = {}
        /\ commands = 0

\* What becomes of a packet in a table of mirror sessions of its own port.
MirroredInto(sw, port, table) ==
    IF Has(sw, table, port) /\ Has(sw, "mirror", Get(sw, table, port))
    THEN Get(sw, "mirror", Get(sw, table, port))[1] ELSE 0

SeedPorts(sw) == CASE sw = "sender"   -> {<<"port", 32>>}
                   [] sw = "receiver" -> {<<"port", 36>>}
                   [] sw = "topo"     -> {}

SeedTable(sw) == IF sw = "sender" THEN "mirror_dummy_pkt"
                 ELSE "get_courier_pkt_mirror_session"

\* The seed leaves by its route and is mirrored into the same port, again
\* and again; without a route or a session it is gone.
SeedSent(sw, route) ==
    LET port == IF <<"l2", route>> \in DOMAIN entries[sw]
                THEN entries[sw][<<"l2", route>>] ELSE 0
    IN  IF port # 0 /\ MirroredInto(sw, port, SeedTable(sw)) = port
        THEN "circulates" ELSE "lost"

\* A call is refused when what it adds is there, or what it deletes is not.
Refused(sw, call) ==
    \/ call.op = "add" /\ call.key \in DOMAIN entries[sw]
    \/ call.op = "delete" /\ call.key \notin DOMAIN entries[sw]

\* What a call that is not refused makes of the entries of a switch.
Applied(held, call) ==
    CASE call.op = "add" ->
            [k \in DOMAIN held \cup {call.key} |->
                IF k = call.key THEN call.data ELSE held[k]]
      [] call.op \in {"delete", "clear"} -> Restrict(held, DOMAIN held \ {call.key})
      [] call.op = "inject" -> held

\* The next call of a shell; a refused one raises an error, which ends the
\* script or command.  What the queues of a deleted port hold may be lost.
\* (The path of a frame that has arrived is forgotten.)
Call(sw) ==
    LET call == Head(todo[sw])
    IN  /\ todo[sw] # <<>>
        /\ \/ /\ Refused(sw, call)
              /\ failed' = failed \cup {sw}
              /\ todo' = [todo EXCEPT ![sw] = <<>>]
              /\ UNCHANGED <<entries, seed>>
           \/ /\ ~ Refused(sw, call)
              /\ todo' = [todo EXCEPT ![sw] = Tail(@)]
              /\ entries' = [entries EXCEPT ![sw] = Applied(@, call)]
              /\ \/ call.op # "inject" /\ UNCHANGED seed
                 \/ /\ call.op \in {"delete", "clear"} /\ call.key \in SeedPorts(sw)
                    /\ seed' = [seed EXCEPT ![sw] = "lost"]
                 \/ /\ call.op = "inject"
                    /\ seed' = [seed EXCEPT ![sw] = SeedSent(sw, call.key[2])]
              /\ UNCHANGED failed
        /\ tracked' = IF tracked.place \in OnTheWay THEN tracked ELSE NoFrame
        /\ UNCHANGED <<operator, disturbed, commands>>

-----------------------------------------------------------------------------
(* Commands typed into a shell *)

SetUp == \A sw \in Switches : todo[sw] = <<>>

\* get_number_of_retx_copies, as the tables say
RetxCopies ==
    IF ~Has("sender", "retx", 32) THEN 0
    ELSE IF Get("sender", "retx", 32) = "ucast" THEN 1
    ELSE Cardinality(Get("sender", "group", 1))

SetNumberOfRetxCopies ==
    \E n \in Copies :
        /\ SetUp /\ commands < MaxCommands
        /\ commands' = commands + 1
        /\ todo' = [todo EXCEPT !["sender"] = RetxCalls(RetxCopies, n)]
        /\ UNCHANGED <<entries, seed, tracked, operator, failed, disturbed>>

\* The ports check_link_speeds.py asks for.
CheckedPorts(sw) ==
    CASE sw = "topo"     -> {36, 56, 128, 136, 160, 168}
      [] sw = "sender"   -> {32, 36}
      [] sw = "receiver" -> {36, 52}

CheckedEnds == UNION {{sw} \X CheckedPorts(sw) : sw \in Switches}

HasSpeed(end, speed) ==
    Has(end[1], "port", end[2]) /\ Get(end[1], "port", end[2]) = speed

\* change_link_speeds.sh types change_link_speeds into the three shells, also
\* for a speed the links have; early are the ports that had it beforehand.
ChangeLinkSpeeds ==
    \E speed \in NewSpeeds :
        /\ SetUp /\ commands < MaxCommands
        /\ commands' = commands + 1
        /\ todo' = [sw \in Switches |-> ModifyPorts(SpeedPorts(sw), speed)]
        /\ operator' = [speed |-> speed, asked |-> 0, answers |-> NoAnswers,
                        allUp |-> FALSE,
                        early |-> {end \in CheckedEnds : HasSpeed(end, speed)}]
        /\ disturbed' = disturbed \cup Switches
        /\ UNCHANGED <<entries, seed, tracked, failed>>

\* A command is interrupted between two calls.
Interrupt(sw) ==
    /\ todo[sw] # <<>> /\ commands > 0
    /\ todo' = [todo EXCEPT ![sw] = <<>>]
    /\ disturbed' = disturbed \cup {sw}
    /\ UNCHANGED <<entries, seed, tracked, operator, failed, commands>>

-----------------------------------------------------------------------------
(***************************************************************************)
(* check_link_speeds.py, run on one switch after the other.  Frames and    *)
(* checks only read the tables: a behaviour has the ones or the others.    *)
(***************************************************************************)

CheckOrder == <<"topo", "sender", "receiver">>

\* Mutant of AllGood: a good port makes up for a bad one.
OneGood(sw) ==
    \E p \in CheckedPorts(sw) :
        Get(sw, "port", p) = operator.speed /\ PortUp(sw, p)

AllGood(sw) ==
    \A p \in CheckedPorts(sw) :
        Get(sw, "port", p) = operator.speed /\ PortUp(sw, p)

\* A port that does not exist raises an error, and nothing is printed.
Answer(sw) ==
    IF \E p \in CheckedPorts(sw) : ~Has(sw, "port", p) THEN "nothing"
    ELSE IF AllGood(sw) THEN "1" ELSE "0"

CheckLinks ==
    /\ ~operator.allUp /\ tracked = NoFrame
    /\ operator.asked < Len(CheckOrder)
    /\ operator' = [operator EXCEPT
        !.asked = @ + 1,
        !.answers[CheckOrder[operator.asked + 1]] = Answer(CheckOrder[operator.asked + 1])]
    /\ UNCHANGED <<todo, entries, seed, tracked, failed, disturbed, commands>>

\* The shell script compares each answer with 0; after a round without a 0
\* it reports "All links are up", else it asks again.
EndOfRound ==
    /\ ~operator.allUp
    /\ operator.asked = Len(CheckOrder)
    /\ operator' = IF \E sw \in Switches : operator.answers[sw] = "0"
                   THEN [operator EXCEPT !.asked = 0, !.answers = NoAnswers]
                   ELSE [operator EXCEPT !.allUp = TRUE]
    /\ UNCHANGED <<todo, entries, seed, tracked, failed, disturbed, commands>>

-----------------------------------------------------------------------------
(* Frames *)

Ready == SetUp /\ failed \cup disturbed = {} /\ entries["topo"] # <<>>

\* Where a switch sends a frame that came in by a port.
EgressPorts(sw, port, to) ==
    LET md == IF Has(sw, "port_md", port) THEN Get(sw, "port_md", port)
              ELSE [filter |-> FALSE]
        id == IF Has(sw, "port_md", port) THEN Get(sw, "port_md", port) ELSE 0
        Found(key) == {Get(sw, "l2", k) : k \in {j \in {key} : Has(sw, "l2", j)}}
    IN  CASE sw = "sender"   -> Found(To(to))
          [] sw = "receiver" -> IF md.filter THEN {md.lpbk} ELSE Found(To(to))
          [] sw = "topo"     ->
                IF to # "all" THEN Found(<<id, to>>)
                ELSE IF Has(sw, "group", 1)
                     THEN UNION {Get(sw, "node", n) : n \in Get(sw, "group", 1)}
                     ELSE {}

\* A host sends to the other or to all (ARP), or the sender's packet
\* generator to the receiver's side.
SendFrame ==
    \E source \in {<<"topo", 160>>, <<"topo", 168>>, <<"sender", 68>>},
       to \in Hosts \cup {"all", "receiver"} :
        /\ tracked.place \notin OnTheWay
        /\ operator.asked = 0 /\ ~operator.allUp
        /\ IF source = <<"sender", 68>> THEN to = "receiver" /\ Ready
           ELSE to \in {"all"} \cup (Hosts \ {HostAt[source][2]})
        /\ tracked' = [to |-> to, path |-> <<source>>, place |-> source,
                     ready |-> Ready]
        /\ UNCHANGED <<todo, entries, seed, operator, failed, disturbed, commands>>

\* Where a frame comes in again that leaves by a port.
Beyond(sw, port) ==
    IF ~PortUp(sw, port) THEN Gone
    ELSE IF Has(sw, "loopback", port) THEN <<sw, port>>
    ELSE IF <<sw, port>> \in DOMAIN PeerOf THEN PeerOf[<<sw, port>>]
    ELSE IF <<sw, port>> \in DOMAIN HostAt THEN HostAt[<<sw, port>>]
    ELSE Gone

\* A switch forwards the frame; the copies of a broadcast reach their hosts.
Forward ==
    LET sw   == tracked.place[1]
        outs == {Beyond(sw, p) : p \in EgressPorts(sw, tracked.place[2], tracked.to)}
    IN  /\ tracked.place \in OnTheWay
        /\ \E out \in IF outs = {} THEN {Gone} ELSE outs :
            tracked' = [tracked EXCEPT !.place = out, !.path = Append(@, out)]
        /\ UNCHANGED <<todo, entries, seed, operator, failed, disturbed, commands>>

TestbedNext ==
    \/ \E sw \in Switches : Call(sw) \/ Interrupt(sw)
    \/ SetNumberOfRetxCopies \/ ChangeLinkSpeeds
    \/ CheckLinks \/ EndOfRound
    \/ SendFrame \/ Forward

TestbedSpec == TestbedInit /\ [][TestbedNext]_testbedVars

-----------------------------------------------------------------------------
(***************************************************************************)
(* Also while the tables of the switches are still filled, in the order of *)
(* their scripts, and while links change their speed: no frame comes back  *)
(* to a port it came in by, none reaches a host it is not for, and none    *)
(* from the protected link reaches a host past the filter and hole         *)
(* detection of the receiver.  A frame that is sent when all three scripts *)
(* have run without an error arrives.                                      *)
(***************************************************************************)
FramesOnTheirWay ==
    /\ IsInjective(tracked.path)
    /\ tracked.place[1] = "host" =>
        tracked.to \in {tracked.place[2], "all", "receiver"}
    /\ tracked.place = HostAt[<<"topo", 168>>] /\ <<"receiver", 36>> \in ToSet(tracked.path)
        => <<"receiver", 44>> \in ToSet(tracked.path)
    /\ tracked.ready /\ disturbed = {} => tracked.place # Gone

(***************************************************************************)
(* The scripts inject the first dummy and courier packet when everything   *)
(* that makes them circulate is in place; only change_link_speeds, which   *)
(* deletes their ports and injects none, can stop them.                    *)
(***************************************************************************)
SeedsCirculate ==
    \A sw \in DOMAIN seed \ disturbed :
        todo[sw] = <<>> => seed[sw] = "circulates"

(***************************************************************************)
(* The sender never hands a retransmission to a multicast group that does  *)
(* not exist or has lost a node, not even when a command is interrupted;   *)
(* and no call of a script or command is refused, unless one before it was *)
(* interrupted.                                                            *)
(***************************************************************************)
RetxGroupWhole ==
    /\ Has("sender", "retx", 32) /\ Get("sender", "retx", 32) = "mcast" =>
        /\ Has("sender", "group", 1)
        /\ \A n \in Get("sender", "group", 1) : Has("sender", "node", n)
    /\ failed \subseteq disturbed

(***************************************************************************)
(* change_link_speeds.sh and setup_all_switches.sh ask the switches one    *)
(* after the other, while these still work, and take a check that fails    *)
(* and prints nothing for a good one.  When they report "All links are     *)
(* up", a link is up at the new speed, unless                              *)
(*   - the checks at all its ends printed nothing (the answer of one end   *)
(*     makes up for the silence of the other), or                          *)
(*   - one of its ports, which had the new speed beforehand and was seen   *)
(*     with it, has been deleted since by the change itself.               *)
(* The links to the two hosts have one end.                                *)
(***************************************************************************)
CheckedLinks == Cables \cup {{end} : end \in DOMAIN HostAt}

Up(link) ==
    \A end \in link : PortUp(end[1], end[2]) /\ HasSpeed(end, operator.speed)

AllUpMeansUp ==
    operator.allUp => \A link \in CheckedLinks :
        \/ Up(link)
        \/ \A end \in link : operator.answers[end[1]] = "nothing"
        \/ \E end \in link \cap operator.early : ~Has(end[1], "port", end[2])
=============================================================================
