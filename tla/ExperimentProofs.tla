-------------------------- MODULE ExperimentProofs --------------------------
(***************************************************************************)
(* The measurement scripts, for every set of scripts, every number of runs *)
(* and every number of frames sent and lost: what a script has done before *)
(* a place is done when it is behind it, whatever an earlier run left, and *)
(* what it writes is what happened on the link.                            *)
(***************************************************************************)
EXTENDS Experiment, SequenceTheorems, TLAPS

-----------------------------------------------------------------------------
(***************************************************************************)
(* Scripts as sequences.                                                   *)
(***************************************************************************)

Script(s) == s \in Seq(Range(s))

\* A sequence is one over the calls it holds.
LEMMA SeqIsScript ==
    ASSUME NEW S, NEW s \in Seq(S)
    PROVE  Script(s)
<1>1. \A i \in 1 .. Len(s) : s[i] \in Range(s)
  BY DEF Range
<1>2. s = [i \in 1 .. Len(s) |-> s[i]] /\ Len(s) \in Nat
  OBVIOUS
<1>3. QED BY <1>1, <1>2 DEF Script

\* One script after the other.
LEMMA ScriptConcat ==
    ASSUME NEW s, NEW t, Script(s), Script(t)
    PROVE  /\ Script(s \o t) /\ Len(s \o t) = Len(s) + Len(t)
           /\ \A i \in 1 .. Len(s) : (s \o t)[i] = s[i]
           /\ \A i \in 1 .. Len(t) : (s \o t)[Len(s) + i] = t[i]
<1> DEFINE U == Range(s) \cup Range(t)
<1>1. s \in Seq(U) /\ t \in Seq(U)
  <2>1. s \in Seq(Range(s)) /\ t \in Seq(Range(t))
    BY DEF Script
  <2> HIDE DEF U
  <2>2. Range(s) \subseteq U /\ Range(t) \subseteq U
    BY DEF U
  <2>3. QED BY <2>1, <2>2
<1> HIDE DEF U
<1>2. s \o t \in Seq(U)
  BY <1>1
<1>3. Script(s \o t)
  BY <1>2, SeqIsScript
<1>4. QED BY <1>1, <1>3

\* What is left of a script after its first call.
LEMMA ScriptTail ==
    ASSUME NEW s, Script(s), s # <<>>
    PROVE  /\ Script(Tail(s)) /\ Len(s) \in Nat \ {0} /\ Len(Tail(s)) = Len(s) - 1
           /\ Head(s) = s[1]
           /\ \A i \in 1 .. Len(s) - 1 : Tail(s)[i] = s[i + 1]
<1>1. s \in Seq(Range(s))
  BY DEF Script
<1> DEFINE U == Range(s)
<1> HIDE DEF U
<1>2. s \in Seq(U)
  BY <1>1 DEF U
<1>3. Tail(s) \in Seq(U)
  BY <1>2
<1>4. Script(Tail(s))
  BY <1>3, SeqIsScript
<1>5. QED BY <1>2, <1>4

\* Calls that are numbered from 1 on are a script.
LEMMA IndexedIsScript ==
    ASSUME NEW n \in Nat, NEW s, s = [i \in 1 .. n |-> s[i]]
    PROVE  Script(s) /\ Len(s) = n
<1> DEFINE U == {s[i] : i \in 1 .. n}
<1>1. s \in [1 .. n -> U]
  OBVIOUS
<1> HIDE DEF U
<1>2. s \in Seq(U) /\ Len(s) = n
  BY <1>1
<1>3. QED BY <1>2, SeqIsScript

\* The calls of a script are numbered from 1 on.
LEMMA ScriptIsIndexed ==
    ASSUME NEW s, Script(s)
    PROVE  s = [i \in 1 .. Len(s) |-> s[i]] /\ Len(s) \in Nat
<1> DEFINE U == Range(s)
<1>1. s \in Seq(U)
  BY DEF Script
<1> HIDE DEF U
<1>2. QED BY <1>1

\* u is s, of length m, followed by t, of length n.
Joins(u, s, m, t, n) ==
    /\ Script(u) /\ Len(u) = m + n
    /\ \A i \in 1 .. m : u[i] = s[i]
    /\ \A i \in 1 .. n : u[m + i] = t[i]

\* Two scripts, one after the other.
LEMMA ConcatJoins ==
    ASSUME NEW s, NEW t, NEW m, NEW n,
           Script(s), Len(s) = m, Script(t), Len(t) = n
    PROVE  Joins(s \o t, s, m, t, n)
<1>1. /\ Script(s \o t) /\ Len(s \o t) = Len(s) + Len(t)
      /\ \A i \in 1 .. Len(s) : (s \o t)[i] = s[i]
      /\ \A i \in 1 .. Len(t) : (s \o t)[Len(s) + i] = t[i]
  BY ScriptConcat
<1>2. QED BY <1>1 DEF Joins

\* Scripts with the same calls are the same.
LEMMA SameScript ==
    ASSUME NEW s, NEW t, NEW n, Script(s), Script(t), Len(s) = n, Len(t) = n,
           \A i \in 1 .. n : s[i] = t[i]
    PROVE  s = t
<1>1. s = [i \in 1 .. n |-> s[i]] /\ t = [i \in 1 .. n |-> t[i]]
  BY ScriptIsIndexed
<1>2. QED BY <1>1

\* x is the beginning of t, of length m.
Begins(x, m, t) == Script(x) /\ Len(x) = m /\ \A i \in 1 .. m : x[i] = t[i]

\* A beginning of a script, and the calls after it.
LEMMA BeginsFurther ==
    ASSUME NEW x, NEW m \in Nat, NEW t, Begins(x, m, t),
           NEW b, NEW n \in Nat, Script(b), Len(b) = n, \A i \in 1 .. n : b[i] = t[m + i]
    PROVE  Begins(x \o b, m + n, t)
<1>1. Joins(x \o b, x, m, b, n)
  BY ConcatJoins DEF Begins
<1> DEFINE y == x \o b
<1> HIDE DEF y
<1>2. /\ Script(y) /\ Len(y) = m + n
      /\ \A i \in 1 .. m : y[i] = x[i]
      /\ \A i \in 1 .. n : y[m + i] = b[i]
  BY <1>1 DEF Joins, y
<1>3. ASSUME NEW i \in 1 .. m + n PROVE y[i] = t[i]
  <2>1. CASE i \in 1 .. m
    BY <2>1, <1>2 DEF Begins
  <2>2. CASE i \notin 1 .. m
    <3>1. i - m \in 1 .. n /\ m + (i - m) = i
      BY <2>2
    <3>2. QED BY <3>1, <1>2
  <2>3. QED BY <2>1, <2>2
<1>4. QED BY <1>2, <1>3 DEF Begins, y

-----------------------------------------------------------------------------
(***************************************************************************)
(* The measurement scripts, step by step.                                  *)
(***************************************************************************)

EffectiveSteps ==
    <<Do("stop_traffic"), Do("unlimit"), <<"clear", "reg_pktgen_cntr">>,
      Do("disable"), Do("enable"), <<"clear", "port_stat">>, Do("stop_traffic"),
      <<"clear", "numbers">>, <<"clear", "lack">>,
      <<"clear", "reg_pktgen_cntr">>, <<"clear", "protected">>,
      <<"clear", "holes">>, <<"remote", "receiver">>, <<"remote", "topo">>,
      Do("sleep"), Do("start_traffic"), Do("start_poller"), Do("count"),
      Do("stop_poller"), Do("stop_traffic"), Do("sleep"), Do("rx_ok"),
      Do("tx_all"), Do("sent"), Do("rx_forwarded"), Do("limit"),
      <<"clear", "reg_pktgen_cntr">>, Do("write")>>

EffectiveBuffsSteps ==
    <<Do("stop_traffic"), Do("unlimit"), <<"clear", "reg_pktgen_cntr">>,
      Do("disable"), Do("enable"), <<"clear", "port_stat">>, Do("stop_traffic"),
      <<"clear", "numbers">>, <<"clear", "lack">>,
      <<"clear", "reg_pktgen_cntr">>, <<"clear", "protected">>,
      <<"clear", "holes">>, <<"remote", "receiver">>, <<"remote", "topo">>,
      Do("sleep"), Do("start_traffic"), Do("start_poller"),
      Do("start_thread"), Do("count"), Do("stop_thread"),
      Do("stop_poller"), Do("stop_traffic"), Do("sleep"), Do("rx_ok"),
      Do("tx_all"), Do("sent"), Do("rx_forwarded"), Do("limit"),
      <<"clear", "reg_pktgen_cntr">>, Do("write")>>

\* The steps that are in a script with the polling thread only.
Buffs(s) == IF s.buffs THEN 1 ELSE 0

IsEffective == script.name = "effective"

NumSteps(s) == IF s.name = "effective" THEN 28 + 2 * Buffs(s) ELSE 15

\* The place of a step; of stop_traffic and sleep, the last one.  The traffic
\* is first stopped at "halt"; the link comes to rest before "drain"; the calls
\* of other shells are waited for at "settle".
PlaceOf(s, op) ==
    IF s.name = "effective"
    THEN CASE op = "halt"          -> 1
           [] op = "drain"         -> 2
           [] op = "enable"        -> 5
           [] op = "port_stat"     -> 6
           [] op = "numbers"       -> 8
           [] op = "lack"          -> 9
           [] op = "protected"     -> 11
           [] op = "holes"         -> 12
           [] op = "receiver"      -> 13
           [] op = "topo"          -> 14
           [] op = "settle"        -> 15
           [] op = "start_traffic" -> 16
           [] op = "start_poller"  -> 17
           [] op = "count"         -> 18 + Buffs(s)
           [] op = "stop_thread"   -> 18 + 2 * Buffs(s)
           [] op = "stop_poller"   -> 19 + 2 * Buffs(s)
           [] op = "stop_traffic"  -> 20 + 2 * Buffs(s)
           [] op = "sleep"         -> 21 + 2 * Buffs(s)
           [] op = "rx_ok"         -> 22 + 2 * Buffs(s)
           [] op = "tx_all"        -> 23 + 2 * Buffs(s)
           [] op = "sent"          -> 24 + 2 * Buffs(s)
           [] op = "rx_forwarded"  -> 25 + 2 * Buffs(s)
           [] op = "limit"         -> 26 + 2 * Buffs(s)
    ELSE CASE op = "halt"          -> 1
           [] op = "drain"         -> 2
           [] op = "disable"       -> 2
           [] op = "port_stat"     -> 5
           [] op = "input"         -> 6
           [] op = "start_traffic" -> 7
           [] op = "stop_traffic"  -> 9
           [] op = "sleep"         -> 10
           [] op = "rx_ok"         -> 11
           [] op = "tx_all"        -> 12
           [] op = "limit"         -> 13

\* The place of the next step.
Place == NumSteps(script) + 1 - Len(steps)

Past(op) == Place > PlaceOf(script, op)

\* The script runs, or has run to its end.
Going == steps # <<>> \/ results # NoResults

\* The registers and counters another shell has still to clear.
Pending(sw, name) == \E i \in 1 .. Len(remote[sw]) : remote[sw][i] = name

Zero(c) == hw[c] = 0 /\ shadow[c] = 0

Unconfirmed == "lost" \in disturbed

ExptTypeOK ==
    /\ script \in Scripts
    /\ run \in 0 .. MaxRuns
    /\ disturbed \subseteq {"interrupted", "lost"}
    /\ remote = [sw \in {"receiver", "topo"} |-> remote[sw]]
    /\ remote["receiver"] \in Seq({"port_stat"} \cup ReceiverRegs)
    /\ remote["topo"] \in Seq({"port_stat"})
    /\ pktgen \in [on : BOOLEAN, limited : BOOLEAN, count : Nat]
    /\ entry \in {Unset, 0, 1}
    /\ stale \subseteq SenderRegs \cup ReceiverRegs
    /\ hw \in [PortCounters \cup {"protected"} -> Nat]
    /\ shadow \in [PortCounters -> Nat]
    /\ link \in [sent : Nat, flight : Nat, retx : Nat, lost : Nat, dropped : Nat,
                 unrecovered : Nat]

\* The steps left are those of the script, from some place on.
Control ==
    /\ Script(steps)
    /\ Len(steps) \in 0 .. NumSteps(script)
    /\ \A i \in 1 .. Len(steps) : steps[i] = Steps(script)[Place - 1 + i]
    /\ results # NoResults => steps = <<>>

\* The generator is off but between the start and the last stop, and the
\* link is at rest one step after it was stopped.
TrafficInv ==
    Going =>
        /\ Past("halt") /\ ~Past("start_traffic") => ~pktgen.on
        /\ Past("drain") /\ ~Past("start_traffic") => AtRest
        /\ Past("stop_traffic") => ~pktgen.on
        /\ Past("sleep") => AtRest
        /\ Past("limit") => pktgen.limited

\* Nothing of an earlier run is left where the scripts have cleaned, or the
\* other shells have still to clean it.
CleanInv ==
    Going /\ ~Past("start_traffic") =>
        /\ Past("port_stat") => Zero("tx")
        /\ IsEffective /\ Past("protected") => hw["protected"] = 0
        /\ IsEffective =>
            /\ Past("numbers") => "numbers" \notin stale
            /\ Past("lack") => "lack" \notin stale
            /\ Past("holes") => "holes" \notin stale
        /\ IsEffective /\ ~Unconfirmed =>
            /\ Past("receiver") =>
                /\ \A c \in CountersOf("receiver") :
                    Pending("receiver", "port_stat") \/ Zero(c)
                /\ \A r \in ReceiverRegs : Pending("receiver", r) \/ r \notin stale
            /\ Past("topo") => Pending("topo", "port_stat") \/ Zero("deduped")
        /\ ~IsEffective /\ Past("input") =>
            \A c \in CountersOf("receiver") : Zero(c)

\* From the start on nobody clears the counters the script will read.
RemoteInv ==
    Going =>
        /\ IsEffective /\ Past("settle") =>
            remote["receiver"] = <<>> /\ remote["topo"] = <<>>
        /\ ~IsEffective /\ Past("input") => remote["receiver"] = <<>>
        /\ IsEffective /\ Past("enable") => entry = script.mode
        /\ ~IsEffective /\ Past("disable") => entry = Unset

\* Frames are sent, received, lost or on their way.
CountInv ==
    Going /\ Past("start_traffic") /\ ~Unconfirmed =>
        /\ hw["tx"] = hw[ReceivedCounter] + link.flight + MeasuredLosses
        /\ IsEffective =>
            hw["protected"] = hw[ForwardedCounter] + link.flight + link.retx
                                + link.unrecovered

\* What has been read is what there was at the end.
ValuesInv ==
    Going =>
        /\ Past("sleep") => \A c \in PortCounters : shadow[c] = hw[c]
        /\ Past("rx_ok") => "rx_ok" \in DOMAIN values /\ values["rx_ok"] = hw[ReceivedCounter]
        /\ Past("tx_all") => "tx_all" \in DOMAIN values /\ values["tx_all"] = hw["tx"]
        /\ IsEffective /\ Past("sent") =>
            "sent" \in DOMAIN values /\ values["sent"] = hw["protected"]
        /\ IsEffective /\ Past("rx_forwarded") =>
            "rx_forwarded" \in DOMAIN values /\ values["rx_forwarded"] = hw[ForwardedCounter]

PollerStates == {"none", "requested", "starting", "polling", "stopping", "ended"}
Pollers == [1 .. MaxRuns -> [state : PollerStates, at : {"receiver", "topo"}]]

\* A thread runs for its script only; the process on the other switch goes
\* through its states as the script does.
PollInv ==
    /\ \A r \in threads : r \in 1 .. run
    /\ pollers \in Pollers
    /\ \A r \in 1 .. MaxRuns : r > run => pollers[r].state = "none"
    /\ Going /\ run \in threads => IsEffective /\ script.buffs /\ ~Past("stop_thread")
    /\ Going => run > 0
    /\ Going /\ ~IsEffective => pollers[run].state = "none"
    /\ Going /\ IsEffective =>
        /\ ~Past("start_poller") => pollers[run].state = "none"
        /\ Past("start_poller") => /\ pollers[run].at = CountingSwitch
                                  /\ pollers[run].state # "none"
        /\ "interrupted" \notin disturbed =>
            /\ Past("count") => pollers[run].state # "requested"
            /\ Past("stop_poller") => pollers[run].state \in {"stopping", "ended"}
            /\ Past("sleep") => pollers[run].state = "ended"

ResultsInv ==
    results # NoResults /\ ~Unconfirmed =>
        /\ results.lost = MeasuredLosses
        /\ results.unrecovered \in {Unset, link.unrecovered}

ExptInv ==
    /\ ExptTypeOK /\ Control /\ TrafficInv /\ CleanInv /\ RemoteInv
    /\ CountInv /\ ValuesInv /\ PollInv /\ ResultsInv

-----------------------------------------------------------------------------
(* The scripts, step by step. *)

\* reset_all of the sender.
LEMMA SenderResetListed ==
    SenderReset = <<<<"clear", "port_stat">>, Do("stop_traffic"), <<"clear", "numbers">>,
                    <<"clear", "lack">>, <<"clear", "reg_pktgen_cntr">>,
                    <<"clear", "protected">>, <<"clear", "holes">>>>
<1> DEFINE names == <<"numbers", "lack", "reg_pktgen_cntr", "protected", "holes">>
           t == <<<<"clear", "numbers">>, <<"clear", "lack">>,
                  <<"clear", "reg_pktgen_cntr">>, <<"clear", "protected">>,
                  <<"clear", "holes">>>>
<1>1. /\ DOMAIN names = 1 .. 5 /\ t = [i \in 1 .. 5 |-> t[i]]
      /\ names[1] = "numbers" /\ names[2] = "lack" /\ names[3] = "reg_pktgen_cntr"
      /\ names[4] = "protected" /\ names[5] = "holes"
  OBVIOUS
<1>2. /\ t[1] = <<"clear", "numbers">> /\ t[2] = <<"clear", "lack">>
      /\ t[3] = <<"clear", "reg_pktgen_cntr">> /\ t[4] = <<"clear", "protected">>
      /\ t[5] = <<"clear", "holes">>
  OBVIOUS
<1> HIDE DEF names, t
<1>3. ClearAll(names) = t
  BY <1>1, <1>2 DEF ClearAll
<1> DEFINE r == <<<<"clear", "port_stat">>, Do("stop_traffic"), <<"clear", "numbers">>,
                    <<"clear", "lack">>, <<"clear", "reg_pktgen_cntr">>,
                    <<"clear", "protected">>, <<"clear", "holes">>>>
           a == <<<<"clear", "port_stat">>, Do("stop_traffic")>>
<1>5. /\ r = [i \in 1 .. 7 |-> r[i]] /\ a = [i \in 1 .. 2 |-> a[i]]
      /\ r[1] = a[1] /\ r[2] = a[2]
      /\ r[3] = <<"clear", "numbers">> /\ r[4] = <<"clear", "lack">>
      /\ r[5] = <<"clear", "reg_pktgen_cntr">> /\ r[6] = <<"clear", "protected">>
      /\ r[7] = <<"clear", "holes">>
  OBVIOUS
<1>6. SenderReset = a \o t
  BY <1>3 DEF SenderReset, names
<1>7. SUFFICES a \o t = r
  BY <1>6
<1> HIDE DEF r, a
<1>8. /\ Script(r) /\ Len(r) = 7 /\ Script(a) /\ Len(a) = 2
      /\ Script(t) /\ Len(t) = 5
  BY <1>1, <1>5, IndexedIsScript
<1>9. Begins(a, 2, r)
  BY <1>5, <1>8 DEF Begins
<1>10. \A i \in 1 .. 5 : t[i] = r[2 + i]
  BY <1>2, <1>5
<1>11. Begins(a \o t, 2 + 5, r)
  BY <1>8, <1>9, <1>10, BeginsFurther
<1>12. Script(a \o t) /\ Len(a \o t) = 7 /\ \A i \in 1 .. 7 : (a \o t)[i] = r[i]
  BY <1>11 DEF Begins
<1>13. QED BY <1>8, <1>12, SameScript

\* A script of one call.
LEMMA OneCall ==
    ASSUME NEW c, NEW f, f = <<c>>
    PROVE  f = [i \in 1 .. 1 |-> f[i]] /\ f[1] = c
<1> DEFINE t == <<c>>
<1>1. t = [i \in 1 .. 1 |-> t[i]] /\ t[1] = c /\ f = t
  OBVIOUS
<1> HIDE DEF t
<1>2. QED BY <1>1

\* run_effective_lossRate_linkSpeed_expt with the polling thread.
LEMMA BuffsListed ==
    ASSUME NEW s \in Scripts, s.name = "effective", s.buffs
    PROVE  Steps(s) = EffectiveBuffsSteps
<1> DEFINE a == <<Do("stop_traffic")>>
           b == LetTrafficPass
           c == <<<<"clear", "reg_pktgen_cntr">>, Do("disable"), Do("enable")>>
           d == SenderReset
           e == <<<<"remote", "receiver">>, <<"remote", "topo">>, Do("sleep"),
                  Do("start_traffic"), Do("start_poller")>>
           f == When(s.buffs, "start_thread")
           g == <<Do("count")>>
           h == When(s.buffs, "stop_thread")
           u == <<Do("stop_poller"), Do("stop_traffic")>>
           v == FinalPause
           w == <<Do("rx_ok"), Do("tx_all"), Do("sent"), Do("rx_forwarded"),
                  Do("limit"), <<"clear", "reg_pktgen_cntr">>, Do("write")>>
           x1 == a \o b
           x2 == x1 \o c
           x3 == x2 \o d
           x4 == x3 \o e
           x5 == x4 \o f
           x6 == x5 \o g
           x7 == x6 \o h
           x8 == x7 \o u
           x9 == x8 \o v
           x10 == x9 \o w
           t == EffectiveBuffsSteps
<1>1. Steps(s) = x10
  BY DEF Steps, Effective
<1>2. /\ When(s.buffs, "start_thread") = <<Do("start_thread")>>
      /\ When(s.buffs, "stop_thread") = <<Do("stop_thread")>>
  BY DEF When
<1>3. /\ a = [i \in 1 .. 1 |-> a[i]]
      /\ b = [i \in 1 .. 1 |-> b[i]]
      /\ c = [i \in 1 .. 3 |-> c[i]]
      /\ d = [i \in 1 .. 7 |-> d[i]]
      /\ e = [i \in 1 .. 5 |-> e[i]]
      /\ g = [i \in 1 .. 1 |-> g[i]]
      /\ u = [i \in 1 .. 2 |-> u[i]]
      /\ v = [i \in 1 .. 1 |-> v[i]]
      /\ w = [i \in 1 .. 7 |-> w[i]]
      /\ t = [i \in 1 .. 30 |-> t[i]]
  BY <1>2, SenderResetListed DEF LetTrafficPass, FinalPause, EffectiveBuffsSteps
<1>3a. /\ f = [i \in 1 .. 1 |-> f[i]] /\ f[1] = Do("start_thread")
       /\ h = [i \in 1 .. 1 |-> h[i]] /\ h[1] = Do("stop_thread")
  BY <1>2, OneCall
<1>4. /\ a[1] = t[1]
      /\ b[1] = t[2]
      /\ c[1] = t[3] /\ c[2] = t[4] /\ c[3] = t[5]
      /\ d[1] = t[6] /\ d[2] = t[7] /\ d[3] = t[8] /\ d[4] = t[9] /\ d[5] = t[10]
      /\ d[6] = t[11] /\ d[7] = t[12]
      /\ e[1] = t[13] /\ e[2] = t[14] /\ e[3] = t[15] /\ e[4] = t[16] /\ e[5] = t[17]
      /\ t[18] = Do("start_thread")
      /\ g[1] = t[19]
      /\ t[20] = Do("stop_thread")
      /\ u[1] = t[21] /\ u[2] = t[22]
      /\ v[1] = t[23]
      /\ w[1] = t[24] /\ w[2] = t[25] /\ w[3] = t[26] /\ w[4] = t[27] /\ w[5] = t[28]
      /\ w[6] = t[29] /\ w[7] = t[30]
  BY <1>2, SenderResetListed DEF LetTrafficPass, FinalPause, EffectiveBuffsSteps
<1>5. /\ x1 = a \o b /\ x2 = x1 \o c /\ x3 = x2 \o d /\ x4 = x3 \o e /\ x5 = x4 \o f
      /\ x6 = x5 \o g /\ x7 = x6 \o h /\ x8 = x7 \o u /\ x9 = x8 \o v /\ x10 = x9 \o w
  OBVIOUS
<1>6. SUFFICES x10 = t
  BY <1>1
<1> HIDE DEF a, b, c, d, e, f, g, h, u, v, w, x1, x2, x3, x4, x5, x6, x7, x8, x9, x10, t
<1>7. /\ Script(a) /\ Len(a) = 1
      /\ Script(b) /\ Len(b) = 1
      /\ Script(c) /\ Len(c) = 3
      /\ Script(d) /\ Len(d) = 7
      /\ Script(e) /\ Len(e) = 5
      /\ Script(f) /\ Len(f) = 1
      /\ Script(g) /\ Len(g) = 1
      /\ Script(h) /\ Len(h) = 1
      /\ Script(u) /\ Len(u) = 2
      /\ Script(v) /\ Len(v) = 1
      /\ Script(w) /\ Len(w) = 7
      /\ Script(t) /\ Len(t) = 30
  BY <1>3, <1>3a, IndexedIsScript
<1>8. Begins(a, 1, t)
  BY <1>4, <1>7 DEF Begins
<1>9. Begins(x1, 2, t)
  <2>1. \A i \in 1 .. 1 : b[i] = t[1 + i]
    BY <1>4
  <2>2. Begins(a \o b, 1 + 1, t)
    BY <2>1, <1>7, <1>8, BeginsFurther
  <2>3. QED BY <2>2, <1>5
<1>10. Begins(x2, 5, t)
  <2>1. \A i \in 1 .. 3 : c[i] = t[2 + i]
    BY <1>4
  <2>2. Begins(x1 \o c, 2 + 3, t)
    BY <2>1, <1>7, <1>9, BeginsFurther
  <2>3. QED BY <2>2, <1>5
<1>11. Begins(x3, 12, t)
  <2>1. \A i \in 1 .. 7 : d[i] = t[5 + i]
    BY <1>4
  <2>2. Begins(x2 \o d, 5 + 7, t)
    BY <2>1, <1>7, <1>10, BeginsFurther
  <2>3. QED BY <2>2, <1>5
<1>12. Begins(x4, 17, t)
  <2>1. \A i \in 1 .. 5 : e[i] = t[12 + i]
    BY <1>4
  <2>2. Begins(x3 \o e, 12 + 5, t)
    BY <2>1, <1>7, <1>11, BeginsFurther
  <2>3. QED BY <2>2, <1>5
<1>13. Begins(x5, 18, t)
  <2>1. \A i \in 1 .. 1 : f[i] = t[17 + i]
    BY <1>4, <1>3a
  <2>2. Begins(x4 \o f, 17 + 1, t)
    BY <2>1, <1>7, <1>12, BeginsFurther
  <2>3. QED BY <2>2, <1>5
<1>14. Begins(x6, 19, t)
  <2>1. \A i \in 1 .. 1 : g[i] = t[18 + i]
    BY <1>4
  <2>2. Begins(x5 \o g, 18 + 1, t)
    BY <2>1, <1>7, <1>13, BeginsFurther
  <2>3. QED BY <2>2, <1>5
<1>15. Begins(x7, 20, t)
  <2>1. \A i \in 1 .. 1 : h[i] = t[19 + i]
    BY <1>4, <1>3a
  <2>2. Begins(x6 \o h, 19 + 1, t)
    BY <2>1, <1>7, <1>14, BeginsFurther
  <2>3. QED BY <2>2, <1>5
<1>16. Begins(x8, 22, t)
  <2>1. \A i \in 1 .. 2 : u[i] = t[20 + i]
    BY <1>4
  <2>2. Begins(x7 \o u, 20 + 2, t)
    BY <2>1, <1>7, <1>15, BeginsFurther
  <2>3. QED BY <2>2, <1>5
<1>17. Begins(x9, 23, t)
  <2>1. \A i \in 1 .. 1 : v[i] = t[22 + i]
    BY <1>4
  <2>2. Begins(x8 \o v, 22 + 1, t)
    BY <2>1, <1>7, <1>16, BeginsFurther
  <2>3. QED BY <2>2, <1>5
<1>18. Begins(x10, 30, t)
  <2>1. \A i \in 1 .. 7 : w[i] = t[23 + i]
    BY <1>4
  <2>2. Begins(x9 \o w, 23 + 7, t)
    BY <2>1, <1>7, <1>17, BeginsFurther
  <2>3. QED BY <2>2, <1>5
<1>19. Script(x10) /\ Len(x10) = 30 /\ \A i \in 1 .. 30 : x10[i] = t[i]
  BY <1>18 DEF Begins
<1>20. Script(t) /\ Len(t) = 30
  BY <1>7
<1>21. x10 = t
  BY <1>19, <1>20, SameScript, Zenon
<1>22. QED BY <1>21

\* run_effective_lossRate_linkSpeed_expt without it.
LEMMA PlainListed ==
    ASSUME NEW s \in Scripts, s.name = "effective", ~s.buffs
    PROVE  Steps(s) = EffectiveSteps
<1> DEFINE a == <<Do("stop_traffic")>>
           b == LetTrafficPass
           c == <<<<"clear", "reg_pktgen_cntr">>, Do("disable"), Do("enable")>>
           d == SenderReset
           e == <<<<"remote", "receiver">>, <<"remote", "topo">>, Do("sleep"),
                  Do("start_traffic"), Do("start_poller")>>
           f == When(s.buffs, "start_thread")
           g == <<Do("count")>>
           h == When(s.buffs, "stop_thread")
           u == <<Do("stop_poller"), Do("stop_traffic")>>
           v == FinalPause
           w == <<Do("rx_ok"), Do("tx_all"), Do("sent"), Do("rx_forwarded"),
                  Do("limit"), <<"clear", "reg_pktgen_cntr">>, Do("write")>>
           x1 == a \o b
           x2 == x1 \o c
           x3 == x2 \o d
           x4 == x3 \o e
           x5 == x4 \o f
           x6 == x5 \o g
           x7 == x6 \o h
           x8 == x7 \o u
           x9 == x8 \o v
           x10 == x9 \o w
           t == EffectiveSteps
<1>1. Steps(s) = x10
  BY DEF Steps, Effective
<1>2. /\ When(s.buffs, "start_thread") = <<>>
      /\ When(s.buffs, "stop_thread") = <<>>
  BY DEF When
<1>3. /\ a = [i \in 1 .. 1 |-> a[i]]
      /\ b = [i \in 1 .. 1 |-> b[i]]
      /\ c = [i \in 1 .. 3 |-> c[i]]
      /\ d = [i \in 1 .. 7 |-> d[i]]
      /\ e = [i \in 1 .. 5 |-> e[i]]
      /\ g = [i \in 1 .. 1 |-> g[i]]
      /\ u = [i \in 1 .. 2 |-> u[i]]
      /\ v = [i \in 1 .. 1 |-> v[i]]
      /\ w = [i \in 1 .. 7 |-> w[i]]
      /\ t = [i \in 1 .. 28 |-> t[i]]
  BY <1>2, SenderResetListed DEF LetTrafficPass, FinalPause, EffectiveSteps
<1>3a. /\ f = [i \in 1 .. 0 |-> f[i]]
       /\ h = [i \in 1 .. 0 |-> h[i]]
  BY <1>2
<1>4. /\ a[1] = t[1]
      /\ b[1] = t[2]
      /\ c[1] = t[3] /\ c[2] = t[4] /\ c[3] = t[5]
      /\ d[1] = t[6] /\ d[2] = t[7] /\ d[3] = t[8] /\ d[4] = t[9] /\ d[5] = t[10]
      /\ d[6] = t[11] /\ d[7] = t[12]
      /\ e[1] = t[13] /\ e[2] = t[14] /\ e[3] = t[15] /\ e[4] = t[16] /\ e[5] = t[17]
      /\ g[1] = t[18]
      /\ u[1] = t[19] /\ u[2] = t[20]
      /\ v[1] = t[21]
      /\ w[1] = t[22] /\ w[2] = t[23] /\ w[3] = t[24] /\ w[4] = t[25] /\ w[5] = t[26]
      /\ w[6] = t[27] /\ w[7] = t[28]
  BY <1>2, SenderResetListed DEF LetTrafficPass, FinalPause, EffectiveSteps
<1>5. /\ x1 = a \o b /\ x2 = x1 \o c /\ x3 = x2 \o d /\ x4 = x3 \o e /\ x5 = x4 \o f
      /\ x6 = x5 \o g /\ x7 = x6 \o h /\ x8 = x7 \o u /\ x9 = x8 \o v /\ x10 = x9 \o w
  OBVIOUS
<1>6. SUFFICES x10 = t
  BY <1>1
<1> HIDE DEF a, b, c, d, e, f, g, h, u, v, w, x1, x2, x3, x4, x5, x6, x7, x8, x9, x10, t
<1>7. /\ Script(a) /\ Len(a) = 1
      /\ Script(b) /\ Len(b) = 1
      /\ Script(c) /\ Len(c) = 3
      /\ Script(d) /\ Len(d) = 7
      /\ Script(e) /\ Len(e) = 5
      /\ Script(f) /\ Len(f) = 0
      /\ Script(g) /\ Len(g) = 1
      /\ Script(h) /\ Len(h) = 0
      /\ Script(u) /\ Len(u) = 2
      /\ Script(v) /\ Len(v) = 1
      /\ Script(w) /\ Len(w) = 7
      /\ Script(t) /\ Len(t) = 28
  BY <1>3, <1>3a, IndexedIsScript
<1>8. Begins(a, 1, t)
  BY <1>4, <1>7 DEF Begins
<1>9. Begins(x1, 2, t)
  <2>1. \A i \in 1 .. 1 : b[i] = t[1 + i]
    BY <1>4
  <2>2. Begins(a \o b, 1 + 1, t)
    BY <2>1, <1>7, <1>8, BeginsFurther
  <2>3. QED BY <2>2, <1>5
<1>10. Begins(x2, 5, t)
  <2>1. \A i \in 1 .. 3 : c[i] = t[2 + i]
    BY <1>4
  <2>2. Begins(x1 \o c, 2 + 3, t)
    BY <2>1, <1>7, <1>9, BeginsFurther
  <2>3. QED BY <2>2, <1>5
<1>11. Begins(x3, 12, t)
  <2>1. \A i \in 1 .. 7 : d[i] = t[5 + i]
    BY <1>4
  <2>2. Begins(x2 \o d, 5 + 7, t)
    BY <2>1, <1>7, <1>10, BeginsFurther
  <2>3. QED BY <2>2, <1>5
<1>12. Begins(x4, 17, t)
  <2>1. \A i \in 1 .. 5 : e[i] = t[12 + i]
    BY <1>4
  <2>2. Begins(x3 \o e, 12 + 5, t)
    BY <2>1, <1>7, <1>11, BeginsFurther
  <2>3. QED BY <2>2, <1>5
<1>13. Begins(x5, 17, t)
  <2>1. \A i \in 1 .. 0 : f[i] = t[17 + i]
    BY <1>4, <1>3a
  <2>2. Begins(x4 \o f, 17 + 0, t)
    BY <2>1, <1>7, <1>12, BeginsFurther
  <2>3. QED BY <2>2, <1>5
<1>14. Begins(x6, 18, t)
  <2>1. \A i \in 1 .. 1 : g[i] = t[17 + i]
    BY <1>4
  <2>2. Begins(x5 \o g, 17 + 1, t)
    BY <2>1, <1>7, <1>13, BeginsFurther
  <2>3. QED BY <2>2, <1>5
<1>15. Begins(x7, 18, t)
  <2>1. \A i \in 1 .. 0 : h[i] = t[18 + i]
    BY <1>4, <1>3a
  <2>2. Begins(x6 \o h, 18 + 0, t)
    BY <2>1, <1>7, <1>14, BeginsFurther
  <2>3. QED BY <2>2, <1>5
<1>16. Begins(x8, 20, t)
  <2>1. \A i \in 1 .. 2 : u[i] = t[18 + i]
    BY <1>4
  <2>2. Begins(x7 \o u, 18 + 2, t)
    BY <2>1, <1>7, <1>15, BeginsFurther
  <2>3. QED BY <2>2, <1>5
<1>17. Begins(x9, 21, t)
  <2>1. \A i \in 1 .. 1 : v[i] = t[20 + i]
    BY <1>4
  <2>2. Begins(x8 \o v, 20 + 1, t)
    BY <2>1, <1>7, <1>16, BeginsFurther
  <2>3. QED BY <2>2, <1>5
<1>18. Begins(x10, 28, t)
  <2>1. \A i \in 1 .. 7 : w[i] = t[21 + i]
    BY <1>4
  <2>2. Begins(x9 \o w, 21 + 7, t)
    BY <2>1, <1>7, <1>17, BeginsFurther
  <2>3. QED BY <2>2, <1>5
<1>19. Script(x10) /\ Len(x10) = 28 /\ \A i \in 1 .. 28 : x10[i] = t[i]
  BY <1>18 DEF Begins
<1>20. Script(t) /\ Len(t) = 28
  BY <1>7
<1>21. x10 = t
  BY <1>19, <1>20, SameScript, Zenon
<1>22. QED BY <1>21
\* Where the steps of a script are.
Placed(s, k, call) ==
    IF s.name = "effective" THEN
        LET late == k - 2 * Buffs(s)
        IN  /\ call[1] \in {"stop_traffic", "unlimit", "clear", "disable", "enable",
                            "remote", "sleep", "start_traffic", "start_poller",
                            "start_thread", "count", "stop_thread", "stop_poller",
                            "rx_ok", "tx_all", "sent", "rx_forwarded", "limit", "write"}
            /\ call[1] = "stop_traffic"  => k = 1 \/ k = 7 \/ late = 20
            /\ call[1] = "unlimit"       => k = 2
            /\ call[1] = "disable"       => k = 4
            /\ call[1] = "enable"        => k = 5
            /\ call[1] = "clear" =>
                \/ k = 6 /\ call[2] = "port_stat"
                \/ k = 8 /\ call[2] = "numbers"
                \/ k = 9 /\ call[2] = "lack"
                \/ k = 11 /\ call[2] = "protected"
                \/ k = 12 /\ call[2] = "holes"
                \/ (k = 3 \/ k = 10 \/ late = 27) /\ call[2] = "reg_pktgen_cntr"
            /\ call[1] = "remote" =>
                \/ k = 13 /\ call[2] = "receiver"
                \/ k = 14 /\ call[2] = "topo"
            /\ call[1] = "sleep"         => k = 15 \/ late = 21
            /\ call[1] = "start_traffic" => k = 16
            /\ call[1] = "start_poller"  => k = 17
            /\ call[1] = "start_thread"  => s.buffs /\ k = 18
            /\ call[1] = "count"         => k = 18 + Buffs(s)
            /\ call[1] = "stop_thread"   => s.buffs /\ k = 20
            /\ call[1] = "stop_poller"   => late = 19
            /\ call[1] = "rx_ok"         => late = 22
            /\ call[1] = "tx_all"        => late = 23
            /\ call[1] = "sent"          => late = 24
            /\ call[1] = "rx_forwarded"  => late = 25
            /\ call[1] = "limit"         => late = 26
            /\ call[1] = "write"         => late = 28
    ELSE    /\ call[1] \in {"stop_traffic", "disable", "unlimit", "clear", "input",
                            "start_traffic", "count", "sleep", "rx_ok", "tx_all",
                            "limit", "write"}
            /\ call[1] = "stop_traffic"  => k = 1 \/ k = 9
            /\ call[1] = "disable"       => k = 2
            /\ call[1] = "unlimit"       => k = 3
            /\ call[1] = "clear" =>
                \/ k = 5 /\ call[2] = "port_stat"
                \/ (k = 4 \/ k = 14) /\ call[2] = "reg_pktgen_cntr"
            /\ call[1] = "input"         => k = 6
            /\ call[1] = "start_traffic" => k = 7
            /\ call[1] = "count"         => k = 8
            /\ call[1] = "sleep"         => k = 10
            /\ call[1] = "rx_ok"         => k = 11
            /\ call[1] = "tx_all"        => k = 12
            /\ call[1] = "limit"         => k = 13
            /\ call[1] = "write"         => k = 15

\* The calls of check_loss_rate.
LEMMA CheckPlaced ==
    ASSUME NEW s \in Scripts, s.name = "check"
    PROVE  /\ Script(Steps(s)) /\ Len(Steps(s)) = NumSteps(s)
           /\ \A k \in 1 .. NumSteps(s) : Placed(s, k, Steps(s)[k])
<1> DEFINE t == CheckLossRate
<1>1. Steps(s) = t /\ NumSteps(s) = 15
  BY DEF Steps, NumSteps, Buffs
<1>2. t = [i \in 1 .. 15 |-> t[i]]
  BY DEF CheckLossRate
<1>3. /\ t[1][1] = "stop_traffic" /\ t[2][1] = "disable" /\ t[3][1] = "unlimit"
      /\ t[4][1] = "clear" /\ t[4][2] = "reg_pktgen_cntr"
      /\ t[5][1] = "clear" /\ t[5][2] = "port_stat" /\ t[6][1] = "input"
      /\ t[7][1] = "start_traffic" /\ t[8][1] = "count" /\ t[9][1] = "stop_traffic"
      /\ t[10][1] = "sleep" /\ t[11][1] = "rx_ok" /\ t[12][1] = "tx_all"
      /\ t[13][1] = "limit" /\ t[14][1] = "clear" /\ t[14][2] = "reg_pktgen_cntr"
      /\ t[15][1] = "write"
  BY DEF CheckLossRate, Do
<1> HIDE DEF t
<1>4. Script(t) /\ Len(t) = 15
  BY <1>2, IndexedIsScript
<1>5. ASSUME NEW k \in 1 .. 15 PROVE Placed(s, k, t[k])
  <2>1. CASE k = 1
    BY <2>1, <1>1, <1>3 DEF Placed
  <2>2. CASE k = 2
    BY <2>2, <1>1, <1>3 DEF Placed
  <2>3. CASE k = 3
    BY <2>3, <1>1, <1>3 DEF Placed
  <2>4. CASE k = 4
    BY <2>4, <1>1, <1>3 DEF Placed
  <2>5. CASE k = 5
    BY <2>5, <1>1, <1>3 DEF Placed
  <2>6. CASE k = 6
    BY <2>6, <1>1, <1>3 DEF Placed
  <2>7. CASE k = 7
    BY <2>7, <1>1, <1>3 DEF Placed
  <2>8. CASE k = 8
    BY <2>8, <1>1, <1>3 DEF Placed
  <2>9. CASE k = 9
    BY <2>9, <1>1, <1>3 DEF Placed
  <2>10. CASE k = 10
    BY <2>10, <1>1, <1>3 DEF Placed
  <2>11. CASE k = 11
    BY <2>11, <1>1, <1>3 DEF Placed
  <2>12. CASE k = 12
    BY <2>12, <1>1, <1>3 DEF Placed
  <2>13. CASE k = 13
    BY <2>13, <1>1, <1>3 DEF Placed
  <2>14. CASE k = 14
    BY <2>14, <1>1, <1>3 DEF Placed
  <2>15. CASE k = 15
    BY <2>15, <1>1, <1>3 DEF Placed
  <2>16. QED BY <2>1, <2>2, <2>3, <2>4, <2>5, <2>6, <2>7, <2>8, <2>9, <2>10, <2>11, <2>12,
                <2>13, <2>14, <2>15
<1>6. QED BY <1>1, <1>4, <1>5

\* The calls of run_effective_lossRate_linkSpeed_expt.
LEMMA EffectivePlaced ==
    ASSUME NEW s \in Scripts, s.name = "effective", ~s.buffs
    PROVE  /\ Script(Steps(s)) /\ Len(Steps(s)) = NumSteps(s)
           /\ \A k \in 1 .. NumSteps(s) : Placed(s, k, Steps(s)[k])
<1> DEFINE t == EffectiveSteps
<1>1. Steps(s) = t /\ NumSteps(s) = 28 /\ Buffs(s) = 0
  BY PlainListed DEF NumSteps, Buffs
<1>2. t = [i \in 1 .. 28 |-> t[i]]
  BY DEF EffectiveSteps
<1>3. /\ t[1][1] = "stop_traffic" /\ t[2][1] = "unlimit"
      /\ t[3][1] = "clear" /\ t[3][2] = "reg_pktgen_cntr" /\ t[4][1] = "disable"
      /\ t[5][1] = "enable" /\ t[6][1] = "clear" /\ t[6][2] = "port_stat"
      /\ t[7][1] = "stop_traffic" /\ t[8][1] = "clear" /\ t[8][2] = "numbers"
      /\ t[9][1] = "clear" /\ t[9][2] = "lack"
      /\ t[10][1] = "clear" /\ t[10][2] = "reg_pktgen_cntr"
      /\ t[11][1] = "clear" /\ t[11][2] = "protected"
      /\ t[12][1] = "clear" /\ t[12][2] = "holes"
      /\ t[13][1] = "remote" /\ t[13][2] = "receiver"
      /\ t[14][1] = "remote" /\ t[14][2] = "topo" /\ t[15][1] = "sleep"
      /\ t[16][1] = "start_traffic" /\ t[17][1] = "start_poller"
      /\ t[18][1] = "count" /\ t[19][1] = "stop_poller" /\ t[20][1] = "stop_traffic"
      /\ t[21][1] = "sleep" /\ t[22][1] = "rx_ok" /\ t[23][1] = "tx_all"
      /\ t[24][1] = "sent" /\ t[25][1] = "rx_forwarded" /\ t[26][1] = "limit"
      /\ t[27][1] = "clear" /\ t[27][2] = "reg_pktgen_cntr" /\ t[28][1] = "write"
  BY DEF EffectiveSteps, Do
<1> HIDE DEF t
<1>4. Script(t) /\ Len(t) = 28
  BY <1>2, IndexedIsScript
<1>5. ASSUME NEW k \in 1 .. 28 PROVE Placed(s, k, t[k])
  <2>1. CASE k = 1
    BY <2>1, <1>1, <1>3 DEF Placed
  <2>2. CASE k = 2
    BY <2>2, <1>1, <1>3 DEF Placed
  <2>3. CASE k = 3
    BY <2>3, <1>1, <1>3 DEF Placed
  <2>4. CASE k = 4
    BY <2>4, <1>1, <1>3 DEF Placed
  <2>5. CASE k = 5
    BY <2>5, <1>1, <1>3 DEF Placed
  <2>6. CASE k = 6
    BY <2>6, <1>1, <1>3 DEF Placed
  <2>7. CASE k = 7
    BY <2>7, <1>1, <1>3 DEF Placed
  <2>8. CASE k = 8
    BY <2>8, <1>1, <1>3 DEF Placed
  <2>9. CASE k = 9
    BY <2>9, <1>1, <1>3 DEF Placed
  <2>10. CASE k = 10
    BY <2>10, <1>1, <1>3 DEF Placed
  <2>11. CASE k = 11
    BY <2>11, <1>1, <1>3 DEF Placed
  <2>12. CASE k = 12
    BY <2>12, <1>1, <1>3 DEF Placed
  <2>13. CASE k = 13
    BY <2>13, <1>1, <1>3 DEF Placed
  <2>14. CASE k = 14
    BY <2>14, <1>1, <1>3 DEF Placed
  <2>15. CASE k = 15
    BY <2>15, <1>1, <1>3 DEF Placed
  <2>16. CASE k = 16
    BY <2>16, <1>1, <1>3 DEF Placed
  <2>17. CASE k = 17
    BY <2>17, <1>1, <1>3 DEF Placed
  <2>18. CASE k = 18
    BY <2>18, <1>1, <1>3 DEF Placed
  <2>19. CASE k = 19
    BY <2>19, <1>1, <1>3 DEF Placed
  <2>20. CASE k = 20
    BY <2>20, <1>1, <1>3 DEF Placed
  <2>21. CASE k = 21
    BY <2>21, <1>1, <1>3 DEF Placed
  <2>22. CASE k = 22
    BY <2>22, <1>1, <1>3 DEF Placed
  <2>23. CASE k = 23
    BY <2>23, <1>1, <1>3 DEF Placed
  <2>24. CASE k = 24
    BY <2>24, <1>1, <1>3 DEF Placed
  <2>25. CASE k = 25
    BY <2>25, <1>1, <1>3 DEF Placed
  <2>26. CASE k = 26
    BY <2>26, <1>1, <1>3 DEF Placed
  <2>27. CASE k = 27
    BY <2>27, <1>1, <1>3 DEF Placed
  <2>28. CASE k = 28
    BY <2>28, <1>1, <1>3 DEF Placed
  <2>29. QED BY <2>1, <2>2, <2>3, <2>4, <2>5, <2>6, <2>7, <2>8, <2>9, <2>10, <2>11, <2>12,
                <2>13, <2>14, <2>15, <2>16, <2>17, <2>18, <2>19, <2>20, <2>21, <2>22,
                <2>23, <2>24, <2>25, <2>26, <2>27, <2>28
<1>6. QED BY <1>1, <1>4, <1>5

\* The same, with the polling thread.
LEMMA BuffsPlaced ==
    ASSUME NEW s \in Scripts, s.name = "effective", s.buffs
    PROVE  /\ Script(Steps(s)) /\ Len(Steps(s)) = NumSteps(s)
           /\ \A k \in 1 .. NumSteps(s) : Placed(s, k, Steps(s)[k])
<1> DEFINE t == EffectiveBuffsSteps
<1>1. Steps(s) = t /\ NumSteps(s) = 30 /\ Buffs(s) = 1
  BY BuffsListed DEF NumSteps, Buffs
<1>2. t = [i \in 1 .. 30 |-> t[i]]
  BY DEF EffectiveBuffsSteps
<1>3. /\ t[1][1] = "stop_traffic" /\ t[2][1] = "unlimit"
      /\ t[3][1] = "clear" /\ t[3][2] = "reg_pktgen_cntr" /\ t[4][1] = "disable"
      /\ t[5][1] = "enable" /\ t[6][1] = "clear" /\ t[6][2] = "port_stat"
      /\ t[7][1] = "stop_traffic" /\ t[8][1] = "clear" /\ t[8][2] = "numbers"
      /\ t[9][1] = "clear" /\ t[9][2] = "lack"
      /\ t[10][1] = "clear" /\ t[10][2] = "reg_pktgen_cntr"
      /\ t[11][1] = "clear" /\ t[11][2] = "protected"
      /\ t[12][1] = "clear" /\ t[12][2] = "holes"
      /\ t[13][1] = "remote" /\ t[13][2] = "receiver"
      /\ t[14][1] = "remote" /\ t[14][2] = "topo" /\ t[15][1] = "sleep"
      /\ t[16][1] = "start_traffic" /\ t[17][1] = "start_poller"
      /\ t[18][1] = "start_thread" /\ t[19][1] = "count" /\ t[20][1] = "stop_thread"
      /\ t[21][1] = "stop_poller" /\ t[22][1] = "stop_traffic" /\ t[23][1] = "sleep"
      /\ t[24][1] = "rx_ok" /\ t[25][1] = "tx_all" /\ t[26][1] = "sent"
      /\ t[27][1] = "rx_forwarded" /\ t[28][1] = "limit"
      /\ t[29][1] = "clear" /\ t[29][2] = "reg_pktgen_cntr" /\ t[30][1] = "write"
  BY DEF EffectiveBuffsSteps, Do
<1> HIDE DEF t
<1>4. Script(t) /\ Len(t) = 30
  BY <1>2, IndexedIsScript
<1>5. ASSUME NEW k \in 1 .. 30 PROVE Placed(s, k, t[k])
  <2>1. CASE k = 1
    BY <2>1, <1>1, <1>3 DEF Placed
  <2>2. CASE k = 2
    BY <2>2, <1>1, <1>3 DEF Placed
  <2>3. CASE k = 3
    BY <2>3, <1>1, <1>3 DEF Placed
  <2>4. CASE k = 4
    BY <2>4, <1>1, <1>3 DEF Placed
  <2>5. CASE k = 5
    BY <2>5, <1>1, <1>3 DEF Placed
  <2>6. CASE k = 6
    BY <2>6, <1>1, <1>3 DEF Placed
  <2>7. CASE k = 7
    BY <2>7, <1>1, <1>3 DEF Placed
  <2>8. CASE k = 8
    BY <2>8, <1>1, <1>3 DEF Placed
  <2>9. CASE k = 9
    BY <2>9, <1>1, <1>3 DEF Placed
  <2>10. CASE k = 10
    BY <2>10, <1>1, <1>3 DEF Placed
  <2>11. CASE k = 11
    BY <2>11, <1>1, <1>3 DEF Placed
  <2>12. CASE k = 12
    BY <2>12, <1>1, <1>3 DEF Placed
  <2>13. CASE k = 13
    BY <2>13, <1>1, <1>3 DEF Placed
  <2>14. CASE k = 14
    BY <2>14, <1>1, <1>3 DEF Placed
  <2>15. CASE k = 15
    BY <2>15, <1>1, <1>3 DEF Placed
  <2>16. CASE k = 16
    BY <2>16, <1>1, <1>3 DEF Placed
  <2>17. CASE k = 17
    BY <2>17, <1>1, <1>3 DEF Placed
  <2>18. CASE k = 18
    BY <2>18, <1>1, <1>3 DEF Placed
  <2>19. CASE k = 19
    BY <2>19, <1>1, <1>3 DEF Placed
  <2>20. CASE k = 20
    BY <2>20, <1>1, <1>3 DEF Placed
  <2>21. CASE k = 21
    BY <2>21, <1>1, <1>3 DEF Placed
  <2>22. CASE k = 22
    BY <2>22, <1>1, <1>3 DEF Placed
  <2>23. CASE k = 23
    BY <2>23, <1>1, <1>3 DEF Placed
  <2>24. CASE k = 24
    BY <2>24, <1>1, <1>3 DEF Placed
  <2>25. CASE k = 25
    BY <2>25, <1>1, <1>3 DEF Placed
  <2>26. CASE k = 26
    BY <2>26, <1>1, <1>3 DEF Placed
  <2>27. CASE k = 27
    BY <2>27, <1>1, <1>3 DEF Placed
  <2>28. CASE k = 28
    BY <2>28, <1>1, <1>3 DEF Placed
  <2>29. CASE k = 29
    BY <2>29, <1>1, <1>3 DEF Placed
  <2>30. CASE k = 30
    BY <2>30, <1>1, <1>3 DEF Placed
  <2>31. QED BY <2>1, <2>2, <2>3, <2>4, <2>5, <2>6, <2>7, <2>8, <2>9, <2>10, <2>11, <2>12,
                <2>13, <2>14, <2>15, <2>16, <2>17, <2>18, <2>19, <2>20, <2>21, <2>22,
                <2>23, <2>24, <2>25, <2>26, <2>27, <2>28, <2>29, <2>30
<1>6. QED BY <1>1, <1>4, <1>5

\* The calls of a script are where Placed says.
LEMMA StepsPlaced ==
    ASSUME NEW s \in Scripts
    PROVE  /\ Script(Steps(s)) /\ Len(Steps(s)) = NumSteps(s)
           /\ \A k \in 1 .. NumSteps(s) : Placed(s, k, Steps(s)[k])
<1>1. s.name \in {"effective", "check"} /\ s.buffs \in BOOLEAN
  BY ExperimentAssumption
<1>2. CASE s.name = "check"
  BY <1>2, CheckPlaced
<1>3. CASE s.name = "effective" /\ s.buffs
  BY <1>3, BuffsPlaced
<1>4. CASE s.name = "effective" /\ ~s.buffs
  BY <1>4, EffectivePlaced
<1>5. QED BY <1>1, <1>2, <1>3, <1>4

\* The places of the steps of a script, as numbers.
Placing(s) ==
    /\ Buffs(s) \in 0 .. 1 /\ (s.buffs => Buffs(s) = 1) /\ (~s.buffs => Buffs(s) = 0)
    /\ s.name = "effective" \/ s.name = "check"
    /\ s.mode = 0 \/ s.mode = 1
    /\ s.name = "effective" =>
        /\ NumSteps(s) = 28 + 2 * Buffs(s)
        /\ PlaceOf(s, "halt") = 1 /\ PlaceOf(s, "drain") = 2
        /\ PlaceOf(s, "settle") = 15
        /\ PlaceOf(s, "stop_traffic") = 20 + 2 * Buffs(s)
        /\ PlaceOf(s, "enable") = 5 /\ PlaceOf(s, "port_stat") = 6
        /\ PlaceOf(s, "numbers") = 8 /\ PlaceOf(s, "lack") = 9
        /\ PlaceOf(s, "protected") = 11 /\ PlaceOf(s, "holes") = 12
        /\ PlaceOf(s, "receiver") = 13 /\ PlaceOf(s, "topo") = 14
        /\ PlaceOf(s, "start_traffic") = 16 /\ PlaceOf(s, "start_poller") = 17
        /\ PlaceOf(s, "count") = 18 + Buffs(s)
        /\ PlaceOf(s, "stop_thread") = 18 + 2 * Buffs(s)
        /\ PlaceOf(s, "stop_poller") = 19 + 2 * Buffs(s)
        /\ PlaceOf(s, "sleep") = 21 + 2 * Buffs(s)
        /\ PlaceOf(s, "rx_ok") = 22 + 2 * Buffs(s)
        /\ PlaceOf(s, "tx_all") = 23 + 2 * Buffs(s)
        /\ PlaceOf(s, "sent") = 24 + 2 * Buffs(s)
        /\ PlaceOf(s, "rx_forwarded") = 25 + 2 * Buffs(s)
        /\ PlaceOf(s, "limit") = 26 + 2 * Buffs(s)
    /\ s.name = "check" =>
        /\ NumSteps(s) = 15
        /\ PlaceOf(s, "halt") = 1 /\ PlaceOf(s, "drain") = 2
        /\ PlaceOf(s, "stop_traffic") = 9
        /\ PlaceOf(s, "disable") = 2 /\ PlaceOf(s, "port_stat") = 5
        /\ PlaceOf(s, "input") = 6 /\ PlaceOf(s, "start_traffic") = 7
        /\ PlaceOf(s, "sleep") = 10 /\ PlaceOf(s, "rx_ok") = 11
        /\ PlaceOf(s, "tx_all") = 12 /\ PlaceOf(s, "limit") = 13

\* PlaceOf, in numbers.
LEMMA Places ==
    ASSUME NEW s \in Scripts
    PROVE  Placing(s) /\ NumSteps(s) \in Nat
<1>1. Buffs(s) \in 0 .. 1 /\ s.name \in {"effective", "check"} /\ s.mode \in {0, 1}
  BY ExperimentAssumption DEF Buffs
<1>2. ASSUME s.name = "effective"
      PROVE  /\ NumSteps(s) = 28 + 2 * Buffs(s)
             /\ PlaceOf(s, "halt") = 1 /\ PlaceOf(s, "drain") = 2
        /\ PlaceOf(s, "settle") = 15
        /\ PlaceOf(s, "stop_traffic") = 20 + 2 * Buffs(s)
        /\ PlaceOf(s, "enable") = 5 /\ PlaceOf(s, "port_stat") = 6
             /\ PlaceOf(s, "numbers") = 8 /\ PlaceOf(s, "lack") = 9
             /\ PlaceOf(s, "protected") = 11 /\ PlaceOf(s, "holes") = 12
             /\ PlaceOf(s, "receiver") = 13 /\ PlaceOf(s, "topo") = 14
             /\ PlaceOf(s, "start_traffic") = 16 /\ PlaceOf(s, "start_poller") = 17
             /\ PlaceOf(s, "count") = 18 + Buffs(s)
             /\ PlaceOf(s, "stop_thread") = 18 + 2 * Buffs(s)
             /\ PlaceOf(s, "stop_poller") = 19 + 2 * Buffs(s)
             /\ PlaceOf(s, "sleep") = 21 + 2 * Buffs(s)
             /\ PlaceOf(s, "rx_ok") = 22 + 2 * Buffs(s)
             /\ PlaceOf(s, "tx_all") = 23 + 2 * Buffs(s)
             /\ PlaceOf(s, "sent") = 24 + 2 * Buffs(s)
             /\ PlaceOf(s, "rx_forwarded") = 25 + 2 * Buffs(s)
             /\ PlaceOf(s, "limit") = 26 + 2 * Buffs(s)
  BY <1>2 DEF PlaceOf, NumSteps
<1>3. ASSUME s.name = "check"
      PROVE  /\ NumSteps(s) = 15
             /\ PlaceOf(s, "halt") = 1 /\ PlaceOf(s, "drain") = 2
        /\ PlaceOf(s, "stop_traffic") = 9
        /\ PlaceOf(s, "disable") = 2 /\ PlaceOf(s, "port_stat") = 5
             /\ PlaceOf(s, "input") = 6 /\ PlaceOf(s, "start_traffic") = 7
             /\ PlaceOf(s, "sleep") = 10 /\ PlaceOf(s, "rx_ok") = 11
             /\ PlaceOf(s, "tx_all") = 12 /\ PlaceOf(s, "limit") = 13
  BY <1>3 DEF PlaceOf, NumSteps
<1>4. NumSteps(s) \in Nat
  BY <1>1, <1>2, <1>3
<1>5. QED BY <1>1, <1>2, <1>3, <1>4 DEF Placing, Buffs

\* The places a step does not pass.
Same(op) == Past(op)' <=> Past(op)

KeepsBut(ops) ==
    /\ "halt" \notin ops => Same("halt")
    /\ "drain" \notin ops => Same("drain")
    /\ "port_stat" \notin ops => Same("port_stat")
    /\ "start_traffic" \notin ops => Same("start_traffic")
    /\ "stop_traffic" \notin ops => Same("stop_traffic")
    /\ "sleep" \notin ops => Same("sleep")
    /\ "rx_ok" \notin ops => Same("rx_ok")
    /\ "tx_all" \notin ops => Same("tx_all")
    /\ "limit" \notin ops => Same("limit")
    /\ IsEffective =>
        /\ "enable" \notin ops => Same("enable")
        /\ "numbers" \notin ops => Same("numbers")
        /\ "lack" \notin ops => Same("lack")
        /\ "protected" \notin ops => Same("protected")
        /\ "holes" \notin ops => Same("holes")
        /\ "receiver" \notin ops => Same("receiver")
        /\ "topo" \notin ops => Same("topo")
        /\ "settle" \notin ops => Same("settle")
        /\ "start_poller" \notin ops => Same("start_poller")
        /\ "count" \notin ops => Same("count")
        /\ "stop_thread" \notin ops => Same("stop_thread")
        /\ "stop_poller" \notin ops => Same("stop_poller")
        /\ "sent" \notin ops => Same("sent")
        /\ "rx_forwarded" \notin ops => Same("rx_forwarded")
    /\ ~IsEffective =>
        /\ "disable" \notin ops => Same("disable")
        /\ "input" \notin ops => Same("input")

\* The places are passed one after the other.
InOrder ==
    /\ IsEffective =>
        /\ (Past("drain") => Past("halt")) /\ (Past("enable") => Past("drain"))
        /\ (Past("port_stat") => Past("enable")) /\ (Past("numbers") => Past("port_stat"))
        /\ (Past("lack") => Past("numbers")) /\ (Past("protected") => Past("lack"))
        /\ (Past("holes") => Past("protected")) /\ (Past("receiver") => Past("holes"))
        /\ (Past("topo") => Past("receiver")) /\ (Past("settle") => Past("topo"))
        /\ (Past("start_traffic") => Past("settle"))
        /\ (Past("start_poller") => Past("start_traffic"))
        /\ (Past("count") => Past("start_poller")) /\ (Past("stop_thread") => Past("count"))
        /\ (Past("stop_poller") => Past("stop_thread"))
        /\ (Past("stop_traffic") => Past("stop_poller"))
        /\ (Past("sleep") => Past("stop_traffic")) /\ (Past("rx_ok") => Past("sleep"))
        /\ (Past("tx_all") => Past("rx_ok")) /\ (Past("sent") => Past("tx_all"))
        /\ (Past("rx_forwarded") => Past("sent")) /\ (Past("limit") => Past("rx_forwarded"))
    /\ ~IsEffective =>
        /\ (Past("disable") => Past("halt")) /\ (Past("port_stat") => Past("disable"))
        /\ (Past("input") => Past("port_stat")) /\ (Past("start_traffic") => Past("input"))
        /\ (Past("stop_traffic") => Past("start_traffic"))
        /\ (Past("sleep") => Past("stop_traffic"))
        /\ (Past("rx_ok") => Past("sleep")) /\ (Past("tx_all") => Past("rx_ok"))
        /\ (Past("limit") => Past("tx_all"))
        /\ (Past("drain") => Past("halt")) /\ (Past("port_stat") => Past("drain"))

\* Who is behind a place is behind those before it.
LEMMA PlacesInOrder ==
    ASSUME Placing(script), Place \in Int
    PROVE  InOrder
<1>1. CASE IsEffective
  BY <1>1 DEF Placing, InOrder, Past, IsEffective
<1>2. CASE ~IsEffective
  BY <1>2 DEF Placing, InOrder, Past, IsEffective
<1>3. QED BY <1>1, <1>2

\* A step of the script is the next one, and is then behind it.
Stepped ==
    /\ Going /\ script' = script /\ run' = run
    /\ Place \in Int /\ Place' = Place + 1 /\ Placing(script)
    /\ InOrder /\ (IsEffective' <=> IsEffective)

OnScript ==
    /\ Place \in 1 .. NumSteps(script) /\ Placed(script, Place, Head(steps))
    /\ script \in Scripts /\ results = NoResults
    /\ Head(steps)[1] # "count" => pktgen.on \/ AtRest
    /\ Control'

\* Every call of t is one of u.
Holds(u, t) == \A j \in 1 .. Len(t) : \E i \in 1 .. Len(u) : u[i] = t[j]

\* What is appended is there.
LEMMA Appended ==
    ASSUME NEW S, NEW s \in Seq(S), NEW t \in Seq(S)
    PROVE  s \o t \in Seq(S) /\ Holds(s \o t, t)
<1>1. /\ s \o t \in Seq(S) /\ Len(s \o t) = Len(s) + Len(t)
      /\ \A j \in 1 .. Len(t) : (s \o t)[Len(s) + j] = t[j]
  OBVIOUS
<1>2. ASSUME NEW j \in 1 .. Len(t) PROVE Len(s) + j \in 1 .. Len(s) + Len(t)
  OBVIOUS
<1>3. QED BY <1>1, <1>2 DEF Holds

\* A shell with nothing to do has nothing to clear.
LEMMA NothingPending ==
    ASSUME NEW sw, NEW name, remote[sw] = <<>>
    PROVE  ~Pending(sw, name)
<1>1. Len(remote[sw]) = 0
  OBVIOUS
<1>2. QED BY <1>1 DEF Pending

\* The next call is the one at Place.
LEMMA NextPlace ==
    ASSUME script \in Scripts, Control, steps # <<>>
    PROVE  /\ Place \in 1 .. NumSteps(script) /\ Len(steps) = NumSteps(script) + 1 - Place
           /\ Placed(script, Place, Head(steps)) /\ results = NoResults
<1>1. NumSteps(script) \in Nat
  BY Places
<1>2. Len(steps) \in Nat \ {0} /\ Head(steps) = steps[1]
  BY ScriptTail DEF Control
<1>3. Place \in 1 .. NumSteps(script) /\ Len(steps) = NumSteps(script) + 1 - Place
  BY <1>1, <1>2 DEF Control, Place
<1>4. 1 \in 1 .. Len(steps) /\ Place - 1 + 1 = Place
  BY <1>2, <1>3
<1>5. Head(steps) = Steps(script)[Place]
  BY <1>2, <1>4 DEF Control
<1>6. Placed(script, Place, Head(steps))
  BY <1>3, <1>5, StepsPlaced
<1>7. QED BY <1>3, <1>6 DEF Control

\* A step brings the script to the next place.
LEMMA Advance ==
    ASSUME script \in Scripts, Control, steps # <<>>,
           Head(steps)[1] = "count" \/ pktgen.on \/ AtRest,
           steps' = Tail(steps), UNCHANGED <<script, run>>,
           results' = results \/ Place = NumSteps(script)
    PROVE  Stepped /\ OnScript
<1>1. /\ Place \in 1 .. NumSteps(script) /\ Len(steps) = NumSteps(script) + 1 - Place
      /\ Placed(script, Place, Head(steps)) /\ results = NoResults
  BY NextPlace
<1>2. /\ Script(steps') /\ Len(steps') = Len(steps) - 1
      /\ \A i \in 1 .. Len(steps) - 1 : steps'[i] = steps[i + 1]
  BY ScriptTail DEF Control
<1>3. NumSteps(script) \in Nat
  BY Places
<1>4. Place' = NumSteps(script) + 1 - Len(steps')
  BY DEF Place
<1>5. Place' = Place + 1 /\ Len(steps') \in 0 .. NumSteps(script)
  BY <1>1, <1>2, <1>3, <1>4
<1>6. ASSUME NEW i \in 1 .. Len(steps') PROVE steps'[i] = Steps(script')[Place' - 1 + i]
  <2>1. i + 1 \in 1 .. Len(steps) /\ steps'[i] = steps[i + 1]
    BY <1>1, <1>2, <1>3
  <2>2. Place - 1 + (i + 1) = Place' - 1 + i
    BY <1>1, <1>3, <1>5
  <2>3. steps[i + 1] = Steps(script)[Place - 1 + (i + 1)]
    BY <2>1 DEF Control
  <2>4. QED BY <2>1, <2>2, <2>3
<1>7. ASSUME results' # NoResults PROVE steps' = <<>>
  <2>1. Len(steps') = 0
    BY <1>7, <1>1, <1>2, <1>3
  <2>2. steps' \in Seq(Range(steps'))
    BY <1>2 DEF Script
  <2> DEFINE U == Range(steps')
  <2> HIDE DEF U
  <2>3. steps' \in Seq(U)
    BY <2>2 DEF U
  <2>4. QED BY <2>1, <2>3
<1>8. Control'
  BY <1>2, <1>5, <1>6, <1>7 DEF Control
<1>9. QED BY <1>1, <1>5, <1>8, Places, PlacesInOrder
             DEF Stepped, OnScript, Going, IsEffective

\* A counter no call changes, or one that a call clears.
Untouched(c) == hw'[c] = hw[c] /\ shadow'[c] = shadow[c]

\* A call that clears something.
Clears(sw, name) ==
    /\ pktgen'.on = pktgen.on /\ pktgen'.limited = pktgen.limited
    /\ \A c \in PortCounters : Untouched(c) \/ Zero(c)'
    /\ \A c \in PortCounters \ CountersOf(sw) : Untouched(c)
    /\ name = "port_stat" => \A c \in CountersOf(sw) : Zero(c)'
    /\ name # "port_stat" => \A c \in PortCounters : Untouched(c)
    /\ name = "protected" => hw'["protected"] = 0
    /\ name # "protected" => hw'["protected"] = hw["protected"]
    /\ stale' \subseteq stale
    /\ name \in SenderRegs \cup ReceiverRegs => name \notin stale'

\* What a call to clear something does.
LEMMA Cleared ==
    ASSUME ExptTypeOK, NEW sw \in {"sender", "receiver", "topo"}, NEW name,
           ClearCall(sw, name)
    PROVE  /\ Clears(sw, name)
           /\ pktgen' \in [on : BOOLEAN, limited : BOOLEAN, count : Nat]
           /\ stale' \subseteq SenderRegs \cup ReceiverRegs
           /\ hw' \in [PortCounters \cup {"protected"} -> Nat]
           /\ shadow' \in [PortCounters -> Nat]
<1>1. /\ pktgen \in [on : BOOLEAN, limited : BOOLEAN, count : Nat]
      /\ stale \subseteq SenderRegs \cup ReceiverRegs
      /\ hw \in [PortCounters \cup {"protected"} -> Nat]
      /\ shadow \in [PortCounters -> Nat]
  BY DEF ExptTypeOK
<1>2. /\ CountersOf(sw) \subseteq PortCounters /\ "protected" \notin PortCounters
      /\ "protected" \notin CountersOf(sw)
  BY DEF CountersOf, PortCounters
<1>3. CASE name = "port_stat" /\ ClearPorts(sw) /\ UNCHANGED <<pktgen, stale>>
  <2>1. /\ hw' = [c \in PortCounters \cup {"protected"} |->
                    IF c \in CountersOf(sw) THEN 0 ELSE hw[c]]
        /\ shadow' = [c \in PortCounters |-> IF c \in CountersOf(sw) THEN 0 ELSE shadow[c]]
    BY <1>1, <1>3 DEF ClearPorts
  <2>2. /\ hw' \in [PortCounters \cup {"protected"} -> Nat]
        /\ shadow' \in [PortCounters -> Nat]
    BY <2>1, <1>1
  <2>3. /\ \A c \in CountersOf(sw) : Zero(c)'
        /\ \A c \in PortCounters \ CountersOf(sw) : Untouched(c)
        /\ hw'["protected"] = hw["protected"]
    BY <2>1, <1>2 DEF Zero, Untouched
  <2>4. "port_stat" \notin SenderRegs \cup ReceiverRegs
    BY DEF SenderRegs, ReceiverRegs
  <2>5. QED BY <1>1, <1>3, <2>2, <2>3, <2>4 DEF Clears
<1>4. CASE /\ name = "reg_pktgen_cntr" /\ pktgen' = [pktgen EXCEPT !.count = 0]
           /\ UNCHANGED <<hw, shadow, stale>>
  BY <1>1, <1>4 DEF Clears, Untouched, SenderRegs, ReceiverRegs
<1>5. CASE /\ name = "protected" /\ hw' = [hw EXCEPT !["protected"] = 0]
           /\ UNCHANGED <<pktgen, shadow, stale>>
  BY <1>1, <1>2, <1>5 DEF Clears, Untouched, SenderRegs, ReceiverRegs
<1>6. CASE /\ name \in SenderRegs \cup ReceiverRegs /\ stale' = stale \ {name}
           /\ UNCHANGED <<pktgen, hw, shadow>>
  BY <1>1, <1>6 DEF Clears, Untouched, SenderRegs, ReceiverRegs
<1>7. QED BY <1>3, <1>4, <1>5, <1>6 DEF ClearCall

\* A script that ends with nothing written is behind nothing.
LEMMA EndsKeep ==
    ASSUME ExptInv, steps # <<>>, steps' = <<>>,
           UNCHANGED <<script, run, values, results, remote, switchVars, pollVars>>,
           disturbed' \subseteq disturbed \cup {"interrupted"}
    PROVE  ExptInv'
<1>1. ExptTypeOK /\ Control /\ PollInv
  BY DEF ExptInv
<1>2. results = NoResults /\ results' = NoResults
  BY <1>1 DEF Control
<1>3. ~Going'
  BY <1>2 DEF Going
<1>4. ExptTypeOK'
  BY <1>1 DEF ExptTypeOK, switchVars
<1>5. Control'
  <2>1. steps' \in Seq({}) /\ Len(steps') = 0
    OBVIOUS
  <2>2. Script(steps')
    BY <2>1, SeqIsScript
  <2>3. NumSteps(script') \in Nat
    BY <1>1, Places DEF ExptTypeOK
  <2>4. QED BY <1>2, <2>1, <2>2, <2>3 DEF Control
<1>6. PollInv'
  BY <1>1, <1>3 DEF PollInv, pollVars
<1>7. QED BY <1>2, <1>3, <1>4, <1>5, <1>6
       DEF ExptInv, TrafficInv, CleanInv, RemoteInv, CountInv, ValuesInv, ResultsInv, MeasuredLosses

\* A value is read and the script goes on.
Reads(name, value) ==
    /\ Step(name)
    /\ values' = [c \in DOMAIN values \cup {name} |->
                    IF c = name THEN value ELSE values[c]]
    /\ UNCHANGED <<disturbed, results, remote, switchVars, pollVars>>

\* Ctrl-C where it is caught.
CountBreaksOff ==
    /\ steps # <<>> /\ Head(steps)[1] = "count" /\ IsEffective
    /\ steps' = Tail(steps)
    /\ disturbed' = disturbed \cup {"interrupted"}
    /\ UNCHANGED <<script, run, values, results, remote, switchVars, pollVars>>
\* A step of anybody else.
Stays ==
    /\ script' = script /\ run' = run /\ steps' = steps /\ disturbed' = disturbed
    /\ values' = values /\ results' = results
    /\ Place \in Int /\ Place' = Place /\ Placing(script) /\ Control'
    /\ (Going' <=> Going) /\ InOrder /\ KeepsBut({}) /\ script \in Scripts
    /\ (IsEffective' <=> IsEffective)
    /\ results # NoResults => Going /\ Past("limit")

\* The steps of others leave the script where it is.
LEMMA StaysPut ==
    ASSUME script \in Scripts, Control, UNCHANGED runVars
    PROVE  Stays
<1>1. NumSteps(script) \in Nat /\ Placing(script)
  BY Places
<1>2. Len(steps) \in 0 .. NumSteps(script)
  BY <1>1 DEF Control
<1>3. Place' = Place
  BY DEF Place, runVars
<1>4. Place \in Int
  BY <1>1, <1>2 DEF Place
<1>5. Control'
  BY <1>3 DEF Control, runVars
<1>6. InOrder
  BY <1>1, <1>4, PlacesInOrder
<1>7. KeepsBut({})
  BY <1>3 DEF KeepsBut, Same, Past, runVars
<1>8. ASSUME results # NoResults PROVE Going /\ Past("limit")
  <2>1. Len(steps) = 0
    BY <1>8 DEF Control
  <2>2. Place = NumSteps(script) + 1
    BY <2>1, <1>1 DEF Place
  <2>3. Past("limit")
    BY <2>2, <1>1 DEF Past, Placing
  <2>4. QED BY <2>3, <1>8 DEF Going
<1>9. QED BY <1>1, <1>3, <1>4, <1>5, <1>6, <1>7, <1>8 DEF Stays, runVars, Going, IsEffective

\* The generator is off behind the last stop_traffic.
LEMMA StopTrafficKeeps ==
    ASSUME ExptInv, StopTraffic
    PROVE  ExptInv'
<1>1. /\ ExptTypeOK /\ Control /\ TrafficInv /\ CleanInv /\ RemoteInv
      /\ CountInv /\ ValuesInv /\ PollInv /\ ResultsInv
  BY DEF ExptInv
<1>2. Stepped /\ OnScript /\ Head(steps)[1] = "stop_traffic"
  BY <1>1, Advance DEF ExptTypeOK, StopTraffic, Step
<1>3. ExptTypeOK'
  BY <1>1, <1>2 DEF ExptTypeOK, StopTraffic, Stepped, pollVars, switchVars
<1>4. /\ pktgen'.on = FALSE /\ pktgen'.limited = pktgen.limited
      /\ UNCHANGED <<disturbed, values, remote, entry, stale, hw,
                      shadow, link, pollers, client, stopEvent, threads, results>>
  BY <1>1, <1>2 DEF ExptTypeOK, StopTraffic, pollVars, switchVars
<1>5. IF script.name = "effective"
      THEN Place = 1 \/ Place = 7 \/ Place = 20 + 2 * Buffs(script)
      ELSE Place = 1 \/ Place = 9
  BY <1>2 DEF Stepped, OnScript, Placing, Placed
<1>6. KeepsBut({"halt", "stop_traffic"})
  BY <1>2, <1>5 DEF Stepped, Placing, KeepsBut, Same, Past, IsEffective
<1>7. TrafficInv'
  BY <1>1, <1>2, <1>4, <1>6 DEF Stepped, KeepsBut, Same, InOrder, TrafficInv, AtRest
<1>8. CleanInv'
  BY <1>1, <1>2, <1>4, <1>6 DEF Stepped, KeepsBut, Same, InOrder, CleanInv, Unconfirmed,
     Pending, Zero
<1>9. RemoteInv'
  BY <1>1, <1>2, <1>4, <1>6 DEF Stepped, KeepsBut, Same, InOrder, RemoteInv
<1>10. CountInv'
  BY <1>1, <1>2, <1>4, <1>6 DEF Stepped, KeepsBut, Same, InOrder, CountInv, Unconfirmed,
     ReceivedCounter, MeasuredLosses, ForwardedCounter
<1>11. ValuesInv'
  BY <1>1, <1>2, <1>4, <1>6
     DEF Stepped, KeepsBut, Same, InOrder, ValuesInv, ReceivedCounter, MeasuredLosses, ForwardedCounter
<1>12. PollInv'
  BY <1>1, <1>2, <1>4, <1>6 DEF Stepped, KeepsBut, Same, InOrder, PollInv, CountingSwitch
<1>13. ResultsInv'
  BY <1>1, <1>2, <1>4, <1>6 DEF Stepped, KeepsBut, Same, InOrder, ResultsInv, MeasuredLosses, Unconfirmed,
     OnScript
<1>14. QED BY <1>2, <1>3, <1>7, <1>8, <1>9, <1>10, <1>11, <1>12, <1>13 DEF ExptInv, OnScript

\* The counters that are zero agree with a link on which nothing was sent.
LEMMA StartTrafficKeeps ==
    ASSUME ExptInv, StartTraffic
    PROVE  ExptInv'
<1>1. /\ ExptTypeOK /\ Control /\ TrafficInv /\ CleanInv /\ RemoteInv
      /\ CountInv /\ ValuesInv /\ PollInv /\ ResultsInv
  BY DEF ExptInv
<1>2. Stepped /\ OnScript /\ Head(steps)[1] = "start_traffic"
  BY <1>1, Advance DEF ExptTypeOK, StartTraffic, Step
<1>3. ExptTypeOK'
  BY <1>1, <1>2 DEF ExptTypeOK, StartTraffic, Stepped, pollVars, switchVars
<1>4. /\ pktgen'.on = TRUE /\ pktgen'.limited = pktgen.limited
      /\ link'.flight = 0 /\ link'.retx = 0 /\ link'.lost = 0
      /\ link'.dropped = 0 /\ link'.unrecovered = 0
      /\ UNCHANGED <<disturbed, values, remote, entry, stale, hw,
                      shadow, pollers, client, stopEvent, threads, results>>
  BY <1>1, <1>2 DEF ExptTypeOK, StartTraffic, pollVars, switchVars
<1>5. IF script.name = "effective"
      THEN Place = 16
      ELSE Place = 7
  BY <1>2 DEF Stepped, OnScript, Placing, Placed
<1>6. /\ KeepsBut({"start_traffic"})
      /\ Past("start_traffic")' /\ ~Past("start_traffic")
      /\ IF IsEffective THEN Past("settle") ELSE Past("input")
  BY <1>2, <1>5 DEF Stepped, Placing, KeepsBut, Same, Past, IsEffective
<1>7. /\ hw["tx"] = 0 /\ (~IsEffective => Zero("rx") /\ Zero("rxFilter"))
      /\ IsEffective /\ ~Unconfirmed => /\ Zero("rx") /\ Zero("rxFilter")
                                        /\ Zero("forwarded") /\ Zero("deduped")
                                        /\ hw["protected"] = 0
  <2>1. "rx" \in CountersOf("receiver") /\ "rxFilter" \in CountersOf("receiver")
        /\ "forwarded" \in CountersOf("receiver")
    BY DEF CountersOf
  <2>2. IsEffective => /\ ~Pending("receiver", "port_stat")
                       /\ ~Pending("topo", "port_stat")
    BY <1>1, <1>2, <1>6, NothingPending DEF RemoteInv, Stepped, InOrder
  <2>3. QED BY <2>1, <2>2, <1>1, <1>2, <1>6 DEF CleanInv, Stepped, InOrder, Zero
<1>8. TrafficInv'
  BY <1>1, <1>2, <1>4, <1>6, <1>7 DEF Stepped, KeepsBut, Same, InOrder, TrafficInv, AtRest
<1>9. CleanInv'
  BY <1>1, <1>2, <1>4, <1>6, <1>7
     DEF Stepped, KeepsBut, Same, InOrder, CleanInv, Unconfirmed, Pending, Zero
<1>10. RemoteInv'
  BY <1>1, <1>2, <1>4, <1>6, <1>7 DEF Stepped, KeepsBut, Same, InOrder, RemoteInv
<1>11. CountInv'
  BY <1>1, <1>2, <1>4, <1>6, <1>7
     DEF Stepped, CountInv, Zero, Unconfirmed, IsEffective, ReceivedCounter, MeasuredLosses,
         ForwardedCounter
<1>12. ValuesInv'
  BY <1>1, <1>2, <1>4, <1>6, <1>7
     DEF Stepped, KeepsBut, Same, InOrder, ValuesInv, ReceivedCounter, MeasuredLosses, ForwardedCounter
<1>13. PollInv'
  BY <1>1, <1>2, <1>4, <1>6, <1>7
     DEF Stepped, KeepsBut, Same, InOrder, PollInv, CountingSwitch
<1>14. ResultsInv'
  BY <1>1, <1>2, <1>4, <1>6, <1>7
     DEF Stepped, KeepsBut, Same, InOrder, ResultsInv, MeasuredLosses, Unconfirmed, OnScript
<1>15. QED BY <1>2, <1>3, <1>8, <1>9, <1>10, <1>11, <1>12, <1>13, <1>14
              DEF ExptInv, OnScript

\* After a pause the shadows are exact and no call is left to make.
LEMMA SleepKeeps ==
    ASSUME ExptInv, Sleep
    PROVE  ExptInv'
<1>1. /\ ExptTypeOK /\ Control /\ TrafficInv /\ CleanInv /\ RemoteInv
      /\ CountInv /\ ValuesInv /\ PollInv /\ ResultsInv
  BY DEF ExptInv
<1>2. Stepped /\ OnScript /\ Head(steps)[1] = "sleep"
  BY <1>1, Advance DEF ExptTypeOK, Sleep, Step
<1>3. ExptTypeOK'
  BY <1>1, <1>2 DEF ExptTypeOK, Sleep, Stepped, pollVars, switchVars
<1>4. /\ remote["receiver"] = <<>> /\ remote["topo"] = <<>>
      /\ \A c \in PortCounters : shadow[c] = hw[c]
      /\ \A r \in 1 .. MaxRuns : pollers[r].state # "stopping"
      /\ UNCHANGED <<disturbed, values, remote, pktgen, entry, stale, hw,
                      shadow, link, pollers, client, stopEvent, threads, results>>
  BY <1>1, <1>2 DEF ExptTypeOK, Sleep, pollVars, switchVars, PollInv, Pollers
<1>5. IF script.name = "effective"
      THEN Place = 15 \/ Place = 21 + 2 * Buffs(script)
      ELSE Place = 10
  BY <1>2 DEF Stepped, OnScript, Placing, Placed
<1>6. /\ KeepsBut({"settle", "sleep"})
      /\ IsEffective => \/ Past("topo") /\ ~Past("start_traffic") /\ ~Past("sleep")'
                        \/ Past("stop_traffic") /\ ~Past("sleep")
      /\ ~IsEffective => Past("stop_traffic")
  BY <1>2, <1>5 DEF Stepped, Placing, KeepsBut, Same, Past, IsEffective
<1>7. TrafficInv'
  BY <1>1, <1>2, <1>4, <1>6
     DEF Stepped, KeepsBut, Same, InOrder, TrafficInv, AtRest, OnScript
<1>8. CleanInv'
  BY <1>1, <1>2, <1>4, <1>6 DEF Stepped, KeepsBut, Same, InOrder, CleanInv, Unconfirmed,
     Pending, Zero
<1>9. RemoteInv'
  BY <1>1, <1>2, <1>4, <1>6 DEF Stepped, KeepsBut, Same, InOrder, RemoteInv
<1>10. CountInv'
  BY <1>1, <1>2, <1>4, <1>6 DEF Stepped, KeepsBut, Same, InOrder, CountInv, Unconfirmed,
     ReceivedCounter, MeasuredLosses, ForwardedCounter
<1>11. ValuesInv'
  BY <1>1, <1>2, <1>4, <1>6
     DEF Stepped, KeepsBut, Same, InOrder, ValuesInv, ReceivedCounter, MeasuredLosses, ForwardedCounter
<1>12. PollInv'
  <2>1. run \in 1 .. MaxRuns
    BY <1>1, <1>2 DEF ExptTypeOK, PollInv, Stepped
  <2>2. QED BY <2>1, <1>1, <1>2, <1>4, <1>6
               DEF Stepped, KeepsBut, Same, InOrder, PollInv, CountingSwitch
<1>13. ResultsInv'
  BY <1>1, <1>2, <1>4, <1>6 DEF Stepped, KeepsBut, Same, InOrder, ResultsInv, MeasuredLosses, Unconfirmed,
     OnScript
<1>14. QED BY <1>2, <1>3, <1>7, <1>8, <1>9, <1>10, <1>11, <1>12, <1>13 DEF ExptInv, OnScript

\* limit_trafficgen and unlimit_trafficgen.
LEMMA LimitKeeps ==
    ASSUME ExptInv, Limit
    PROVE  ExptInv'
<1>1. /\ ExptTypeOK /\ Control /\ TrafficInv /\ CleanInv /\ RemoteInv
      /\ CountInv /\ ValuesInv /\ PollInv /\ ResultsInv
  BY DEF ExptInv
<1>2. Stepped /\ OnScript /\ (Head(steps)[1] = "limit" \/ Head(steps)[1] = "unlimit")
  BY <1>1, Advance DEF ExptTypeOK, Limit, Step
<1>3. ExptTypeOK'
  BY <1>1, <1>2 DEF ExptTypeOK, Limit, Stepped, pollVars, switchVars
<1>4. /\ pktgen'.on = pktgen.on
      /\ pktgen'.limited = (Head(steps)[1] = "limit")
      /\ UNCHANGED <<disturbed, values, remote, entry, stale, hw,
                      shadow, link, pollers, client, stopEvent, threads, results>>
  BY <1>1, <1>2 DEF ExptTypeOK, Limit, pollVars, switchVars
<1>5. IF script.name = "effective"
      THEN Place = 2 \/ (Place = 26 + 2 * Buffs(script) /\ Head(steps)[1] = "limit")
      ELSE Place = 3 \/ (Place = 13 /\ Head(steps)[1] = "limit")
  BY <1>2 DEF Stepped, OnScript, Placing, Placed
<1>6. /\ KeepsBut({"drain", "limit"})
      /\ Past("halt") /\ (~IsEffective => Past("drain"))
      /\ Past("limit")' => Head(steps)[1] = "limit"
  BY <1>2, <1>5 DEF Stepped, Placing, KeepsBut, Same, Past, IsEffective
<1>7. TrafficInv'
  BY <1>1, <1>2, <1>4, <1>6
     DEF Stepped, KeepsBut, Same, InOrder, TrafficInv, AtRest, OnScript
<1>8. CleanInv'
  BY <1>1, <1>2, <1>4, <1>6 DEF Stepped, KeepsBut, Same, InOrder, CleanInv, Unconfirmed,
     Pending, Zero
<1>9. RemoteInv'
  BY <1>1, <1>2, <1>4, <1>6 DEF Stepped, KeepsBut, Same, InOrder, RemoteInv
<1>10. CountInv'
  BY <1>1, <1>2, <1>4, <1>6 DEF Stepped, KeepsBut, Same, InOrder, CountInv, Unconfirmed,
     ReceivedCounter, MeasuredLosses, ForwardedCounter
<1>11. ValuesInv'
  BY <1>1, <1>2, <1>4, <1>6
     DEF Stepped, KeepsBut, Same, InOrder, ValuesInv, ReceivedCounter, MeasuredLosses, ForwardedCounter
<1>12. PollInv'
  BY <1>1, <1>2, <1>4, <1>6 DEF Stepped, KeepsBut, Same, InOrder, PollInv, CountingSwitch
<1>13. ResultsInv'
  BY <1>1, <1>2, <1>4, <1>6 DEF Stepped, KeepsBut, Same, InOrder, ResultsInv, MeasuredLosses, Unconfirmed,
     OnScript
<1>14. QED BY <1>2, <1>3, <1>7, <1>8, <1>9, <1>10, <1>11, <1>12, <1>13 DEF ExptInv, OnScript

\* disable_protection and enable_protection.
LEMMA ProtectKeeps ==
    ASSUME ExptInv, Protect
    PROVE  ExptInv'
<1>1. /\ ExptTypeOK /\ Control /\ TrafficInv /\ CleanInv /\ RemoteInv
      /\ CountInv /\ ValuesInv /\ PollInv /\ ResultsInv
  BY DEF ExptInv
<1>2. Stepped /\ OnScript /\ (Head(steps)[1] = "disable" \/ Head(steps)[1] = "enable")
  BY <1>1, Advance DEF ExptTypeOK, Protect, Step
<1>3. ExptTypeOK'
  BY <1>1, <1>2 DEF ExptTypeOK, Protect, Stepped, pollVars, switchVars, Placing
<1>4. /\ (entry' = IF Head(steps)[1] = "enable" THEN script.mode ELSE Unset)
      /\ UNCHANGED <<disturbed, values, remote, pktgen, stale, hw,
                      shadow, link, pollers, client, stopEvent, threads, results>>
  BY <1>1, <1>2 DEF ExptTypeOK, Protect, pollVars, switchVars
<1>5. IF script.name = "effective"
      THEN Place = 4 \/ (Place = 5 /\ Head(steps)[1] = "enable")
      ELSE Place = 2 /\ Head(steps)[1] = "disable"
  BY <1>2 DEF Stepped, OnScript, Placing, Placed
<1>6. /\ KeepsBut({"enable", "disable", "drain"})
      /\ Past("halt") /\ ~Past("start_traffic") /\ ~Past("limit")
      /\ IsEffective => Past("drain") /\ (Past("enable")' => Head(steps)[1] = "enable")
      /\ ~IsEffective => Head(steps)[1] = "disable"
  BY <1>2, <1>5 DEF Stepped, Placing, KeepsBut, Same, Past, IsEffective
<1>7. TrafficInv'
  BY <1>1, <1>2, <1>4, <1>6
     DEF Stepped, KeepsBut, Same, InOrder, TrafficInv, AtRest, OnScript
<1>8. CleanInv'
  BY <1>1, <1>2, <1>4, <1>6 DEF Stepped, KeepsBut, Same, InOrder, CleanInv, Unconfirmed,
     Pending, Zero
<1>9. RemoteInv'
  BY <1>1, <1>2, <1>4, <1>6 DEF Stepped, KeepsBut, Same, InOrder, RemoteInv
<1>10. CountInv'
  BY <1>1, <1>2, <1>4, <1>6 DEF Stepped, KeepsBut, Same, InOrder, CountInv, Unconfirmed,
     ReceivedCounter, MeasuredLosses, ForwardedCounter
<1>11. ValuesInv'
  BY <1>1, <1>2, <1>4, <1>6
     DEF Stepped, KeepsBut, Same, InOrder, ValuesInv, ReceivedCounter, MeasuredLosses, ForwardedCounter
<1>12. PollInv'
  BY <1>1, <1>2, <1>4, <1>6 DEF Stepped, KeepsBut, Same, InOrder, PollInv, CountingSwitch
<1>13. ResultsInv'
  BY <1>1, <1>2, <1>4, <1>6 DEF Stepped, KeepsBut, Same, InOrder, ResultsInv, MeasuredLosses, Unconfirmed,
     OnScript
<1>14. QED BY <1>2, <1>3, <1>7, <1>8, <1>9, <1>10, <1>11, <1>12, <1>13 DEF ExptInv, OnScript

\* The operator has cleared the receiver's counters.
LEMMA InputKeeps ==
    ASSUME ExptInv, Input
    PROVE  ExptInv'
<1>1. /\ ExptTypeOK /\ Control /\ TrafficInv /\ CleanInv /\ RemoteInv
      /\ CountInv /\ ValuesInv /\ PollInv /\ ResultsInv
  BY DEF ExptInv
<1>2. Stepped /\ OnScript /\ Head(steps)[1] = "input"
  BY <1>1, Advance DEF ExptTypeOK, Input, Step
<1>3. ExptTypeOK'
  BY <1>1, <1>2 DEF ExptTypeOK, Input, Stepped, pollVars, switchVars, ClearPorts
<1>4. /\ remote["receiver"] = <<>> /\ hw'["tx"] = hw["tx"] /\ shadow'["tx"] = shadow["tx"]
      /\ \A c \in CountersOf("receiver") : hw'[c] = 0 /\ shadow'[c] = 0
      /\ UNCHANGED <<disturbed, values, remote, pktgen, entry, stale,
                      link, pollers, client, stopEvent, threads, results>>
  BY <1>1, <1>2 DEF ExptTypeOK, Input, pollVars, switchVars, ClearPorts, CountersOf,
     PortCounters
<1>5. script.name # "effective" /\ Place = 6
  BY <1>2 DEF Stepped, OnScript, Placing, Placed
<1>6. /\ KeepsBut({"input"})
      /\ Past("input")' /\ ~Past("input")
      /\ ~IsEffective
      /\ ~Past("start_traffic") /\ Past("port_stat") /\ Past("drain")
  BY <1>2, <1>5 DEF Stepped, Placing, KeepsBut, Same, Past, IsEffective
<1>7. TrafficInv'
  BY <1>1, <1>2, <1>4, <1>6 DEF Stepped, KeepsBut, Same, InOrder, TrafficInv, AtRest
<1>8. CleanInv'
  BY <1>1, <1>2, <1>4, <1>6 DEF Stepped, KeepsBut, Same, InOrder, CleanInv, Zero
<1>9. RemoteInv'
  BY <1>1, <1>2, <1>4, <1>6 DEF Stepped, KeepsBut, Same, InOrder, RemoteInv
<1>10. CountInv'
  BY <1>1, <1>2, <1>4, <1>6 DEF Stepped, KeepsBut, Same, InOrder, CountInv, Unconfirmed,
     ReceivedCounter, MeasuredLosses, ForwardedCounter
<1>11. ValuesInv'
  BY <1>1, <1>2, <1>4, <1>6
     DEF Stepped, KeepsBut, Same, InOrder, ValuesInv, ReceivedCounter, MeasuredLosses, ForwardedCounter
<1>12. PollInv'
  BY <1>1, <1>2, <1>4, <1>6 DEF Stepped, KeepsBut, Same, InOrder, PollInv, CountingSwitch
<1>13. ResultsInv'
  BY <1>1, <1>2, <1>4, <1>6 DEF Stepped, KeepsBut, Same, InOrder, ResultsInv, MeasuredLosses, Unconfirmed,
     OnScript
<1>14. QED BY <1>2, <1>3, <1>7, <1>8, <1>9, <1>10, <1>11, <1>12, <1>13 DEF ExptInv, OnScript

\* The poller that is asked for is the one of this run.
LEMMA StartPollerKeeps ==
    ASSUME ExptInv, StartPoller
    PROVE  ExptInv'
<1>1. /\ ExptTypeOK /\ Control /\ TrafficInv /\ CleanInv /\ RemoteInv
      /\ CountInv /\ ValuesInv /\ PollInv /\ ResultsInv
  BY DEF ExptInv
<1>2. Stepped /\ OnScript /\ Head(steps)[1] = "start_poller"
  BY <1>1, Advance DEF ExptTypeOK, StartPoller, Step
<1>3. ExptTypeOK'
  BY <1>1, <1>2 DEF ExptTypeOK, StartPoller, Stepped, pollVars, switchVars
<1>4. /\ \A r \in 1 .. MaxRuns : r # run => pollers'[r] = pollers[r]
      /\ pollers'[run].state = "requested" /\ pollers'[run].at = CountingSwitch
      /\ pollers' \in Pollers
      /\ UNCHANGED <<disturbed, values, remote, pktgen, entry, stale,
                      hw, shadow, link, client, stopEvent, threads, results>>
  <2>1. run \in 1 .. MaxRuns
    BY <1>1, <1>2 DEF ExptTypeOK, PollInv, Stepped
  <2>2. pollers \in Pollers
    BY <1>1 DEF PollInv
  <2>3. CountingSwitch \in {"receiver", "topo"}
    BY DEF CountingSwitch
  <2>4. /\ \A r \in 1 .. MaxRuns : r # run => pollers'[r] = pollers[r]
        /\ pollers'[run].state = "requested" /\ pollers'[run].at = CountingSwitch
    BY <2>1, <2>2 DEF StartPoller, Pollers
  <2>5. pollers' \in Pollers
    BY <2>1, <2>2, <2>3 DEF StartPoller, Pollers, PollerStates
  <2>6. QED BY <2>4, <2>5 DEF StartPoller, switchVars
<1>5. script.name = "effective" /\ Place = 17
  BY <1>2 DEF Stepped, OnScript, Placing, Placed
<1>6. /\ KeepsBut({"start_poller"})
      /\ Past("start_poller")' /\ ~Past("start_poller")
      /\ IsEffective
      /\ ~Past("count") /\ ~Past("stop_poller") /\ ~Past("sleep")
  BY <1>2, <1>5 DEF Stepped, Placing, KeepsBut, Same, Past, IsEffective
<1>7. TrafficInv'
  BY <1>1, <1>2, <1>4, <1>6 DEF Stepped, KeepsBut, Same, InOrder, TrafficInv, AtRest
<1>8. CleanInv'
  BY <1>1, <1>2, <1>4, <1>6 DEF Stepped, KeepsBut, Same, InOrder, CleanInv, Unconfirmed,
     Pending, Zero
<1>9. RemoteInv'
  BY <1>1, <1>2, <1>4, <1>6 DEF Stepped, KeepsBut, Same, InOrder, RemoteInv
<1>10. CountInv'
  BY <1>1, <1>2, <1>4, <1>6 DEF Stepped, KeepsBut, Same, InOrder, CountInv, Unconfirmed,
     ReceivedCounter, MeasuredLosses, ForwardedCounter
<1>11. ValuesInv'
  BY <1>1, <1>2, <1>4, <1>6
     DEF Stepped, KeepsBut, Same, InOrder, ValuesInv, ReceivedCounter, MeasuredLosses, ForwardedCounter
<1>12. PollInv'
  <2>1. run \in 1 .. MaxRuns
    BY <1>1, <1>2 DEF ExptTypeOK, PollInv, Stepped
  <2>2. QED BY <2>1, <1>1, <1>2, <1>4, <1>6
               DEF Stepped, KeepsBut, Same, InOrder, PollInv, CountingSwitch
<1>13. ResultsInv'
  BY <1>1, <1>2, <1>4, <1>6 DEF Stepped, KeepsBut, Same, InOrder, ResultsInv, MeasuredLosses, Unconfirmed,
     OnScript
<1>14. QED BY <1>2, <1>3, <1>7, <1>8, <1>9, <1>10, <1>11, <1>12, <1>13 DEF ExptInv, OnScript

\* The thread is the one of this run.
LEMMA StartThreadKeeps ==
    ASSUME ExptInv, StartThread
    PROVE  ExptInv'
<1>1. /\ ExptTypeOK /\ Control /\ TrafficInv /\ CleanInv /\ RemoteInv
      /\ CountInv /\ ValuesInv /\ PollInv /\ ResultsInv
  BY DEF ExptInv
<1>2. Stepped /\ OnScript /\ Head(steps)[1] = "start_thread"
  BY <1>1, Advance DEF ExptTypeOK, StartThread, Step
<1>3. ExptTypeOK'
  BY <1>1, <1>2 DEF ExptTypeOK, StartThread, Stepped, pollVars, switchVars
<1>4. /\ threads' = threads \cup {run}
      /\ UNCHANGED <<disturbed, values, remote, pktgen, entry, stale,
                      hw, shadow, link, pollers, client, results>>
  BY <1>1, <1>2 DEF ExptTypeOK, StartThread, pollVars, switchVars
<1>5. script.name = "effective" /\ script.buffs /\ Buffs(script) = 1 /\ Place = 18
  BY <1>2 DEF Stepped, OnScript, Placing, Placed
<1>6. /\ KeepsBut({})
      /\ IsEffective
      /\ script.buffs /\ Past("start_poller") /\ ~Past("count") /\ ~Past("stop_thread")
  BY <1>2, <1>5 DEF Stepped, Placing, KeepsBut, Same, Past, IsEffective
<1>7. TrafficInv'
  BY <1>1, <1>2, <1>4, <1>6 DEF Stepped, KeepsBut, Same, InOrder, TrafficInv, AtRest
<1>8. CleanInv'
  BY <1>1, <1>2, <1>4, <1>6 DEF Stepped, KeepsBut, Same, InOrder, CleanInv, Unconfirmed,
     Pending, Zero
<1>9. RemoteInv'
  BY <1>1, <1>2, <1>4, <1>6 DEF Stepped, KeepsBut, Same, InOrder, RemoteInv
<1>10. CountInv'
  BY <1>1, <1>2, <1>4, <1>6 DEF Stepped, KeepsBut, Same, InOrder, CountInv, Unconfirmed,
     ReceivedCounter, MeasuredLosses, ForwardedCounter
<1>11. ValuesInv'
  BY <1>1, <1>2, <1>4, <1>6
     DEF Stepped, KeepsBut, Same, InOrder, ValuesInv, ReceivedCounter, MeasuredLosses, ForwardedCounter
<1>12. PollInv'
  <2>1. run \in 1 .. run
    BY <1>1, <1>2 DEF ExptTypeOK, PollInv, Stepped
  <2>2. \A r \in threads' : r \in 1 .. run
    BY <2>1, <1>1, <1>4 DEF PollInv
  <2>3. QED BY <2>2, <1>1, <1>2, <1>4, <1>6
               DEF Stepped, KeepsBut, Same, InOrder, PollInv, CountingSwitch
<1>13. ResultsInv'
  BY <1>1, <1>2, <1>4, <1>6 DEF Stepped, KeepsBut, Same, InOrder, ResultsInv, MeasuredLosses, Unconfirmed,
     OnScript
<1>14. QED BY <1>2, <1>3, <1>7, <1>8, <1>9, <1>10, <1>11, <1>12, <1>13 DEF ExptInv, OnScript

\* The counting ends when the poller runs.
LEMMA CountKeeps ==
    ASSUME ExptInv, Count
    PROVE  ExptInv'
<1>1. /\ ExptTypeOK /\ Control /\ TrafficInv /\ CleanInv /\ RemoteInv
      /\ CountInv /\ ValuesInv /\ PollInv /\ ResultsInv
  BY DEF ExptInv
<1>2. Stepped /\ OnScript /\ Head(steps)[1] = "count"
  BY <1>1, Advance DEF ExptTypeOK, Count, Step
<1>3. ExptTypeOK'
  BY <1>1, <1>2 DEF ExptTypeOK, Count, Stepped, pollVars, switchVars
<1>4. /\ pollers[run].state # "requested"
      /\ UNCHANGED <<disturbed, values, remote, pktgen, entry, stale, hw,
                      shadow, link, pollers, client, stopEvent, threads, results>>
  BY <1>1, <1>2 DEF ExptTypeOK, Count, pollVars, switchVars
<1>5. IF script.name = "effective"
      THEN Place = 18 + Buffs(script)
      ELSE Place = 8
  BY <1>2 DEF Stepped, OnScript, Placing, Placed
<1>6. /\ KeepsBut({"count", "stop_thread"})
      /\ IsEffective => ~Past("stop_poller") /\ ~Past("sleep")
  BY <1>2, <1>5 DEF Stepped, Placing, KeepsBut, Same, Past, IsEffective
<1>7. IsEffective /\ script.buffs => Same("stop_thread")
  BY <1>2, <1>5 DEF Stepped, Placing, Same, Past, IsEffective
<1>8. TrafficInv'
  BY <1>1, <1>2, <1>4, <1>6, <1>7 DEF Stepped, KeepsBut, Same, InOrder, TrafficInv, AtRest
<1>9. CleanInv'
  BY <1>1, <1>2, <1>4, <1>6, <1>7
     DEF Stepped, KeepsBut, Same, InOrder, CleanInv, Unconfirmed, Pending, Zero
<1>10. RemoteInv'
  BY <1>1, <1>2, <1>4, <1>6, <1>7 DEF Stepped, KeepsBut, Same, InOrder, RemoteInv
<1>11. CountInv'
  BY <1>1, <1>2, <1>4, <1>6, <1>7
     DEF Stepped, KeepsBut, Same, InOrder, CountInv, Unconfirmed, ReceivedCounter, MeasuredLosses,
     ForwardedCounter
<1>12. ValuesInv'
  BY <1>1, <1>2, <1>4, <1>6, <1>7
     DEF Stepped, KeepsBut, Same, InOrder, ValuesInv, ReceivedCounter, MeasuredLosses, ForwardedCounter
<1>13. PollInv'
  BY <1>1, <1>2, <1>4, <1>6, <1>7
     DEF Stepped, KeepsBut, Same, InOrder, PollInv, CountingSwitch
<1>14. ResultsInv'
  BY <1>1, <1>2, <1>4, <1>6, <1>7
     DEF Stepped, KeepsBut, Same, InOrder, ResultsInv, MeasuredLosses, Unconfirmed, OnScript
<1>15. QED BY <1>2, <1>3, <1>8, <1>9, <1>10, <1>11, <1>12, <1>13, <1>14
              DEF ExptInv, OnScript

\* The thread of this run is gone.
LEMMA JoinKeeps ==
    ASSUME ExptInv, Join
    PROVE  ExptInv'
<1>1. /\ ExptTypeOK /\ Control /\ TrafficInv /\ CleanInv /\ RemoteInv
      /\ CountInv /\ ValuesInv /\ PollInv /\ ResultsInv
  BY DEF ExptInv
<1>2. Stepped /\ OnScript /\ Head(steps)[1] = "stop_thread"
  BY <1>1, Advance DEF ExptTypeOK, Join, Step
<1>3. ExptTypeOK'
  BY <1>1, <1>2 DEF ExptTypeOK, Join, Stepped, pollVars, switchVars
<1>4. /\ run \notin threads
      /\ UNCHANGED <<disturbed, values, remote, pktgen, entry, stale, hw,
                      shadow, link, pollers, client, stopEvent, threads, results>>
  BY <1>1, <1>2 DEF ExptTypeOK, Join, pollVars, switchVars, Joined
<1>5. script.name = "effective" /\ script.buffs /\ Buffs(script) = 1 /\ Place = 20
  BY <1>2 DEF Stepped, OnScript, Placing, Placed
<1>6. /\ KeepsBut({"stop_thread"})
      /\ Past("stop_thread")' /\ ~Past("stop_thread")
      /\ IsEffective
  BY <1>2, <1>5 DEF Stepped, Placing, KeepsBut, Same, Past, IsEffective
<1>7. TrafficInv'
  BY <1>1, <1>2, <1>4, <1>6 DEF Stepped, KeepsBut, Same, InOrder, TrafficInv, AtRest
<1>8. CleanInv'
  BY <1>1, <1>2, <1>4, <1>6 DEF Stepped, KeepsBut, Same, InOrder, CleanInv, Unconfirmed,
     Pending, Zero
<1>9. RemoteInv'
  BY <1>1, <1>2, <1>4, <1>6 DEF Stepped, KeepsBut, Same, InOrder, RemoteInv
<1>10. CountInv'
  BY <1>1, <1>2, <1>4, <1>6 DEF Stepped, KeepsBut, Same, InOrder, CountInv, Unconfirmed,
     ReceivedCounter, MeasuredLosses, ForwardedCounter
<1>11. ValuesInv'
  BY <1>1, <1>2, <1>4, <1>6
     DEF Stepped, KeepsBut, Same, InOrder, ValuesInv, ReceivedCounter, MeasuredLosses, ForwardedCounter
<1>12. PollInv'
  BY <1>1, <1>2, <1>4, <1>6 DEF Stepped, KeepsBut, Same, InOrder, PollInv, CountingSwitch
<1>13. ResultsInv'
  BY <1>1, <1>2, <1>4, <1>6 DEF Stepped, KeepsBut, Same, InOrder, ResultsInv, MeasuredLosses, Unconfirmed,
     OnScript
<1>14. QED BY <1>2, <1>3, <1>7, <1>8, <1>9, <1>10, <1>11, <1>12, <1>13 DEF ExptInv, OnScript

\* The poller of this run stops or has ended.
LEMMA StopPollerKeeps ==
    ASSUME ExptInv, StopPoller
    PROVE  ExptInv'
<1>1. /\ ExptTypeOK /\ Control /\ TrafficInv /\ CleanInv /\ RemoteInv
      /\ CountInv /\ ValuesInv /\ PollInv /\ ResultsInv
  BY DEF ExptInv
<1>2. Stepped /\ OnScript /\ Head(steps)[1] = "stop_poller"
  BY <1>1, Advance DEF ExptTypeOK, StopPoller, Step
<1>3. ExptTypeOK'
  BY <1>1, <1>2 DEF ExptTypeOK, StopPoller, Stepped, pollVars, switchVars
<1>4. UNCHANGED <<disturbed, values, remote, pktgen, entry, stale,
                      hw, shadow, link, client, stopEvent, threads, results>>
  BY <1>1, <1>2 DEF ExptTypeOK, StopPoller, pollVars, switchVars
<1>5. script.name = "effective" /\ Place = 19 + 2 * Buffs(script)
  BY <1>2 DEF Stepped, OnScript, Placing, Placed
<1>6. /\ KeepsBut({"stop_poller"})
      /\ Past("stop_poller")' /\ ~Past("stop_poller")
      /\ IsEffective
      /\ Past("count") /\ ~Past("sleep")
  BY <1>2, <1>5 DEF Stepped, Placing, KeepsBut, Same, Past, IsEffective
<1>7. TrafficInv'
  BY <1>1, <1>2, <1>4, <1>6 DEF Stepped, KeepsBut, Same, InOrder, TrafficInv, AtRest
<1>8. CleanInv'
  BY <1>1, <1>2, <1>4, <1>6 DEF Stepped, KeepsBut, Same, InOrder, CleanInv, Unconfirmed,
     Pending, Zero
<1>9. RemoteInv'
  BY <1>1, <1>2, <1>4, <1>6 DEF Stepped, KeepsBut, Same, InOrder, RemoteInv
<1>10. CountInv'
  BY <1>1, <1>2, <1>4, <1>6 DEF Stepped, KeepsBut, Same, InOrder, CountInv, Unconfirmed,
     ReceivedCounter, MeasuredLosses, ForwardedCounter
<1>11. ValuesInv'
  BY <1>1, <1>2, <1>4, <1>6
     DEF Stepped, KeepsBut, Same, InOrder, ValuesInv, ReceivedCounter, MeasuredLosses, ForwardedCounter
<1>12. PollInv'
  <2>1. run \in 1 .. MaxRuns
    BY <1>1, <1>2 DEF ExptTypeOK, PollInv, Stepped
  <2>2. /\ pollers' \in Pollers
        /\ \A r \in 1 .. MaxRuns :
            /\ pollers'[r].at = pollers[r].at
            /\ pollers[r].state = "none" => pollers'[r].state = "none"
            /\ pollers[r].state # "none" => pollers'[r].state # "none"
            /\ pollers[r].state # "requested" => pollers'[r].state # "requested"
    BY <1>1 DEF PollInv, Pollers, PollerStates, StopPoller
  <2>3. /\ pollers[run].at = CountingSwitch /\ pollers[run].state # "none"
        /\ "interrupted" \notin disturbed => pollers[run].state # "requested"
    BY <1>1, <1>2, <1>6 DEF PollInv, Stepped, InOrder
  <2>4. pollers[run].state \in {"starting", "polling", "stopping", "ended"}
            => pollers'[run].state \in {"stopping", "ended"}
    BY <2>1, <2>3, <1>1 DEF PollInv, Pollers, PollerStates, StopPoller
  <2>5. pollers[run].state \in PollerStates
    BY <2>1, <1>1 DEF PollInv, Pollers
  <2>6. QED BY <2>1, <2>2, <2>3, <2>4, <2>5, <1>1, <1>2, <1>4, <1>6
               DEF Stepped, KeepsBut, Same, InOrder, PollInv, CountingSwitch, PollerStates
<1>13. ResultsInv'
  BY <1>1, <1>2, <1>4, <1>6 DEF Stepped, KeepsBut, Same, InOrder, ResultsInv, MeasuredLosses, Unconfirmed,
     OnScript
<1>14. QED BY <1>2, <1>3, <1>7, <1>8, <1>9, <1>10, <1>11, <1>12, <1>13 DEF ExptInv, OnScript

\* The commands for another switch are given it, or lost.
LEMMA RemoteKeeps ==
    ASSUME ExptInv, Remote
    PROVE  ExptInv'
<1>1. /\ ExptTypeOK /\ Control /\ TrafficInv /\ CleanInv /\ RemoteInv
      /\ CountInv /\ ValuesInv /\ PollInv /\ ResultsInv
  BY DEF ExptInv
<1>2. Stepped /\ OnScript /\ Head(steps)[1] = "remote"
  BY <1>1, Advance DEF ExptTypeOK, Remote, Step
<1>3. ExptTypeOK'
  <2> DEFINE sw == Head(steps)[2]
             S == IF sw = "topo" THEN {"port_stat"} ELSE {"port_stat"} \cup ReceiverRegs
  <2>0. sw = "receiver" \/ sw = "topo"
    BY <1>2 DEF Stepped, OnScript, Placed, Placing
  <2>1. RemoteReset(sw) \in Seq(S)
    <3>1. CASE sw = "topo"
      BY <3>1 DEF RemoteReset
    <3>2. CASE sw # "topo"
      BY <3>2 DEF RemoteReset, ReceiverRegs
    <3>3. QED BY <3>1, <3>2
  <2>2. remote[sw] \in Seq(S)
    BY <1>1, <2>0 DEF ExptTypeOK
  <2> HIDE DEF S
  <2>3. remote[sw] \o RemoteReset(sw) \in Seq(S)
    BY <2>1, <2>2, Appended
  <2>4. \/ remote' = remote
        \/ remote' = [x \in {"receiver", "topo"} |->
                        IF x = sw THEN remote[sw] \o RemoteReset(sw) ELSE remote[x]]
    BY <1>1, <2>0 DEF ExptTypeOK, Remote
  <2>5. /\ remote' = [x \in {"receiver", "topo"} |-> remote'[x]]
        /\ remote'["receiver"] \in Seq({"port_stat"} \cup ReceiverRegs)
        /\ remote'["topo"] \in Seq({"port_stat"})
    <3>1. /\ remote = [x \in {"receiver", "topo"} |-> remote[x]]
          /\ remote["receiver"] \in Seq({"port_stat"} \cup ReceiverRegs)
          /\ remote["topo"] \in Seq({"port_stat"})
      BY <1>1 DEF ExptTypeOK
    <3>2. CASE remote' = remote
      BY <3>1, <3>2
    <3>3. CASE remote' = [x \in {"receiver", "topo"} |->
                            IF x = sw THEN remote[sw] \o RemoteReset(sw) ELSE remote[x]]
      <4> DEFINE new == remote[sw] \o RemoteReset(sw)
      <4>1. /\ remote'["receiver"] = IF sw = "receiver" THEN new ELSE remote["receiver"]
            /\ remote'["topo"] = IF sw = "topo" THEN new ELSE remote["topo"]
            /\ remote' = [x \in {"receiver", "topo"} |-> remote'[x]]
        BY <3>3
      <4>2. /\ sw = "topo" => new \in Seq({"port_stat"})
            /\ sw = "receiver" => new \in Seq({"port_stat"} \cup ReceiverRegs)
        BY <2>3 DEF S
      <4> HIDE DEF new, sw
      <4>3. QED BY <3>1, <4>1, <4>2
    <3>4. QED BY <2>4, <3>2, <3>3
  <2>6. QED BY <2>5, <1>1, <1>2 DEF ExptTypeOK, Remote, Stepped, switchVars
<1>4. /\ ("interrupted" \in disturbed' <=> "interrupted" \in disturbed)
      /\ \/ Unconfirmed' /\ remote' = remote
         \/ /\ disturbed' = disturbed
            /\ remote' = [remote EXCEPT ![Head(steps)[2]] = @ \o RemoteReset(Head(steps)[2])]
      /\ UNCHANGED <<values, pktgen, entry, stale, hw, shadow,
                      link, pollers, client, stopEvent, threads, results>>
  BY <1>1, <1>2 DEF ExptTypeOK, Remote, pollVars, switchVars, Unconfirmed
<1>5. /\ script.name = "effective"
      /\ \/ (Place = 13 /\ Head(steps)[2] = "receiver")
         \/ (Place = 14 /\ Head(steps)[2] = "topo")
  BY <1>2 DEF Stepped, OnScript, Placing, Placed
<1>6. /\ KeepsBut({"receiver", "topo"})
      /\ IsEffective
      /\ IF Head(steps)[2] = "topo" THEN Past("receiver") ELSE Same("topo") /\ ~Past("topo")
      /\ Past("drain") /\ ~Past("settle") /\ ~Past("start_traffic")
  BY <1>2, <1>5 DEF Stepped, Placing, KeepsBut, Same, Past, IsEffective
<1>7. TrafficInv'
  BY <1>1, <1>2, <1>4, <1>6 DEF Stepped, KeepsBut, Same, InOrder, TrafficInv, AtRest
<1>8. CleanInv'
  <2> DEFINE sw == Head(steps)[2]
  <2>1. ASSUME ~Unconfirmed'
        PROVE  /\ remote' = [x \in {"receiver", "topo"} |->
                              IF x = sw THEN remote[sw] \o RemoteReset(sw) ELSE remote[x]]
               /\ ~Unconfirmed
    BY <2>1, <1>1, <1>4 DEF ExptTypeOK, Unconfirmed
  <2>2. ASSUME ~Unconfirmed', sw = "receiver"
        PROVE  \A name \in {"port_stat"} \cup ReceiverRegs : Pending("receiver", name)'
    <3> DEFINE S == {"port_stat"} \cup ReceiverRegs
               t == RemoteReset("receiver")
               s == remote["receiver"]
    <3>1. /\ t \in Seq(S) /\ Len(t) = 4 /\ t[1] = "port_stat"
          /\ t[2] = "expected" /\ t[3] = "lackToSend" /\ t[4] = "ack"
      BY DEF RemoteReset, ReceiverRegs
    <3>2. s \in Seq(S) /\ remote'["receiver"] = s \o t
      <4>1. s \in Seq(S)
        BY <1>1 DEF ExptTypeOK
      <4>2. QED BY <2>1, <2>2, <4>1
    <3> HIDE DEF t, s, S
    <3>3. Holds(s \o t, t)
      BY <3>1, <3>2, Appended
    <3>4. \A j \in 1 .. 4 : Pending("receiver", t[j])'
      BY <3>1, <3>2, <3>3 DEF Pending, Holds
    <3>5. QED BY <3>1, <3>4 DEF ReceiverRegs
  <2>3. ASSUME ~Unconfirmed', sw = "topo" PROVE Pending("topo", "port_stat")'
    <3> DEFINE S == {"port_stat"}
               t == RemoteReset("topo")
               s == remote["topo"]
    <3>1. t \in Seq(S) /\ Len(t) = 1 /\ t[1] = "port_stat"
      BY DEF RemoteReset
    <3>2. s \in Seq(S) /\ remote'["topo"] = s \o t
      <4>1. s \in Seq(S)
        BY <1>1 DEF ExptTypeOK
      <4>2. QED BY <2>1, <2>3, <4>1
    <3> HIDE DEF t, s, S
    <3>3. Holds(s \o t, t)
      BY <3>1, <3>2, Appended
    <3>4. QED BY <3>1, <3>2, <3>3 DEF Pending, Holds
  <2>4. ASSUME ~Unconfirmed', sw = "topo"
        PROVE  \A name \in {"port_stat"} \cup ReceiverRegs :
                    Pending("receiver", name)' <=> Pending("receiver", name)
    BY <2>1, <2>4 DEF Pending
  <2>5. sw = "receiver" \/ sw = "topo"
    BY <1>2 DEF Stepped, OnScript, Placed, Placing
  <2> HIDE DEF sw
  <2>6. QED BY <2>1, <2>2, <2>3, <2>4, <2>5, <1>1, <1>2, <1>4, <1>6
               DEF Stepped, KeepsBut, Same, InOrder, CleanInv, Zero, sw
<1>9. RemoteInv'
  BY <1>1, <1>2, <1>4, <1>6 DEF Stepped, KeepsBut, Same, InOrder, RemoteInv
<1>10. CountInv'
  BY <1>1, <1>2, <1>4, <1>6 DEF Stepped, KeepsBut, Same, InOrder, CountInv, Unconfirmed,
     ReceivedCounter, MeasuredLosses, ForwardedCounter
<1>11. ValuesInv'
  BY <1>1, <1>2, <1>4, <1>6
     DEF Stepped, KeepsBut, Same, InOrder, ValuesInv, ReceivedCounter, MeasuredLosses, ForwardedCounter
<1>12. PollInv'
  BY <1>1, <1>2, <1>4, <1>6 DEF Stepped, KeepsBut, Same, InOrder, PollInv, CountingSwitch
<1>13. ResultsInv'
  BY <1>1, <1>2, <1>4, <1>6 DEF Stepped, KeepsBut, Same, InOrder, ResultsInv, MeasuredLosses, Unconfirmed,
     OnScript
<1>14. QED BY <1>2, <1>3, <1>7, <1>8, <1>9, <1>10, <1>11, <1>12, <1>13 DEF ExptInv, OnScript

\* The losses a script can see are a number.
LEMMA LossesCounted ==
    ASSUME ExptTypeOK
    PROVE  MeasuredLosses \in Nat
<1>1. link.lost \in Nat /\ link.dropped \in Nat
  BY DEF ExptTypeOK
<1>2. QED BY <1>1 DEF MeasuredLosses

\* What is written is what was read.
LEMMA WriteKeeps ==
    ASSUME ExptInv, Write
    PROVE  ExptInv'
<1>1. /\ ExptTypeOK /\ Control /\ TrafficInv /\ CleanInv /\ RemoteInv
      /\ CountInv /\ ValuesInv /\ PollInv /\ ResultsInv
  BY DEF ExptInv
<1>2. Stepped /\ OnScript /\ Head(steps)[1] = "write"
  <2>1. /\ script \in Scripts /\ steps # <<>> /\ steps' = Tail(steps) /\ (pktgen.on \/ AtRest)
        /\ Head(steps)[1] = "write" /\ UNCHANGED <<script, run>>
    BY <1>1 DEF ExptTypeOK, Write, Step
  <2>2. Place = NumSteps(script)
    <3>1. Placed(script, Place, Head(steps)) /\ Placing(script)
          /\ Place \in 1 .. NumSteps(script)
      BY <1>1, <2>1, NextPlace, Places
    <3>2. CASE script.name = "effective"
      <4>1. Place - 2 * Buffs(script) = 28
        BY <2>1, <3>1, <3>2 DEF Placed
      <4>2. /\ NumSteps(script) = 28 + 2 * Buffs(script) /\ Buffs(script) \in 0 .. 1
            /\ NumSteps(script) \in Nat
        BY <3>1, <3>2, <2>1, Places DEF Placing
      <4>3. QED BY <3>1, <4>1, <4>2
    <3>3. CASE script.name # "effective"
      BY <2>1, <3>1, <3>3 DEF Placed, Placing
    <3>4. QED BY <3>2, <3>3
  <2>3. QED BY <1>1, <2>1, <2>2, Advance
<1>3. ExptTypeOK'
  BY <1>1, <1>2 DEF ExptTypeOK, Write, Stepped, pollVars, switchVars
<1>4. /\ results' = [lost |-> values["tx_all"] - values["rx_ok"],
                     unrecovered |-> IF script.name = "check" THEN Unset
                                     ELSE values["sent"] - values["rx_forwarded"]]
      /\ UNCHANGED <<disturbed, values, remote, pktgen, entry, stale,
                      hw, shadow, link, pollers, client, stopEvent, threads>>
  BY <1>1, <1>2 DEF ExptTypeOK, Write, pollVars, switchVars
<1>5. IF script.name = "effective"
      THEN Place = 28 + 2 * Buffs(script)
      ELSE Place = 15
  BY <1>2 DEF Stepped, OnScript, Placing, Placed
<1>6. /\ KeepsBut({})
      /\ Past("limit")
  BY <1>2, <1>5 DEF Stepped, Placing, KeepsBut, Same, Past, IsEffective
<1>7. TrafficInv'
  BY <1>1, <1>2, <1>4, <1>6 DEF Stepped, KeepsBut, Same, InOrder, TrafficInv, AtRest
<1>8. CleanInv'
  BY <1>1, <1>2, <1>4, <1>6 DEF Stepped, KeepsBut, Same, InOrder, CleanInv, Unconfirmed,
     Pending, Zero
<1>9. RemoteInv'
  BY <1>1, <1>2, <1>4, <1>6 DEF Stepped, KeepsBut, Same, InOrder, RemoteInv
<1>10. CountInv'
  BY <1>1, <1>2, <1>4, <1>6 DEF Stepped, KeepsBut, Same, InOrder, CountInv, Unconfirmed,
     ReceivedCounter, MeasuredLosses, ForwardedCounter
<1>11. ValuesInv'
  BY <1>1, <1>2, <1>4, <1>6
     DEF Stepped, KeepsBut, Same, InOrder, ValuesInv, ReceivedCounter, MeasuredLosses, ForwardedCounter
<1>12. PollInv'
  BY <1>1, <1>2, <1>4, <1>6 DEF Stepped, KeepsBut, Same, InOrder, PollInv, CountingSwitch
<1>13. ResultsInv'
  <2>1. SUFFICES ASSUME ~Unconfirmed PROVE ResultsInv'
    BY <1>4 DEF ResultsInv, MeasuredLosses, Unconfirmed
  <2>2. /\ hw["tx"] = hw[ReceivedCounter] + link.flight + MeasuredLosses
        /\ IsEffective => hw["protected"] = hw[ForwardedCounter] + link.flight + link.retx
                                             + link.unrecovered
    BY <2>1, <1>1, <1>2, <1>6 DEF CountInv, Stepped, InOrder
  <2>3. link.flight = 0 /\ link.retx = 0
    BY <1>1, <1>2, <1>6 DEF TrafficInv, AtRest, Stepped, InOrder
  <2>4. /\ values["tx_all"] = hw["tx"] /\ values["rx_ok"] = hw[ReceivedCounter]
        /\ IsEffective => /\ values["sent"] = hw["protected"]
                          /\ values["rx_forwarded"] = hw[ForwardedCounter]
    BY <1>1, <1>2, <1>6 DEF ValuesInv, Stepped, InOrder
  <2>5. /\ hw[ReceivedCounter] \in Nat /\ hw[ForwardedCounter] \in Nat
        /\ MeasuredLosses \in Nat /\ link.unrecovered \in Nat
    BY <1>1, LossesCounted DEF ExptTypeOK, ReceivedCounter, ForwardedCounter, PortCounters
  <2>6. hw["tx"] - hw[ReceivedCounter] = MeasuredLosses
    BY <2>2, <2>3, <2>5
  <2>7. IsEffective => hw["protected"] - hw[ForwardedCounter] = link.unrecovered
    BY <2>2, <2>3, <2>5
  <2>8. results'.lost = MeasuredLosses /\ MeasuredLosses' = MeasuredLosses
    BY <1>2, <1>4, <2>4, <2>6 DEF MeasuredLosses, Stepped
  <2>9. results'.unrecovered = IF script.name = "check" THEN Unset
                               ELSE values["sent"] - values["rx_forwarded"]
    BY <1>4
  <2>10. results'.unrecovered \in {Unset, link.unrecovered}
    BY <2>9, <2>4, <2>7, <1>2 DEF Stepped, Placing, IsEffective
  <2>11. QED BY <1>4, <2>8, <2>10 DEF ResultsInv, MeasuredLosses
<1>14. QED BY <1>2, <1>3, <1>7, <1>8, <1>9, <1>10, <1>11, <1>12, <1>13 DEF ExptInv, OnScript

\* The steps of others: the thread,
LEMMA SetStopKeeps ==
    ASSUME ExptInv, SetStop
    PROVE  ExptInv'
<1>1. /\ ExptTypeOK /\ Control /\ TrafficInv /\ CleanInv /\ RemoteInv
      /\ CountInv /\ ValuesInv /\ PollInv /\ ResultsInv
  BY DEF ExptInv
<1>2. Stays
  BY <1>1, StaysPut DEF ExptTypeOK, SetStop
<1>3. ExptTypeOK'
  BY <1>1, <1>2 DEF ExptTypeOK, SetStop, Stays, pollVars, switchVars
<1>4. UNCHANGED <<remote, pktgen, entry, stale, hw,
                      shadow, link, pollers, client, threads>>
  BY <1>1 DEF ExptTypeOK, SetStop, pollVars, switchVars
<1>5. TrafficInv'
  BY <1>1, <1>2, <1>4 DEF Stays, KeepsBut, Same, InOrder, TrafficInv, AtRest
<1>6. CleanInv'
  BY <1>1, <1>2, <1>4 DEF Stays, KeepsBut, Same, InOrder, CleanInv, Unconfirmed, Pending,
     Zero
<1>7. RemoteInv'
  BY <1>1, <1>2, <1>4 DEF Stays, KeepsBut, Same, InOrder, RemoteInv
<1>8. CountInv'
  BY <1>1, <1>2, <1>4
     DEF Stays, KeepsBut, Same, InOrder, CountInv, Unconfirmed, ReceivedCounter, MeasuredLosses,
     ForwardedCounter
<1>9. ValuesInv'
  BY <1>1, <1>2, <1>4 DEF Stays, KeepsBut, Same, InOrder, ValuesInv, ReceivedCounter, MeasuredLosses,
     ForwardedCounter
<1>10. PollInv'
  BY <1>1, <1>2, <1>4 DEF Stays, KeepsBut, Same, InOrder, PollInv, CountingSwitch
<1>11. ResultsInv'
  BY <1>1, <1>2, <1>4 DEF Stays, KeepsBut, Same, InOrder, ResultsInv, MeasuredLosses, Unconfirmed
<1>12. QED BY <1>2, <1>3, <1>5, <1>6, <1>7, <1>8, <1>9, <1>10, <1>11 DEF ExptInv, Stays

\* which ends,
LEMMA ThreadEndsKeeps ==
    ASSUME NEW r \in 1 .. MaxRuns, ExptInv, ThreadEnds(r)
    PROVE  ExptInv'
<1>1. /\ ExptTypeOK /\ Control /\ TrafficInv /\ CleanInv /\ RemoteInv
      /\ CountInv /\ ValuesInv /\ PollInv /\ ResultsInv
  BY DEF ExptInv
<1>2. Stays
  BY <1>1, StaysPut DEF ExptTypeOK, ThreadEnds
<1>3. ExptTypeOK'
  BY <1>1, <1>2 DEF ExptTypeOK, ThreadEnds, Stays, pollVars, switchVars
<1>4. /\ threads' \subseteq threads
      /\ UNCHANGED <<remote, pktgen, entry, stale, hw,
                      shadow, link, pollers, client, stopEvent>>
  BY <1>1 DEF ExptTypeOK, ThreadEnds, pollVars, switchVars
<1>5. TrafficInv'
  BY <1>1, <1>2, <1>4 DEF Stays, KeepsBut, Same, InOrder, TrafficInv, AtRest
<1>6. CleanInv'
  BY <1>1, <1>2, <1>4 DEF Stays, KeepsBut, Same, InOrder, CleanInv, Unconfirmed, Pending,
     Zero
<1>7. RemoteInv'
  BY <1>1, <1>2, <1>4 DEF Stays, KeepsBut, Same, InOrder, RemoteInv
<1>8. CountInv'
  BY <1>1, <1>2, <1>4
     DEF Stays, KeepsBut, Same, InOrder, CountInv, Unconfirmed, ReceivedCounter, MeasuredLosses,
     ForwardedCounter
<1>9. ValuesInv'
  BY <1>1, <1>2, <1>4 DEF Stays, KeepsBut, Same, InOrder, ValuesInv, ReceivedCounter, MeasuredLosses,
     ForwardedCounter
<1>10. PollInv'
  BY <1>1, <1>2, <1>4 DEF Stays, KeepsBut, Same, InOrder, PollInv, CountingSwitch
<1>11. ResultsInv'
  BY <1>1, <1>2, <1>4 DEF Stays, KeepsBut, Same, InOrder, ResultsInv, MeasuredLosses, Unconfirmed
<1>12. QED BY <1>2, <1>3, <1>5, <1>6, <1>7, <1>8, <1>9, <1>10, <1>11 DEF ExptInv, Stays

\* the poller, which starts,
LEMMA PollerStartsKeeps ==
    ASSUME NEW r \in 1 .. MaxRuns, ExptInv, PollerStarts(r)
    PROVE  ExptInv'
<1>1. /\ ExptTypeOK /\ Control /\ TrafficInv /\ CleanInv /\ RemoteInv
      /\ CountInv /\ ValuesInv /\ PollInv /\ ResultsInv
  BY DEF ExptInv
<1>2. Stays
  BY <1>1, StaysPut DEF ExptTypeOK, PollerStarts
<1>3. ExptTypeOK'
  BY <1>1, <1>2 DEF ExptTypeOK, PollerStarts, Stays, pollVars, switchVars
<1>4. /\ pollers[r].state = "requested" /\ pollers'[r].state = "starting"
      /\ pollers'[r].at = pollers[r].at /\ pollers' \in Pollers
      /\ \A q \in 1 .. MaxRuns : q # r => pollers'[q] = pollers[q]
      /\ UNCHANGED <<remote, pktgen, entry, stale, hw,
                      shadow, link, client, stopEvent, threads>>
  <2>1. pollers \in Pollers /\ pollers[r].state = "requested"
    BY <1>1 DEF PollInv, PollerStarts
  <2>2. pollers' = [pollers EXCEPT ![r].state = "starting"]
    BY DEF PollerStarts
  <2>3. /\ pollers'[r].state = "starting" /\ pollers'[r].at = pollers[r].at
        /\ \A q \in 1 .. MaxRuns : q # r => pollers'[q] = pollers[q]
        /\ pollers' \in Pollers
    BY <2>1, <2>2 DEF Pollers, PollerStates
  <2>4. QED BY <2>1, <2>3 DEF PollerStarts, switchVars
<1>5. TrafficInv'
  BY <1>1, <1>2, <1>4 DEF Stays, KeepsBut, Same, InOrder, TrafficInv, AtRest
<1>6. CleanInv'
  BY <1>1, <1>2, <1>4 DEF Stays, KeepsBut, Same, InOrder, CleanInv, Unconfirmed, Pending,
     Zero
<1>7. RemoteInv'
  BY <1>1, <1>2, <1>4 DEF Stays, KeepsBut, Same, InOrder, RemoteInv
<1>8. CountInv'
  BY <1>1, <1>2, <1>4
     DEF Stays, KeepsBut, Same, InOrder, CountInv, Unconfirmed, ReceivedCounter, MeasuredLosses,
     ForwardedCounter
<1>9. ValuesInv'
  BY <1>1, <1>2, <1>4 DEF Stays, KeepsBut, Same, InOrder, ValuesInv, ReceivedCounter, MeasuredLosses,
     ForwardedCounter
<1>10. PollInv'
  <2>1. Going => run \in 1 .. MaxRuns
    BY <1>1 DEF PollInv, ExptTypeOK
  <2>2. QED BY <2>1, <1>1, <1>2, <1>4
               DEF Stays, KeepsBut, Same, InOrder, PollInv, CountingSwitch
<1>11. ResultsInv'
  BY <1>1, <1>2, <1>4 DEF Stays, KeepsBut, Same, InOrder, ResultsInv, MeasuredLosses, Unconfirmed
<1>12. QED BY <1>2, <1>3, <1>5, <1>6, <1>7, <1>8, <1>9, <1>10, <1>11 DEF ExptInv, Stays

\* polls or crashes,
LEMMA PollerConnectsKeeps ==
    ASSUME NEW r \in 1 .. MaxRuns, ExptInv, PollerConnects(r)
    PROVE  ExptInv'
<1>1. /\ ExptTypeOK /\ Control /\ TrafficInv /\ CleanInv /\ RemoteInv
      /\ CountInv /\ ValuesInv /\ PollInv /\ ResultsInv
  BY DEF ExptInv
<1>2. Stays
  BY <1>1, StaysPut DEF ExptTypeOK, PollerConnects
<1>3. ExptTypeOK'
  BY <1>1, <1>2 DEF ExptTypeOK, PollerConnects, Stays, pollVars, switchVars
<1>4. /\ pollers[r].state = "starting" /\ pollers'[r].state \in {"polling", "ended"}
      /\ pollers'[r].at = pollers[r].at /\ pollers' \in Pollers
      /\ \A q \in 1 .. MaxRuns : q # r => pollers'[q] = pollers[q]
      /\ UNCHANGED <<remote, pktgen, entry, stale,
                      hw, shadow, link, stopEvent, threads>>
  <2>1. pollers \in Pollers /\ pollers[r].state = "starting"
    BY <1>1 DEF PollInv, PollerConnects
  <2>2. \/ pollers' = [pollers EXCEPT ![r].state = "polling"]
        \/ pollers' = [pollers EXCEPT ![r].state = "ended"]
    BY DEF PollerConnects
  <2>3. CASE pollers' = [pollers EXCEPT ![r].state = "polling"]
    <3>1. /\ pollers'[r].state = "polling" /\ pollers'[r].at = pollers[r].at
          /\ \A q \in 1 .. MaxRuns : q # r => pollers'[q] = pollers[q]
          /\ pollers' \in Pollers
      BY <2>1, <2>3 DEF Pollers, PollerStates
    <3>2. QED BY <2>1, <3>1 DEF PollerConnects, switchVars
  <2>4. CASE pollers' = [pollers EXCEPT ![r].state = "ended"]
    <3>1. /\ pollers'[r].state = "ended" /\ pollers'[r].at = pollers[r].at
          /\ \A q \in 1 .. MaxRuns : q # r => pollers'[q] = pollers[q]
          /\ pollers' \in Pollers
      BY <2>1, <2>4 DEF Pollers, PollerStates
    <3>2. QED BY <2>1, <3>1 DEF PollerConnects, switchVars
  <2>5. QED BY <2>2, <2>3, <2>4
<1>5. TrafficInv'
  BY <1>1, <1>2, <1>4 DEF Stays, KeepsBut, Same, InOrder, TrafficInv, AtRest
<1>6. CleanInv'
  BY <1>1, <1>2, <1>4 DEF Stays, KeepsBut, Same, InOrder, CleanInv, Unconfirmed, Pending,
     Zero
<1>7. RemoteInv'
  BY <1>1, <1>2, <1>4 DEF Stays, KeepsBut, Same, InOrder, RemoteInv
<1>8. CountInv'
  BY <1>1, <1>2, <1>4
     DEF Stays, KeepsBut, Same, InOrder, CountInv, Unconfirmed, ReceivedCounter, MeasuredLosses,
     ForwardedCounter
<1>9. ValuesInv'
  BY <1>1, <1>2, <1>4 DEF Stays, KeepsBut, Same, InOrder, ValuesInv, ReceivedCounter, MeasuredLosses,
     ForwardedCounter
<1>10. PollInv'
  <2>1. Going => run \in 1 .. MaxRuns
    BY <1>1 DEF PollInv, ExptTypeOK
  <2>2. QED BY <2>1, <1>1, <1>2, <1>4
               DEF Stays, KeepsBut, Same, InOrder, PollInv, CountingSwitch
<1>11. ResultsInv'
  BY <1>1, <1>2, <1>4 DEF Stays, KeepsBut, Same, InOrder, ResultsInv, MeasuredLosses, Unconfirmed
<1>12. QED BY <1>2, <1>3, <1>5, <1>6, <1>7, <1>8, <1>9, <1>10, <1>11 DEF ExptInv, Stays

\* and ends;
LEMMA PollerEndsKeeps ==
    ASSUME NEW r \in 1 .. MaxRuns, ExptInv, PollerEnds(r)
    PROVE  ExptInv'
<1>1. /\ ExptTypeOK /\ Control /\ TrafficInv /\ CleanInv /\ RemoteInv
      /\ CountInv /\ ValuesInv /\ PollInv /\ ResultsInv
  BY DEF ExptInv
<1>2. Stays
  BY <1>1, StaysPut DEF ExptTypeOK, PollerEnds
<1>3. ExptTypeOK'
  BY <1>1, <1>2 DEF ExptTypeOK, PollerEnds, Stays, pollVars, switchVars
<1>4. /\ pollers[r].state = "stopping" /\ pollers'[r].state = "ended"
      /\ pollers'[r].at = pollers[r].at /\ pollers' \in Pollers
      /\ \A q \in 1 .. MaxRuns : q # r => pollers'[q] = pollers[q]
      /\ UNCHANGED <<remote, pktgen, entry, stale,
                      hw, shadow, link, stopEvent, threads>>
  <2>1. pollers \in Pollers /\ pollers[r].state = "stopping"
    BY <1>1 DEF PollInv, PollerEnds
  <2>2. pollers' = [pollers EXCEPT ![r].state = "ended"]
    BY DEF PollerEnds
  <2>3. /\ pollers'[r].state = "ended" /\ pollers'[r].at = pollers[r].at
        /\ \A q \in 1 .. MaxRuns : q # r => pollers'[q] = pollers[q]
        /\ pollers' \in Pollers
    BY <2>1, <2>2 DEF Pollers, PollerStates
  <2>4. QED BY <2>1, <2>3 DEF PollerEnds, switchVars
<1>5. TrafficInv'
  BY <1>1, <1>2, <1>4 DEF Stays, KeepsBut, Same, InOrder, TrafficInv, AtRest
<1>6. CleanInv'
  BY <1>1, <1>2, <1>4 DEF Stays, KeepsBut, Same, InOrder, CleanInv, Unconfirmed, Pending,
     Zero
<1>7. RemoteInv'
  BY <1>1, <1>2, <1>4 DEF Stays, KeepsBut, Same, InOrder, RemoteInv
<1>8. CountInv'
  BY <1>1, <1>2, <1>4
     DEF Stays, KeepsBut, Same, InOrder, CountInv, Unconfirmed, ReceivedCounter, MeasuredLosses,
     ForwardedCounter
<1>9. ValuesInv'
  BY <1>1, <1>2, <1>4 DEF Stays, KeepsBut, Same, InOrder, ValuesInv, ReceivedCounter, MeasuredLosses,
     ForwardedCounter
<1>10. PollInv'
  <2>1. Going => run \in 1 .. MaxRuns
    BY <1>1 DEF PollInv, ExptTypeOK
  <2>2. QED BY <2>1, <1>1, <1>2, <1>4
               DEF Stays, KeepsBut, Same, InOrder, PollInv, CountingSwitch
<1>11. ResultsInv'
  BY <1>1, <1>2, <1>4 DEF Stays, KeepsBut, Same, InOrder, ResultsInv, MeasuredLosses, Unconfirmed
<1>12. QED BY <1>2, <1>3, <1>5, <1>6, <1>7, <1>8, <1>9, <1>10, <1>11 DEF ExptInv, Stays

\* the generator sends a frame,
LEMMA GenerateKeeps ==
    ASSUME ExptInv, Generate
    PROVE  ExptInv'
<1>1. /\ ExptTypeOK /\ Control /\ TrafficInv /\ CleanInv /\ RemoteInv
      /\ CountInv /\ ValuesInv /\ PollInv /\ ResultsInv
  BY DEF ExptInv
<1>2. Stays
  BY <1>1, StaysPut DEF ExptTypeOK, Generate
<1>3. ExptTypeOK'
  <2>1. hw' \in [PortCounters \cup {"protected"} -> Nat]
    <3>1. hw \in [PortCounters \cup {"protected"} -> Nat]
      BY <1>1 DEF ExptTypeOK
    <3>2. "tx" \in PortCounters
      BY DEF PortCounters
    <3>3. QED BY <3>1, <3>2 DEF Generate
  <2>2. link' \in [sent : Nat, flight : Nat, retx : Nat, lost : Nat, dropped : Nat,
                   unrecovered : Nat]
    <3>1. link \in [sent : Nat, flight : Nat, retx : Nat, lost : Nat, dropped : Nat,
                    unrecovered : Nat]
      BY <1>1 DEF ExptTypeOK
    <3>2. link' = [link EXCEPT !.sent = @ + 1, !.flight = @ + 1]
      BY DEF Generate
    <3>3. link.sent + 1 \in Nat /\ link.flight + 1 \in Nat
      BY <3>1
    <3>4. QED BY <3>1, <3>2, <3>3
  <2>3. pktgen' \in [on : BOOLEAN, limited : BOOLEAN, count : Nat]
    <3>1. pktgen \in [on : BOOLEAN, limited : BOOLEAN, count : Nat]
      BY <1>1 DEF ExptTypeOK
    <3>2. pktgen' = [pktgen EXCEPT !.count = IF pktgen.limited THEN pktgen.count + 1
                                             ELSE pktgen.count]
      BY DEF Generate
    <3>3. QED BY <3>1, <3>2
  <2>4. stale' \subseteq SenderRegs \cup ReceiverRegs
    <3>1. stale' = stale \/ stale' = SenderRegs \cup ReceiverRegs
      BY DEF Generate
    <3>2. QED BY <3>1, <1>1 DEF ExptTypeOK
  <2>5. QED BY <2>1, <2>2, <2>3, <2>4, <1>1, <1>2 DEF ExptTypeOK, Generate, Stays
<1>4. /\ pktgen.on /\ pktgen'.on = pktgen.on /\ pktgen'.limited = pktgen.limited
      /\ hw'["tx"] = hw["tx"] + 1
      /\ \A c \in PortCounters \ {"tx"} : hw'[c] = hw[c]
      /\ entry # Unset => hw'["protected"] = hw["protected"] + 1
      /\ link'.flight = link.flight + 1 /\ link'.retx = link.retx
      /\ link'.lost = link.lost /\ link'.dropped = link.dropped
      /\ link'.unrecovered = link.unrecovered
      /\ UNCHANGED <<remote, entry, shadow,
                      pollers, client, stopEvent, threads>>
  BY <1>1 DEF ExptTypeOK, Generate, pollVars, switchVars, PortCounters
<1>5. Going => ~Past("stop_traffic") /\ (Past("halt") => Past("start_traffic"))
  BY <1>1, <1>2, <1>4 DEF TrafficInv, Stays
<1>6. TrafficInv'
  BY <1>1, <1>2, <1>4, <1>5 DEF Stays, KeepsBut, Same, InOrder, TrafficInv, AtRest
<1>7. CleanInv'
  BY <1>1, <1>2, <1>4, <1>5 DEF Stays, KeepsBut, Same, InOrder, CleanInv
<1>8. RemoteInv'
  BY <1>1, <1>2, <1>4, <1>5 DEF Stays, KeepsBut, Same, InOrder, RemoteInv
<1>9. CountInv'
  <2>1. SUFFICES ASSUME Going, Past("start_traffic"), ~Unconfirmed
                 PROVE  CountInv'
    BY <1>2, <1>4 DEF Stays, KeepsBut, Same, CountInv, Unconfirmed
  <2>2. hw'["tx"] = hw["tx"] + 1 /\ hw'[ReceivedCounter] = hw[ReceivedCounter]
        /\ MeasuredLosses' = MeasuredLosses
        /\ hw'[ForwardedCounter] = hw[ForwardedCounter]
        /\ ReceivedCounter' = ReceivedCounter /\ ForwardedCounter' = ForwardedCounter
    BY <1>2, <1>4 DEF Stays, ReceivedCounter, MeasuredLosses, ForwardedCounter, PortCounters
  <2>3. IsEffective => entry # Unset
    <3>1. IsEffective => Past("enable")
      BY <2>1, <1>2 DEF Stays, InOrder
    <3>2. IsEffective => entry = script.mode
      BY <3>1, <2>1, <1>1 DEF RemoteInv
    <3>3. QED BY <3>2, <1>2 DEF Stays, Placing, Unset
  <2>4. /\ hw["tx"] = hw[ReceivedCounter] + link.flight + MeasuredLosses
        /\ IsEffective => hw["protected"] = hw[ForwardedCounter] + link.flight + link.retx
                                             + link.unrecovered
    BY <2>1, <1>1 DEF CountInv
  <2>5. /\ hw[ReceivedCounter] \in Nat /\ hw[ForwardedCounter] \in Nat
        /\ link.flight \in Nat /\ link.retx \in Nat /\ MeasuredLosses \in Nat
        /\ link.unrecovered \in Nat
    BY <1>1, LossesCounted DEF ExptTypeOK, ReceivedCounter, ForwardedCounter, PortCounters
  <2>6. hw["tx"] + 1 = hw[ReceivedCounter] + (link.flight + 1) + MeasuredLosses
    BY <2>4, <2>5
  <2>7. IsEffective => hw["protected"] + 1 = hw[ForwardedCounter] + (link.flight + 1)
                                              + link.retx + link.unrecovered
    BY <2>4, <2>5
  <2>8. QED BY <2>2, <2>3, <2>6, <2>7, <1>2, <1>4 DEF Stays, CountInv
<1>10. ValuesInv'
  BY <1>1, <1>2, <1>4, <1>5 DEF Stays, KeepsBut, Same, InOrder, ValuesInv
<1>11. PollInv'
  BY <1>1, <1>2, <1>4, <1>5 DEF Stays, KeepsBut, Same, InOrder, PollInv, CountingSwitch
<1>12. ResultsInv'
  BY <1>1, <1>2, <1>4, <1>5 DEF Stays, KeepsBut, Same, InOrder, ResultsInv, MeasuredLosses, Unconfirmed
<1>13. QED BY <1>2, <1>3, <1>6, <1>7, <1>8, <1>9, <1>10, <1>11, <1>12 DEF ExptInv, Stays

\* A frame that is lost or gets through.
LEMMA TransmitCounts ==
    ASSUME ExptTypeOK, Transmit
    PROVE  \E good, seen \in 0 .. 1 :
             /\ hw' \in [PortCounters \cup {"protected"} -> Nat]
             /\ link' \in [sent : Nat, flight : Nat, retx : Nat, lost : Nat, dropped : Nat,
                           unrecovered : Nat]
             /\ hw'["tx"] = hw["tx"] /\ hw'["protected"] = hw["protected"]
             /\ hw'[ReceivedCounter] = hw[ReceivedCounter] + seen
             /\ entry = script.mode =>
                  hw'[ForwardedCounter] = hw[ForwardedCounter] + (IF good > 0 THEN 1 ELSE 0)
             /\ link'.flight = link.flight - 1 /\ MeasuredLosses' = MeasuredLosses + 1 - seen
             /\ link'.retx = (IF good = 0 /\ entry # Unset THEN link.retx + 1 ELSE link.retx)
             /\ link'.unrecovered = link.unrecovered
<1>1. PICK good \in 0 .. 1, arrived \in 0 .. 1 :
         /\ link.flight > 0
         /\ good <= arrived /\ (~script.rand => arrived = good)
         /\ hw' = Received(arrived, good)
         /\ link' = [link EXCEPT
            !.flight = @ - 1,
            !.lost = @ + 1 - arrived,
            !.dropped = @ + arrived - good,
            !.retx = IF good = 0 /\ entry # Unset THEN @ + 1 ELSE @]
  <2>1. \A good \in 0 .. 1 : \A arrived \in Arriving(1, good) :
          /\ arrived \in 0 .. 1 /\ good <= arrived
          /\ ~script.rand => arrived = good
    BY DEF Arriving
  <2>2. QED BY <2>1 DEF Transmit
<1>2. hw \in [PortCounters \cup {"protected"} -> Nat]
      /\ link \in [sent : Nat, flight : Nat, retx : Nat, lost : Nat, dropped : Nat,
                   unrecovered : Nat]
  BY DEF ExptTypeOK
<1>3. PortCounters = {"tx", "rx", "rxFilter", "forwarded", "deduped"}
  BY DEF PortCounters
<1>4. /\ hw'["tx"] = hw["tx"] /\ hw'["protected"] = hw["protected"]
      /\ hw'["rx"] = hw["rx"] + arrived
      /\ hw'["rxFilter"] = hw["rxFilter"] + good
      /\ hw'["forwarded"] = hw["forwarded"] + (IF entry = 1 /\ good > 1 THEN 1 ELSE good)
      /\ hw'["deduped"] = hw["deduped"] + (IF good > 1 THEN 1 ELSE good)
      /\ hw' = [c \in PortCounters \cup {"protected"} |-> hw'[c]]
  BY <1>1, <1>2, <1>3 DEF Received
<1>5. hw' \in [PortCounters \cup {"protected"} -> Nat]
  <2>1. \A c \in PortCounters \cup {"protected"} : hw[c] \in Nat
    BY <1>2
  <2>2. \A c \in PortCounters \cup {"protected"} : hw'[c] \in Nat
    BY <2>1, <1>1, <1>3, <1>4
  <2>3. QED BY <2>2, <1>4
<1>6. /\ link'.flight = link.flight - 1 /\ link'.lost = link.lost + 1 - arrived
      /\ link'.dropped = link.dropped + arrived - good
      /\ link'.retx = (IF good = 0 /\ entry # Unset THEN link.retx + 1 ELSE link.retx)
      /\ link'.unrecovered = link.unrecovered
  BY <1>1, <1>2
<1>7. link' \in [sent : Nat, flight : Nat, retx : Nat, lost : Nat, dropped : Nat,
                unrecovered : Nat]
  <2>1. /\ link'.flight \in Nat /\ link'.retx \in Nat /\ link'.lost \in Nat
        /\ link'.dropped \in Nat /\ link'.unrecovered \in Nat
    BY <1>1, <1>2, <1>6
  <2>2. QED BY <2>1, <1>1, <1>2
<1>8. PICK seen \in 0 .. 1 : /\ hw'[ReceivedCounter] = hw[ReceivedCounter] + seen
                            /\ MeasuredLosses' = MeasuredLosses + 1 - seen
  <2>1. script' = script
    BY DEF Transmit, runVars
  <2>2. link.lost \in Nat /\ link.dropped \in Nat
    BY <1>2
  <2>3. CASE script.name = "effective" /\ script.rand
    BY <2>1, <2>2, <2>3, <1>1, <1>4, <1>6 DEF ReceivedCounter, MeasuredLosses
  <2>4. CASE script.name = "effective" /\ ~script.rand
    BY <2>1, <2>2, <2>4, <1>1, <1>4, <1>6 DEF ReceivedCounter, MeasuredLosses
  <2>5. CASE script.name # "effective"
    BY <2>1, <2>2, <2>5, <1>1, <1>4, <1>6 DEF ReceivedCounter, MeasuredLosses
  <2>6. QED BY <2>3, <2>4, <2>5
<1>9. ASSUME entry = script.mode
      PROVE  hw'[ForwardedCounter] = hw[ForwardedCounter] + (IF good > 0 THEN 1 ELSE 0)
  <2>1. script.mode = 0 \/ script.mode = 1
    BY Places DEF ExptTypeOK, Placing
  <2>2. CASE script.mode = 0
    BY <2>2, <1>4 DEF ForwardedCounter
  <2>3. CASE script.mode = 1
    BY <2>3, <1>4, <1>9 DEF ForwardedCounter
  <2>4. QED BY <2>1, <2>2, <2>3
<1>10. QED BY <1>4, <1>5, <1>6, <1>7, <1>8, <1>9

\* which arrives or is lost
LEMMA TransmitKeeps ==
    ASSUME ExptInv, Transmit
    PROVE  ExptInv'
<1>1. /\ ExptTypeOK /\ Control /\ TrafficInv /\ CleanInv /\ RemoteInv
      /\ CountInv /\ ValuesInv /\ PollInv /\ ResultsInv
  BY DEF ExptInv
<1>2. Stays
  BY <1>1, StaysPut DEF ExptTypeOK, Transmit
<1>3. ExptTypeOK'
  <2>1. /\ hw' \in [PortCounters \cup {"protected"} -> Nat]
        /\ link' \in [sent : Nat, flight : Nat, retx : Nat, lost : Nat, dropped : Nat,
                      unrecovered : Nat]
    BY <1>1, TransmitCounts
  <2>2. UNCHANGED <<runVars, remote, pktgen, entry, stale, shadow, pollVars>>
    BY DEF Transmit
  <2>3. QED BY <2>1, <2>2, <1>1 DEF ExptTypeOK, runVars
<1>4. /\ link.flight > 0 /\ link.flight \in Nat
      /\ UNCHANGED <<remote, pktgen, entry, stale,
                      shadow, pollers, client, stopEvent, threads>>
  BY <1>1 DEF ExptTypeOK, Transmit, pollVars, switchVars
<1>5. Going => ~Past("sleep") /\ (Past("drain") => Past("start_traffic"))
  BY <1>1, <1>2, <1>4 DEF TrafficInv, AtRest, Stays
<1>6. TrafficInv'
  BY <1>1, <1>2, <1>4, <1>5 DEF Stays, KeepsBut, Same, InOrder, TrafficInv, AtRest
<1>7. CleanInv'
  <2>1. Going /\ ~Past("start_traffic") => ~Past("drain")
    BY <1>5
  <2>2. Going /\ ~Past("start_traffic") =>
            ~Past("port_stat")
            /\ (IsEffective => ~Past("protected") /\ ~Past("numbers") /\ ~Past("lack")
                               /\ ~Past("holes") /\ ~Past("receiver") /\ ~Past("topo"))
            /\ (~IsEffective => ~Past("input"))
    BY <2>1, <1>2 DEF Stays, InOrder
  <2>3. QED BY <2>2, <1>2 DEF Stays, KeepsBut, Same, CleanInv
<1>8. RemoteInv'
  BY <1>1, <1>2, <1>4, <1>5 DEF Stays, KeepsBut, Same, InOrder, RemoteInv
<1>9. CountInv'
  <2>1. SUFFICES ASSUME Going, Past("start_traffic"), ~Unconfirmed
                 PROVE  CountInv'
    BY <1>2, <1>4 DEF Stays, KeepsBut, Same, CountInv, Unconfirmed
  <2>2. PICK good, seen \in 0 .. 1 :
             /\ hw'["tx"] = hw["tx"] /\ hw'["protected"] = hw["protected"]
             /\ hw'[ReceivedCounter] = hw[ReceivedCounter] + seen
             /\ entry = script.mode =>
                  hw'[ForwardedCounter] = hw[ForwardedCounter] + (IF good > 0 THEN 1 ELSE 0)
             /\ link'.flight = link.flight - 1 /\ MeasuredLosses' = MeasuredLosses + 1 - seen
             /\ link'.retx = (IF good = 0 /\ entry # Unset THEN link.retx + 1 ELSE link.retx)
             /\ link'.unrecovered = link.unrecovered
    BY <1>1, TransmitCounts
  <2>3. ReceivedCounter' = ReceivedCounter /\ ForwardedCounter' = ForwardedCounter
    BY <1>2 DEF Stays, ReceivedCounter, MeasuredLosses, ForwardedCounter
  <2>4. IsEffective => entry = script.mode /\ entry # Unset
    <3>1. IsEffective => Past("enable")
      BY <2>1, <1>2 DEF Stays, InOrder
    <3>2. IsEffective => entry = script.mode
      BY <3>1, <2>1, <1>1 DEF RemoteInv
    <3>3. QED BY <3>2, <1>2 DEF Stays, Placing, Unset
  <2>5. /\ hw["tx"] = hw[ReceivedCounter] + link.flight + MeasuredLosses
        /\ IsEffective => hw["protected"] = hw[ForwardedCounter] + link.flight + link.retx
                                             + link.unrecovered
    BY <2>1, <1>1 DEF CountInv
  <2>6. /\ hw[ReceivedCounter] \in Nat /\ hw[ForwardedCounter] \in Nat
        /\ link.flight \in Nat /\ link.retx \in Nat /\ MeasuredLosses \in Nat
        /\ link.unrecovered \in Nat
    BY <1>1, LossesCounted DEF ExptTypeOK, ReceivedCounter, ForwardedCounter, PortCounters
  <2>7. hw'["tx"] = hw'[ReceivedCounter] + link'.flight + MeasuredLosses'
    BY <2>2, <2>5, <2>6
  <2>8. IsEffective => hw'["protected"] = hw'[ForwardedCounter] + link'.flight
                                            + link'.retx + link'.unrecovered
    <3>1. SUFFICES ASSUME IsEffective
                   PROVE  hw'["protected"] = hw'[ForwardedCounter] + link'.flight
                                               + link'.retx + link'.unrecovered
      OBVIOUS
    <3>2. hw["protected"] = hw[ForwardedCounter] + link.flight + link.retx
                              + link.unrecovered
      BY <3>1, <2>5
    <3>3. CASE good = 0
      BY <3>1, <3>2, <3>3, <2>2, <2>4, <2>6
    <3>4. CASE good > 0
      BY <3>1, <3>2, <3>4, <2>2, <2>4, <2>6
    <3>5. QED BY <3>3, <3>4
  <2>9. QED BY <2>3, <2>7, <2>8, <1>2 DEF Stays, CountInv
<1>10. ValuesInv'
  <2>1. Going => ~Past("sleep") /\ ~Past("rx_ok") /\ ~Past("tx_all")
                 /\ (IsEffective => ~Past("sent") /\ ~Past("rx_forwarded"))
    BY <1>5, <1>2 DEF Stays, InOrder
  <2>2. QED BY <2>1, <1>2 DEF Stays, KeepsBut, Same, ValuesInv
<1>11. PollInv'
  BY <1>1, <1>2, <1>4, <1>5 DEF Stays, KeepsBut, Same, InOrder, PollInv, CountingSwitch
<1>12. ResultsInv'
  <2>1. results = NoResults
    BY <1>5, <1>2 DEF Stays, InOrder
  <2>2. QED BY <2>1, <1>2 DEF Stays, ResultsInv, MeasuredLosses, Unconfirmed, NoResults
<1>13. QED BY <1>2, <1>3, <1>6, <1>7, <1>8, <1>9, <1>10, <1>11, <1>12 DEF ExptInv, Stays

\* The copies of a lost frame that get through.
LEMMA RetransmitCounts ==
    ASSUME ExptTypeOK, Retransmit
    PROVE  \E good, seen \in 0 .. 2 :
             /\ hw' \in [PortCounters \cup {"protected"} -> Nat]
             /\ link' \in [sent : Nat, flight : Nat, retx : Nat, lost : Nat, dropped : Nat,
                           unrecovered : Nat]
             /\ hw'["tx"] = hw["tx"] + 2 /\ hw'["protected"] = hw["protected"]
             /\ hw'[ReceivedCounter] = hw[ReceivedCounter] + seen
             /\ entry = script.mode =>
                  hw'[ForwardedCounter] = hw[ForwardedCounter] + (IF good > 0 THEN 1 ELSE 0)
             /\ link'.flight = link.flight /\ MeasuredLosses' = MeasuredLosses + 2 - seen
             /\ link'.retx = link.retx - 1
             /\ link'.unrecovered = (IF good = 0 THEN link.unrecovered + 1
                                     ELSE link.unrecovered)
<1>1. PICK good \in 0 .. 2, arrived \in 0 .. 2 :
         /\ link.retx > 0
         /\ good <= arrived /\ (~script.rand => arrived = good)
         /\ hw' = [Received(arrived, good) EXCEPT !["tx"] = @ + 2]
         /\ link' = [link EXCEPT
            !.retx = @ - 1,
            !.lost = @ + 2 - arrived,
            !.dropped = @ + arrived - good,
            !.unrecovered = IF good = 0 THEN @ + 1 ELSE @]
  <2>1. \A good \in 0 .. 2 : \A arrived \in Arriving(2, good) :
          /\ arrived \in 0 .. 2 /\ good <= arrived
          /\ ~script.rand => arrived = good
    BY DEF Arriving
  <2>2. QED BY <2>1 DEF Retransmit
<1>2. hw \in [PortCounters \cup {"protected"} -> Nat]
      /\ link \in [sent : Nat, flight : Nat, retx : Nat, lost : Nat, dropped : Nat,
                   unrecovered : Nat]
  BY DEF ExptTypeOK
<1>3. PortCounters = {"tx", "rx", "rxFilter", "forwarded", "deduped"}
  BY DEF PortCounters
<1>4. /\ hw'["tx"] = hw["tx"] + 2 /\ hw'["protected"] = hw["protected"]
      /\ hw'["rx"] = hw["rx"] + arrived
      /\ hw'["rxFilter"] = hw["rxFilter"] + good
      /\ hw'["forwarded"] = hw["forwarded"] + (IF entry = 1 /\ good > 1 THEN 1 ELSE good)
      /\ hw'["deduped"] = hw["deduped"] + (IF good > 1 THEN 1 ELSE good)
      /\ hw' = [c \in PortCounters \cup {"protected"} |-> hw'[c]]
  BY <1>1, <1>2, <1>3 DEF Received
<1>5. hw' \in [PortCounters \cup {"protected"} -> Nat]
  <2>1. \A c \in PortCounters \cup {"protected"} : hw[c] \in Nat
    BY <1>2
  <2>2. \A c \in PortCounters \cup {"protected"} : hw'[c] \in Nat
    BY <2>1, <1>1, <1>3, <1>4
  <2>3. QED BY <2>2, <1>4
<1>6. /\ link'.flight = link.flight /\ link'.lost = link.lost + 2 - arrived
      /\ link'.dropped = link.dropped + arrived - good
      /\ link'.retx = link.retx - 1
      /\ link'.unrecovered = (IF good = 0 THEN link.unrecovered + 1
                             ELSE link.unrecovered)
  BY <1>1, <1>2
<1>7. link' \in [sent : Nat, flight : Nat, retx : Nat, lost : Nat, dropped : Nat,
                unrecovered : Nat]
  <2>1. /\ link'.flight \in Nat /\ link'.retx \in Nat /\ link'.lost \in Nat
        /\ link'.dropped \in Nat /\ link'.unrecovered \in Nat
    BY <1>1, <1>2, <1>6
  <2>2. QED BY <2>1, <1>1, <1>2
<1>8. PICK seen \in 0 .. 2 : /\ hw'[ReceivedCounter] = hw[ReceivedCounter] + seen
                            /\ MeasuredLosses' = MeasuredLosses + 2 - seen
  <2>1. script' = script
    BY DEF Retransmit, runVars
  <2>2. link.lost \in Nat /\ link.dropped \in Nat
    BY <1>2
  <2>3. CASE script.name = "effective" /\ script.rand
    BY <2>1, <2>2, <2>3, <1>1, <1>4, <1>6 DEF ReceivedCounter, MeasuredLosses
  <2>4. CASE script.name = "effective" /\ ~script.rand
    BY <2>1, <2>2, <2>4, <1>1, <1>4, <1>6 DEF ReceivedCounter, MeasuredLosses
  <2>5. CASE script.name # "effective"
    BY <2>1, <2>2, <2>5, <1>1, <1>4, <1>6 DEF ReceivedCounter, MeasuredLosses
  <2>6. QED BY <2>3, <2>4, <2>5
<1>9. ASSUME entry = script.mode
      PROVE  hw'[ForwardedCounter] = hw[ForwardedCounter] + (IF good > 0 THEN 1 ELSE 0)
  <2>1. script.mode = 0 \/ script.mode = 1
    BY Places DEF ExptTypeOK, Placing
  <2>2. CASE script.mode = 0
    BY <2>2, <1>4 DEF ForwardedCounter
  <2>3. CASE script.mode = 1
    BY <2>3, <1>4, <1>9 DEF ForwardedCounter
  <2>4. QED BY <2>1, <2>2, <2>3
<1>10. QED BY <1>4, <1>5, <1>6, <1>7, <1>8, <1>9

\* and is sent again;
LEMMA RetransmitKeeps ==
    ASSUME ExptInv, Retransmit
    PROVE  ExptInv'
<1>1. /\ ExptTypeOK /\ Control /\ TrafficInv /\ CleanInv /\ RemoteInv
      /\ CountInv /\ ValuesInv /\ PollInv /\ ResultsInv
  BY DEF ExptInv
<1>2. Stays
  BY <1>1, StaysPut DEF ExptTypeOK, Retransmit
<1>3. ExptTypeOK'
  <2>1. /\ hw' \in [PortCounters \cup {"protected"} -> Nat]
        /\ link' \in [sent : Nat, flight : Nat, retx : Nat, lost : Nat, dropped : Nat,
                      unrecovered : Nat]
    BY <1>1, RetransmitCounts
  <2>2. UNCHANGED <<runVars, remote, pktgen, entry, stale, shadow, pollVars>>
    BY DEF Retransmit
  <2>3. QED BY <2>1, <2>2, <1>1 DEF ExptTypeOK, runVars
<1>4. /\ link.retx > 0 /\ link.retx \in Nat
      /\ UNCHANGED <<remote, pktgen, entry, stale,
                      shadow, pollers, client, stopEvent, threads>>
  BY <1>1 DEF ExptTypeOK, Retransmit, pollVars, switchVars
<1>5. Going => ~Past("sleep") /\ (Past("drain") => Past("start_traffic"))
  BY <1>1, <1>2, <1>4 DEF TrafficInv, AtRest, Stays
<1>6. TrafficInv'
  BY <1>1, <1>2, <1>4, <1>5 DEF Stays, KeepsBut, Same, InOrder, TrafficInv, AtRest
<1>7. CleanInv'
  <2>1. Going /\ ~Past("start_traffic") => ~Past("drain")
    BY <1>5
  <2>2. Going /\ ~Past("start_traffic") =>
            ~Past("port_stat")
            /\ (IsEffective => ~Past("protected") /\ ~Past("numbers") /\ ~Past("lack")
                               /\ ~Past("holes") /\ ~Past("receiver") /\ ~Past("topo"))
            /\ (~IsEffective => ~Past("input"))
    BY <2>1, <1>2 DEF Stays, InOrder
  <2>3. QED BY <2>2, <1>2 DEF Stays, KeepsBut, Same, CleanInv
<1>8. RemoteInv'
  BY <1>1, <1>2, <1>4, <1>5 DEF Stays, KeepsBut, Same, InOrder, RemoteInv
<1>9. CountInv'
  <2>1. SUFFICES ASSUME Going, Past("start_traffic"), ~Unconfirmed
                 PROVE  CountInv'
    BY <1>2, <1>4 DEF Stays, KeepsBut, Same, CountInv, Unconfirmed
  <2>2. PICK good, seen \in 0 .. 2 :
             /\ hw'["tx"] = hw["tx"] + 2 /\ hw'["protected"] = hw["protected"]
             /\ hw'[ReceivedCounter] = hw[ReceivedCounter] + seen
             /\ entry = script.mode =>
                  hw'[ForwardedCounter] = hw[ForwardedCounter] + (IF good > 0 THEN 1 ELSE 0)
             /\ link'.flight = link.flight /\ MeasuredLosses' = MeasuredLosses + 2 - seen
             /\ link'.retx = link.retx - 1
             /\ link'.unrecovered = (IF good = 0 THEN link.unrecovered + 1
                                     ELSE link.unrecovered)
    BY <1>1, RetransmitCounts
  <2>3. ReceivedCounter' = ReceivedCounter /\ ForwardedCounter' = ForwardedCounter
    BY <1>2 DEF Stays, ReceivedCounter, MeasuredLosses, ForwardedCounter
  <2>4. IsEffective => entry = script.mode /\ entry # Unset
    <3>1. IsEffective => Past("enable")
      BY <2>1, <1>2 DEF Stays, InOrder
    <3>2. IsEffective => entry = script.mode
      BY <3>1, <2>1, <1>1 DEF RemoteInv
    <3>3. QED BY <3>2, <1>2 DEF Stays, Placing, Unset
  <2>5. /\ hw["tx"] = hw[ReceivedCounter] + link.flight + MeasuredLosses
        /\ IsEffective => hw["protected"] = hw[ForwardedCounter] + link.flight + link.retx
                                             + link.unrecovered
    BY <2>1, <1>1 DEF CountInv
  <2>6. /\ hw[ReceivedCounter] \in Nat /\ hw[ForwardedCounter] \in Nat
        /\ link.flight \in Nat /\ link.retx \in Nat /\ MeasuredLosses \in Nat
        /\ link.unrecovered \in Nat
    BY <1>1, LossesCounted DEF ExptTypeOK, ReceivedCounter, ForwardedCounter, PortCounters
  <2>7. hw'["tx"] = hw'[ReceivedCounter] + link'.flight + MeasuredLosses'
    BY <2>2, <2>5, <2>6
  <2>8. IsEffective => hw'["protected"] = hw'[ForwardedCounter] + link'.flight
                                            + link'.retx + link'.unrecovered
    <3>1. SUFFICES ASSUME IsEffective
                   PROVE  hw'["protected"] = hw'[ForwardedCounter] + link'.flight
                                               + link'.retx + link'.unrecovered
      OBVIOUS
    <3>2. hw["protected"] = hw[ForwardedCounter] + link.flight + link.retx
                              + link.unrecovered
      BY <3>1, <2>5
    <3>3. CASE good = 0
      BY <3>1, <3>2, <3>3, <2>2, <2>4, <2>6
    <3>4. CASE good > 0
      BY <3>1, <3>2, <3>4, <2>2, <2>4, <2>6
    <3>5. QED BY <3>3, <3>4
  <2>9. QED BY <2>3, <2>7, <2>8, <1>2 DEF Stays, CountInv
<1>10. ValuesInv'
  <2>1. Going => ~Past("sleep") /\ ~Past("rx_ok") /\ ~Past("tx_all")
                 /\ (IsEffective => ~Past("sent") /\ ~Past("rx_forwarded"))
    BY <1>5, <1>2 DEF Stays, InOrder
  <2>2. QED BY <2>1, <1>2 DEF Stays, KeepsBut, Same, ValuesInv
<1>11. PollInv'
  BY <1>1, <1>2, <1>4, <1>5 DEF Stays, KeepsBut, Same, InOrder, PollInv, CountingSwitch
<1>12. ResultsInv'
  <2>1. results = NoResults
    BY <1>5, <1>2 DEF Stays, InOrder
  <2>2. QED BY <2>1, <1>2 DEF Stays, ResultsInv, MeasuredLosses, Unconfirmed, NoResults
<1>13. QED BY <1>2, <1>3, <1>6, <1>7, <1>8, <1>9, <1>10, <1>11, <1>12 DEF ExptInv, Stays

\* the drivers copy the counters;
LEMMA SyncKeeps ==
    ASSUME ExptInv, Sync
    PROVE  ExptInv'
<1>1. /\ ExptTypeOK /\ Control /\ TrafficInv /\ CleanInv /\ RemoteInv
      /\ CountInv /\ ValuesInv /\ PollInv /\ ResultsInv
  BY DEF ExptInv
<1>2. Stays
  BY <1>1, StaysPut DEF ExptTypeOK, Sync
<1>3. ExptTypeOK'
  BY <1>1, <1>2 DEF ExptTypeOK, Sync, Stays, pollVars, switchVars
<1>4. /\ shadow' = [c \in PortCounters |-> hw[c]]
      /\ UNCHANGED <<remote, pktgen, entry, stale, hw,
                      link, pollers, client, stopEvent, threads>>
  BY <1>1 DEF ExptTypeOK, Sync, pollVars, switchVars
<1>5. TrafficInv'
  BY <1>1, <1>2, <1>4 DEF Stays, KeepsBut, Same, InOrder, TrafficInv, AtRest
<1>6. CleanInv'
  <2>1. \A c \in PortCounters : Zero(c) => Zero(c)'
    BY <1>4 DEF Zero
  <2>2. "tx" \in PortCounters /\ "deduped" \in PortCounters
        /\ CountersOf("receiver") \subseteq PortCounters
    BY DEF PortCounters, CountersOf
  <2>3. QED BY <2>1, <2>2, <1>1, <1>2, <1>4
               DEF Stays, KeepsBut, Same, CleanInv, Unconfirmed, Pending
<1>7. RemoteInv'
  BY <1>1, <1>2, <1>4 DEF Stays, KeepsBut, Same, InOrder, RemoteInv
<1>8. CountInv'
  BY <1>1, <1>2, <1>4
     DEF Stays, KeepsBut, Same, InOrder, CountInv, Unconfirmed, ReceivedCounter, MeasuredLosses,
     ForwardedCounter
<1>9. ValuesInv'
  BY <1>1, <1>2, <1>4 DEF Stays, KeepsBut, Same, InOrder, ValuesInv, ReceivedCounter, MeasuredLosses,
     ForwardedCounter
<1>10. PollInv'
  BY <1>1, <1>2, <1>4 DEF Stays, KeepsBut, Same, InOrder, PollInv, CountingSwitch
<1>11. ResultsInv'
  BY <1>1, <1>2, <1>4 DEF Stays, KeepsBut, Same, InOrder, ResultsInv, MeasuredLosses, Unconfirmed
<1>12. QED BY <1>2, <1>3, <1>5, <1>6, <1>7, <1>8, <1>9, <1>10, <1>11 DEF ExptInv, Stays

\* A call to clear something of this switch.
LEMMA ClearKeeps ==
    ASSUME ExptInv, Clear
    PROVE  ExptInv'
<1>1. /\ ExptTypeOK /\ Control /\ TrafficInv /\ CleanInv /\ RemoteInv
      /\ CountInv /\ ValuesInv /\ PollInv /\ ResultsInv
  BY DEF ExptInv
<1>2. Stepped /\ OnScript /\ Head(steps)[1] = "clear"
  BY <1>1, Advance DEF ExptTypeOK, Clear, Step
<1>3. ExptTypeOK'
  <2>1. /\ pktgen' \in [on : BOOLEAN, limited : BOOLEAN, count : Nat]
        /\ stale' \subseteq SenderRegs \cup ReceiverRegs
        /\ hw' \in [PortCounters \cup {"protected"} -> Nat]
        /\ shadow' \in [PortCounters -> Nat]
    BY <1>1, Cleared DEF Clear
  <2>2. QED BY <2>1, <1>1, <1>2 DEF ExptTypeOK, Clear, Stepped
<1>4. /\ Clears("sender", Head(steps)[2])
      /\ UNCHANGED <<disturbed, values, remote, entry, link,
                      pollers, client, stopEvent, threads, results>>
  <2>1. Clears("sender", Head(steps)[2])
    BY <1>1, Cleared DEF Clear
  <2>2. QED BY <2>1 DEF Clear, pollVars
<1>5. IF script.name = "effective" THEN
           \/ /\ Place = 3 \/ Place = 10 \/ Place = 27 + 2 * Buffs(script)
              /\ Head(steps)[2] = "reg_pktgen_cntr"
           \/ Place = 6 /\ Head(steps)[2] = "port_stat"
           \/ Place = 8 /\ Head(steps)[2] = "numbers"
           \/ Place = 9 /\ Head(steps)[2] = "lack"
           \/ Place = 11 /\ Head(steps)[2] = "protected"
           \/ Place = 12 /\ Head(steps)[2] = "holes"
      ELSE
           \/ (Place = 4 \/ Place = 14) /\ Head(steps)[2] = "reg_pktgen_cntr"
           \/ Place = 5 /\ Head(steps)[2] = "port_stat"
  <2>1. /\ Placed(script, Place, Head(steps)) /\ Head(steps)[1] = "clear" /\ Place \in Int
        /\ Buffs(script) \in 0 .. 1
    BY <1>2 DEF Stepped, OnScript, Placing
  <2>2. CASE script.name = "effective"
    <3>1. \/ (Place = 3 \/ Place = 10 \/ Place - 2 * Buffs(script) = 27)
              /\ Head(steps)[2] = "reg_pktgen_cntr"
          \/ Place = 6 /\ Head(steps)[2] = "port_stat"
          \/ Place = 8 /\ Head(steps)[2] = "numbers"
          \/ Place = 9 /\ Head(steps)[2] = "lack"
          \/ Place = 11 /\ Head(steps)[2] = "protected"
          \/ Place = 12 /\ Head(steps)[2] = "holes"
      BY <2>1, <2>2 DEF Placed
    <3>2. QED BY <2>1, <2>2, <3>1
  <2>3. CASE script.name # "effective"
    BY <2>1, <2>3 DEF Placed
  <2>4. QED BY <2>2, <2>3
<1>6. /\ KeepsBut({"port_stat", "numbers", "lack", "protected", "holes"})
      /\ Past("start_traffic") => Head(steps)[2] = "reg_pktgen_cntr"
      /\ Head(steps)[2] = "port_stat" \/ Same("port_stat")
      /\ IsEffective => Head(steps)[2] = "numbers" \/ Same("numbers")
      /\ IsEffective => Head(steps)[2] = "lack" \/ Same("lack")
      /\ IsEffective => Head(steps)[2] = "protected" \/ Same("protected")
      /\ IsEffective => Head(steps)[2] = "holes" \/ Same("holes")
  BY <1>2, <1>5 DEF Stepped, Placing, KeepsBut, Same, Past, IsEffective
<1>7. /\ Going /\ pktgen'.on = pktgen.on /\ pktgen'.limited = pktgen.limited
      /\ stale' \subseteq stale
  BY <1>2, <1>4 DEF Stepped, Clears
<1>8. /\ \A c \in PortCounters : Zero(c) => Zero(c)'
      /\ \A c \in PortCounters : shadow[c] = hw[c] => shadow'[c] = hw'[c]
      /\ Past("start_traffic") => hw' = hw
  <2>1. \A c \in PortCounters : Untouched(c) \/ Zero(c)'
    BY <1>4 DEF Clears
  <2>2. ASSUME Past("start_traffic") PROVE hw' = hw
    <3>1. Head(steps)[2] = "reg_pktgen_cntr"
          /\ "reg_pktgen_cntr" \notin SenderRegs \cup ReceiverRegs
      BY <2>2, <1>6 DEF SenderRegs, ReceiverRegs
    <3>2. QED BY <3>1 DEF Clear, ClearCall
  <2>3. QED BY <2>1, <2>2 DEF Zero, Untouched
<1>9. /\ hw["protected"] = 0 \/ Head(steps)[2] = "protected" => hw'["protected"] = 0
      /\ \A r \in SenderRegs : Head(steps)[2] = r => r \notin stale'
      /\ Head(steps)[2] = "port_stat" => Zero("tx")'
  BY <1>4 DEF Clears, CountersOf
<1>10. TrafficInv'
  BY <1>1, <1>2, <1>4, <1>6, <1>7, <1>8, <1>9
     DEF Stepped, KeepsBut, Same, InOrder, TrafficInv, AtRest
<1>11. CleanInv'
  <2>1. /\ "tx" \in PortCounters /\ "deduped" \in PortCounters
        /\ CountersOf("receiver") \subseteq PortCounters
        /\ "numbers" \in SenderRegs /\ "lack" \in SenderRegs /\ "holes" \in SenderRegs
    BY DEF PortCounters, CountersOf, SenderRegs
  <2>2. \A sw, name : Pending(sw, name)' <=> Pending(sw, name)
    BY <1>4 DEF Pending
  <2>3. Unconfirmed' = Unconfirmed
    BY <1>4 DEF Unconfirmed
  <2>4. QED BY <2>1, <2>2, <2>3, <1>1, <1>2, <1>4, <1>6, <1>7, <1>8, <1>9
               DEF Stepped, KeepsBut, Same, InOrder, CleanInv
<1>12. RemoteInv'
  BY <1>1, <1>2, <1>4, <1>6, <1>7, <1>8, <1>9
     DEF Stepped, KeepsBut, Same, InOrder, RemoteInv
<1>13. CountInv'
  BY <1>1, <1>2, <1>4, <1>6, <1>7, <1>8, <1>9
     DEF Stepped, KeepsBut, Same, InOrder, CountInv, Unconfirmed, ReceivedCounter, MeasuredLosses,
     ForwardedCounter
<1>14. ValuesInv'
  BY <1>1, <1>2, <1>4, <1>6, <1>7, <1>8, <1>9
     DEF Stepped, KeepsBut, Same, InOrder, ValuesInv, ReceivedCounter, MeasuredLosses, ForwardedCounter
<1>15. PollInv'
  BY <1>1, <1>2, <1>4, <1>6, <1>7, <1>8, <1>9
     DEF Stepped, KeepsBut, Same, InOrder, PollInv, CountingSwitch
<1>16. ResultsInv'
  BY <1>1, <1>2, <1>4, <1>6, <1>7, <1>8, <1>9
     DEF Stepped, KeepsBut, Same, InOrder, ResultsInv, MeasuredLosses, Unconfirmed, OnScript
<1>17. QED BY <1>2, <1>3, <1>10, <1>11, <1>12, <1>13, <1>14, <1>15, <1>16
              DEF ExptInv, OnScript

\* get_rx_ok_counter.
LEMMA RxOkRead ==
    ASSUME ExptInv, Reads("rx_ok", shadow[ReceivedCounter])
    PROVE  ExptInv'
<1>1. /\ ExptTypeOK /\ Control /\ TrafficInv /\ CleanInv /\ RemoteInv
      /\ CountInv /\ ValuesInv /\ PollInv /\ ResultsInv
  BY DEF ExptInv
<1>2. Stepped /\ OnScript /\ Head(steps)[1] = "rx_ok"
  BY <1>1, Advance DEF ExptTypeOK, Reads, Step
<1>3. ExptTypeOK'
  BY <1>1, <1>2 DEF ExptTypeOK, Reads, Stepped, pollVars, switchVars
<1>4. /\ "rx_ok" \in DOMAIN values' /\ values'["rx_ok"] = shadow[ReceivedCounter]
      /\ \A c \in DOMAIN values :
            c # "rx_ok" => c \in DOMAIN values' /\ values'[c] = values[c]
      /\ UNCHANGED <<disturbed, remote, pktgen, entry, stale, hw,
                      shadow, link, pollers, client, stopEvent, threads, results>>
  BY <1>1, <1>2 DEF ExptTypeOK, Reads, pollVars, switchVars
<1>5. IF script.name = "effective"
      THEN Place = 22 + 2 * Buffs(script)
      ELSE Place = 11
  BY <1>2 DEF Stepped, OnScript, Placing, Placed
<1>6. /\ KeepsBut({"rx_ok"})
      /\ Past("rx_ok")' /\ ~Past("rx_ok")
      /\ Past("sleep")
  BY <1>2, <1>5 DEF Stepped, Placing, KeepsBut, Same, Past, IsEffective
<1>7. shadow[ReceivedCounter] = hw[ReceivedCounter]
  BY <1>1, <1>2, <1>6 DEF ValuesInv, Stepped, InOrder, ReceivedCounter, MeasuredLosses, ForwardedCounter,
     PortCounters
<1>8. TrafficInv'
  BY <1>1, <1>2, <1>4, <1>6, <1>7 DEF Stepped, KeepsBut, Same, InOrder, TrafficInv, AtRest
<1>9. CleanInv'
  BY <1>1, <1>2, <1>4, <1>6, <1>7
     DEF Stepped, KeepsBut, Same, InOrder, CleanInv, Unconfirmed, Pending, Zero
<1>10. RemoteInv'
  BY <1>1, <1>2, <1>4, <1>6, <1>7 DEF Stepped, KeepsBut, Same, InOrder, RemoteInv
<1>11. CountInv'
  BY <1>1, <1>2, <1>4, <1>6, <1>7
     DEF Stepped, KeepsBut, Same, InOrder, CountInv, Unconfirmed, ReceivedCounter, MeasuredLosses,
     ForwardedCounter
<1>12. ValuesInv'
  BY <1>1, <1>2, <1>4, <1>6, <1>7
     DEF Stepped, KeepsBut, Same, InOrder, ValuesInv, ReceivedCounter, MeasuredLosses, ForwardedCounter
<1>13. PollInv'
  BY <1>1, <1>2, <1>4, <1>6, <1>7
     DEF Stepped, KeepsBut, Same, InOrder, PollInv, CountingSwitch
<1>14. ResultsInv'
  BY <1>1, <1>2, <1>4, <1>6, <1>7
     DEF Stepped, KeepsBut, Same, InOrder, ResultsInv, MeasuredLosses, Unconfirmed, OnScript
<1>15. QED BY <1>2, <1>3, <1>8, <1>9, <1>10, <1>11, <1>12, <1>13, <1>14
              DEF ExptInv, OnScript

\* get_tx_all_counter.
LEMMA TxAllRead ==
    ASSUME ExptInv, Reads("tx_all", shadow["tx"])
    PROVE  ExptInv'
<1>1. /\ ExptTypeOK /\ Control /\ TrafficInv /\ CleanInv /\ RemoteInv
      /\ CountInv /\ ValuesInv /\ PollInv /\ ResultsInv
  BY DEF ExptInv
<1>2. Stepped /\ OnScript /\ Head(steps)[1] = "tx_all"
  BY <1>1, Advance DEF ExptTypeOK, Reads, Step
<1>3. ExptTypeOK'
  BY <1>1, <1>2 DEF ExptTypeOK, Reads, Stepped, pollVars, switchVars
<1>4. /\ "tx_all" \in DOMAIN values' /\ values'["tx_all"] = shadow["tx"]
      /\ \A c \in DOMAIN values :
            c # "tx_all" => c \in DOMAIN values' /\ values'[c] = values[c]
      /\ UNCHANGED <<disturbed, remote, pktgen, entry, stale, hw,
                      shadow, link, pollers, client, stopEvent, threads, results>>
  BY <1>1, <1>2 DEF ExptTypeOK, Reads, pollVars, switchVars
<1>5. IF script.name = "effective"
      THEN Place = 23 + 2 * Buffs(script)
      ELSE Place = 12
  BY <1>2 DEF Stepped, OnScript, Placing, Placed
<1>6. /\ KeepsBut({"tx_all"})
      /\ Past("tx_all")' /\ ~Past("tx_all")
      /\ Past("rx_ok")
  BY <1>2, <1>5 DEF Stepped, Placing, KeepsBut, Same, Past, IsEffective
<1>7. shadow["tx"] = hw["tx"]
  BY <1>1, <1>2, <1>6 DEF ValuesInv, Stepped, InOrder, ReceivedCounter, MeasuredLosses, ForwardedCounter,
     PortCounters
<1>8. TrafficInv'
  BY <1>1, <1>2, <1>4, <1>6, <1>7 DEF Stepped, KeepsBut, Same, InOrder, TrafficInv, AtRest
<1>9. CleanInv'
  BY <1>1, <1>2, <1>4, <1>6, <1>7
     DEF Stepped, KeepsBut, Same, InOrder, CleanInv, Unconfirmed, Pending, Zero
<1>10. RemoteInv'
  BY <1>1, <1>2, <1>4, <1>6, <1>7 DEF Stepped, KeepsBut, Same, InOrder, RemoteInv
<1>11. CountInv'
  BY <1>1, <1>2, <1>4, <1>6, <1>7
     DEF Stepped, KeepsBut, Same, InOrder, CountInv, Unconfirmed, ReceivedCounter, MeasuredLosses,
     ForwardedCounter
<1>12. ValuesInv'
  BY <1>1, <1>2, <1>4, <1>6, <1>7
     DEF Stepped, KeepsBut, Same, InOrder, ValuesInv, ReceivedCounter, MeasuredLosses, ForwardedCounter
<1>13. PollInv'
  BY <1>1, <1>2, <1>4, <1>6, <1>7
     DEF Stepped, KeepsBut, Same, InOrder, PollInv, CountingSwitch
<1>14. ResultsInv'
  BY <1>1, <1>2, <1>4, <1>6, <1>7
     DEF Stepped, KeepsBut, Same, InOrder, ResultsInv, MeasuredLosses, Unconfirmed, OnScript
<1>15. QED BY <1>2, <1>3, <1>8, <1>9, <1>10, <1>11, <1>12, <1>13, <1>14
              DEF ExptInv, OnScript

\* The frames that were protected.
LEMMA SentRead ==
    ASSUME ExptInv, Reads("sent", hw["protected"])
    PROVE  ExptInv'
<1>1. /\ ExptTypeOK /\ Control /\ TrafficInv /\ CleanInv /\ RemoteInv
      /\ CountInv /\ ValuesInv /\ PollInv /\ ResultsInv
  BY DEF ExptInv
<1>2. Stepped /\ OnScript /\ Head(steps)[1] = "sent"
  BY <1>1, Advance DEF ExptTypeOK, Reads, Step
<1>3. ExptTypeOK'
  BY <1>1, <1>2 DEF ExptTypeOK, Reads, Stepped, pollVars, switchVars
<1>4. /\ "sent" \in DOMAIN values' /\ values'["sent"] = hw["protected"]
      /\ \A c \in DOMAIN values :
            c # "sent" => c \in DOMAIN values' /\ values'[c] = values[c]
      /\ UNCHANGED <<disturbed, remote, pktgen, entry, stale, hw,
                      shadow, link, pollers, client, stopEvent, threads, results>>
  BY <1>1, <1>2 DEF ExptTypeOK, Reads, pollVars, switchVars
<1>5. script.name = "effective" /\ Place = 24 + 2 * Buffs(script)
  BY <1>2 DEF Stepped, OnScript, Placing, Placed
<1>6. /\ KeepsBut({"sent"})
      /\ Past("sent")' /\ ~Past("sent")
      /\ IsEffective
      /\ Past("tx_all")
  BY <1>2, <1>5 DEF Stepped, Placing, KeepsBut, Same, Past, IsEffective
<1>7. hw["protected"] = hw["protected"]
  BY <1>1, <1>2, <1>6 DEF ValuesInv, Stepped, InOrder, ReceivedCounter, MeasuredLosses, ForwardedCounter,
     PortCounters
<1>8. TrafficInv'
  BY <1>1, <1>2, <1>4, <1>6, <1>7 DEF Stepped, KeepsBut, Same, InOrder, TrafficInv, AtRest
<1>9. CleanInv'
  BY <1>1, <1>2, <1>4, <1>6, <1>7
     DEF Stepped, KeepsBut, Same, InOrder, CleanInv, Unconfirmed, Pending, Zero
<1>10. RemoteInv'
  BY <1>1, <1>2, <1>4, <1>6, <1>7 DEF Stepped, KeepsBut, Same, InOrder, RemoteInv
<1>11. CountInv'
  BY <1>1, <1>2, <1>4, <1>6, <1>7
     DEF Stepped, KeepsBut, Same, InOrder, CountInv, Unconfirmed, ReceivedCounter, MeasuredLosses,
     ForwardedCounter
<1>12. ValuesInv'
  BY <1>1, <1>2, <1>4, <1>6, <1>7
     DEF Stepped, KeepsBut, Same, InOrder, ValuesInv, ReceivedCounter, MeasuredLosses, ForwardedCounter
<1>13. PollInv'
  BY <1>1, <1>2, <1>4, <1>6, <1>7
     DEF Stepped, KeepsBut, Same, InOrder, PollInv, CountingSwitch
<1>14. ResultsInv'
  BY <1>1, <1>2, <1>4, <1>6, <1>7
     DEF Stepped, KeepsBut, Same, InOrder, ResultsInv, MeasuredLosses, Unconfirmed, OnScript
<1>15. QED BY <1>2, <1>3, <1>8, <1>9, <1>10, <1>11, <1>12, <1>13, <1>14
              DEF ExptInv, OnScript

\* get_rx_forwarded_counter.
LEMMA RxForwardedRead ==
    ASSUME ExptInv, Reads("rx_forwarded", shadow[ForwardedCounter])
    PROVE  ExptInv'
<1>1. /\ ExptTypeOK /\ Control /\ TrafficInv /\ CleanInv /\ RemoteInv
      /\ CountInv /\ ValuesInv /\ PollInv /\ ResultsInv
  BY DEF ExptInv
<1>2. Stepped /\ OnScript /\ Head(steps)[1] = "rx_forwarded"
  BY <1>1, Advance DEF ExptTypeOK, Reads, Step
<1>3. ExptTypeOK'
  BY <1>1, <1>2 DEF ExptTypeOK, Reads, Stepped, pollVars, switchVars
<1>4. /\ "rx_forwarded" \in DOMAIN values' /\ values'["rx_forwarded"] = shadow[ForwardedCounter]
      /\ \A c \in DOMAIN values :
            c # "rx_forwarded" => c \in DOMAIN values' /\ values'[c] = values[c]
      /\ UNCHANGED <<disturbed, remote, pktgen, entry, stale, hw,
                      shadow, link, pollers, client, stopEvent, threads, results>>
  BY <1>1, <1>2 DEF ExptTypeOK, Reads, pollVars, switchVars
<1>5. script.name = "effective" /\ Place = 25 + 2 * Buffs(script)
  BY <1>2 DEF Stepped, OnScript, Placing, Placed
<1>6. /\ KeepsBut({"rx_forwarded"})
      /\ Past("rx_forwarded")' /\ ~Past("rx_forwarded")
      /\ IsEffective
      /\ Past("sent")
  BY <1>2, <1>5 DEF Stepped, Placing, KeepsBut, Same, Past, IsEffective
<1>7. shadow[ForwardedCounter] = hw[ForwardedCounter]
  BY <1>1, <1>2, <1>6 DEF ValuesInv, Stepped, InOrder, ReceivedCounter, MeasuredLosses, ForwardedCounter,
     PortCounters
<1>8. TrafficInv'
  BY <1>1, <1>2, <1>4, <1>6, <1>7 DEF Stepped, KeepsBut, Same, InOrder, TrafficInv, AtRest
<1>9. CleanInv'
  BY <1>1, <1>2, <1>4, <1>6, <1>7
     DEF Stepped, KeepsBut, Same, InOrder, CleanInv, Unconfirmed, Pending, Zero
<1>10. RemoteInv'
  BY <1>1, <1>2, <1>4, <1>6, <1>7 DEF Stepped, KeepsBut, Same, InOrder, RemoteInv
<1>11. CountInv'
  BY <1>1, <1>2, <1>4, <1>6, <1>7
     DEF Stepped, KeepsBut, Same, InOrder, CountInv, Unconfirmed, ReceivedCounter, MeasuredLosses,
     ForwardedCounter
<1>12. ValuesInv'
  BY <1>1, <1>2, <1>4, <1>6, <1>7
     DEF Stepped, KeepsBut, Same, InOrder, ValuesInv, ReceivedCounter, MeasuredLosses, ForwardedCounter
<1>13. PollInv'
  BY <1>1, <1>2, <1>4, <1>6, <1>7
     DEF Stepped, KeepsBut, Same, InOrder, PollInv, CountingSwitch
<1>14. ResultsInv'
  BY <1>1, <1>2, <1>4, <1>6, <1>7
     DEF Stepped, KeepsBut, Same, InOrder, ResultsInv, MeasuredLosses, Unconfirmed, OnScript
<1>15. QED BY <1>2, <1>3, <1>8, <1>9, <1>10, <1>11, <1>12, <1>13, <1>14
              DEF ExptInv, OnScript

\* another shell clears what it was told to.
LEMMA RemoteClearKeeps ==
    ASSUME NEW sw \in {"receiver", "topo"}, ExptInv, RemoteClear(sw)
    PROVE  ExptInv'
<1>1. /\ ExptTypeOK /\ Control /\ TrafficInv /\ CleanInv /\ RemoteInv
      /\ CountInv /\ ValuesInv /\ PollInv /\ ResultsInv
  BY DEF ExptInv
<1>2. Stays
  BY <1>1, StaysPut DEF ExptTypeOK, RemoteClear
<1>3. ExptTypeOK'
  <2>1. /\ pktgen' \in [on : BOOLEAN, limited : BOOLEAN, count : Nat]
        /\ stale' \subseteq SenderRegs \cup ReceiverRegs
        /\ hw' \in [PortCounters \cup {"protected"} -> Nat]
        /\ shadow' \in [PortCounters -> Nat]
    BY <1>1, Cleared DEF RemoteClear
  <2> DEFINE U == {"port_stat"} \cup ReceiverRegs
             V == {"port_stat"}
  <2>2. /\ remote["receiver"] \in Seq(U) /\ remote["topo"] \in Seq(V)
        /\ remote = [x \in {"receiver", "topo"} |-> remote[x]]
    BY <1>1 DEF ExptTypeOK
  <2>3. remote[sw] # <<>> /\ remote' = [remote EXCEPT ![sw] = Tail(remote[sw])]
    BY DEF RemoteClear
  <2> HIDE DEF U, V
  <2>4. /\ remote'["receiver"] \in Seq(U) /\ remote'["topo"] \in Seq(V)
        /\ remote' = [x \in {"receiver", "topo"} |-> remote'[x]]
    <3>1. CASE sw = "receiver"
      <4>1. Tail(remote[sw]) \in Seq(U)
        BY <2>2, <2>3, <3>1
      <4>2. QED BY <4>1, <3>1, <2>2, <2>3
    <3>2. CASE sw = "topo"
      <4>1. Tail(remote[sw]) \in Seq(V)
        BY <2>2, <2>3, <3>2
      <4>2. QED BY <4>1, <3>2, <2>2, <2>3
    <3>3. QED BY <3>1, <3>2
  <2>5. QED BY <2>1, <2>4, <1>1, <1>2 DEF ExptTypeOK, RemoteClear, Stays, U, V
<1>4. /\ remote[sw] # <<>>
      /\ Clears(sw, Head(remote[sw]))
      /\ remote' = [remote EXCEPT ![sw] = Tail(@)]
      /\ UNCHANGED <<entry, link, pollers, client, stopEvent, threads>>
  <2>1. Clears(sw, Head(remote[sw]))
    BY <1>1, Cleared DEF RemoteClear
  <2>2. QED BY <2>1 DEF RemoteClear, pollVars
<1>5. /\ Head(remote[sw]) \in {"port_stat"} \cup ReceiverRegs
      /\ sw = "topo" => Head(remote[sw]) = "port_stat"
      /\ remote'["receiver"] \in Seq({"port_stat"} \cup ReceiverRegs)
      /\ remote'["topo"] \in Seq({"port_stat"})
      /\ remote' = [x \in {"receiver", "topo"} |-> remote'[x]]
      /\ \A x \in {"receiver", "topo"} : x # sw => remote'[x] = remote[x]
      /\ remote'[sw] = Tail(remote[sw])
  <2> DEFINE U == {"port_stat"} \cup ReceiverRegs
             V == {"port_stat"}
  <2>1. /\ remote["receiver"] \in Seq(U) /\ remote["topo"] \in Seq(V)
        /\ remote = [x \in {"receiver", "topo"} |-> remote[x]]
    BY <1>1 DEF ExptTypeOK
  <2>2. /\ remote'[sw] = Tail(remote[sw])
        /\ \A x \in {"receiver", "topo"} : x # sw => remote'[x] = remote[x]
        /\ remote' = [x \in {"receiver", "topo"} |-> remote'[x]]
    BY <1>4, <2>1
  <2> HIDE DEF U, V
  <2>3. CASE sw = "receiver"
    <3>1. Head(remote[sw]) \in U /\ Tail(remote[sw]) \in Seq(U)
      BY <2>1, <2>3, <1>4
    <3>2. QED BY <3>1, <2>1, <2>2, <2>3 DEF U, V
  <2>4. CASE sw = "topo"
    <3>1. Head(remote[sw]) \in V /\ Tail(remote[sw]) \in Seq(V)
      BY <2>1, <2>4, <1>4
    <3>2. QED BY <3>1, <2>1, <2>2, <2>4 DEF U, V
  <2>5. QED BY <2>3, <2>4
<1>6. \A x \in {"receiver", "topo"}, name \in {"port_stat"} \cup ReceiverRegs :
        Pending(x, name) => Pending(x, name)' \/ (x = sw /\ name = Head(remote[sw]))
  <2> SUFFICES ASSUME NEW x \in {"receiver", "topo"}, NEW name, Pending(x, name),
                      ~(x = sw /\ name = Head(remote[sw]))
               PROVE  Pending(x, name)'
    OBVIOUS
  <2>1. CASE x # sw
    BY <2>1, <1>5 DEF Pending
  <2>2. CASE x = sw
    <3> DEFINE q == remote[sw]
               U == {"port_stat"} \cup ReceiverRegs
    <3>1. q \in Seq(U) /\ q # <<>>
      <4>1. CASE sw = "receiver"
        BY <4>1, <1>1, <1>4 DEF ExptTypeOK
      <4>2. CASE sw = "topo"
        <5>1. q \in Seq({"port_stat"})
          BY <4>2, <1>1 DEF ExptTypeOK
        <5>2. QED BY <5>1, <1>4
      <4>3. QED BY <4>1, <4>2
    <3> HIDE DEF U
    <3>2. PICK i \in 1 .. Len(q) : q[i] = name
      BY <2>2 DEF Pending
    <3> HIDE DEF q
    <3>3. Len(q) \in Nat /\ i # 1
      BY <3>1, <3>2, <2>2 DEF q
    <3>4. i - 1 \in 1 .. Len(Tail(q)) /\ Tail(q)[i - 1] = name
      BY <3>1, <3>2, <3>3
    <3>5. remote'[x] = Tail(q)
      BY <2>2, <1>5 DEF q
    <3>6. QED BY <3>4, <3>5 DEF Pending
  <2>3. QED BY <2>1, <2>2
<1>7. /\ pktgen'.on = pktgen.on /\ pktgen'.limited = pktgen.limited
      /\ \A c \in PortCounters : Zero(c) => Zero(c)'
      /\ \A c \in PortCounters : shadow[c] = hw[c] => shadow'[c] = hw'[c]
      /\ \A c \in PortCounters \ CountersOf(sw) : hw'[c] = hw[c]
      /\ stale' \subseteq stale /\ hw'["protected"] = hw["protected"]
      /\ Head(remote[sw]) = "port_stat" => \A c \in CountersOf(sw) : Zero(c)'
      /\ \A r \in ReceiverRegs : Head(remote[sw]) = r => r \notin stale'
  <2>1. /\ \A c \in PortCounters : Untouched(c) \/ Zero(c)'
        /\ \A c \in PortCounters \ CountersOf(sw) : Untouched(c)
    BY <1>4 DEF Clears
  <2>2. Head(remote[sw]) # "protected"
    BY <1>5 DEF ReceiverRegs
  <2>3. QED BY <2>1, <2>2, <1>4 DEF Clears, Zero, Untouched
<1>8. /\ remote["receiver"] = <<>> /\ remote["topo"] = <<>> => FALSE
      /\ remote["receiver"] = <<>> => sw = "topo" /\ remote'["receiver"] = <<>>
  BY <1>4, <1>5
<1>9. Going /\ Past("start_traffic") =>
          ~IsEffective /\ sw = "topo" /\ \A c \in {"tx", "rx", "rxFilter"} : hw'[c] = hw[c]
  <2>1. {"tx", "rx", "rxFilter"} \subseteq PortCounters \ CountersOf("topo")
    BY DEF PortCounters, CountersOf
  <2>2. QED BY <2>1, <1>1, <1>2, <1>7, <1>8 DEF Stays, InOrder, RemoteInv
<1>10. TrafficInv'
  BY <1>1, <1>2, <1>4, <1>5, <1>6, <1>7, <1>8, <1>9
     DEF Stays, KeepsBut, Same, InOrder, TrafficInv, AtRest
<1>11. CleanInv'
  <2>1. /\ "tx" \in PortCounters \ CountersOf(sw)
        /\ CountersOf("receiver") \subseteq PortCounters
        /\ "deduped" \in PortCounters /\ "deduped" \in CountersOf("topo")
    BY DEF PortCounters, CountersOf
  <2>2. "port_stat" \notin ReceiverRegs
    BY DEF ReceiverRegs
  <2>3. (\A c \in CountersOf("receiver") : Pending("receiver", "port_stat") \/ Zero(c))
        => \A c \in CountersOf("receiver") : Pending("receiver", "port_stat")' \/ Zero(c)'
    BY <2>1, <1>6, <1>7
  <2>4. (\A r \in ReceiverRegs : Pending("receiver", r) \/ r \notin stale)
        => \A r \in ReceiverRegs : Pending("receiver", r)' \/ r \notin stale'
    BY <1>6, <1>7
  <2>5. Pending("topo", "port_stat") \/ Zero("deduped")
        => Pending("topo", "port_stat")' \/ Zero("deduped")'
    BY <2>1, <1>6, <1>7
  <2>6. Unconfirmed' = Unconfirmed
    BY <1>2 DEF Stays, Unconfirmed
  <2>7. QED BY <2>1, <2>3, <2>4, <2>5, <2>6, <1>1, <1>2, <1>7
               DEF Stays, KeepsBut, Same, CleanInv
<1>12. RemoteInv'
  BY <1>1, <1>2, <1>4, <1>5, <1>6, <1>7, <1>8, <1>9
     DEF Stays, KeepsBut, Same, InOrder, RemoteInv
<1>13. CountInv'
  <2>1. hw'[ReceivedCounter] = hw[ReceivedCounter] \/ ~(Going /\ Past("start_traffic"))
    BY <1>9 DEF ReceivedCounter
  <2>2. ReceivedCounter' = ReceivedCounter /\ MeasuredLosses' = MeasuredLosses
    BY <1>2, <1>4 DEF Stays, ReceivedCounter, MeasuredLosses
  <2>3. QED BY <2>1, <2>2, <1>1, <1>2, <1>4, <1>9
               DEF Stays, KeepsBut, Same, CountInv, Unconfirmed
<1>14. ValuesInv'
  <2>1. hw'[ReceivedCounter] = hw[ReceivedCounter] \/ ~(Going /\ Past("start_traffic"))
    BY <1>9 DEF ReceivedCounter
  <2>2. ReceivedCounter' = ReceivedCounter
    BY <1>2 DEF Stays, ReceivedCounter
  <2>3. QED BY <2>1, <2>2, <1>1, <1>2, <1>7, <1>9
               DEF Stays, KeepsBut, Same, InOrder, ValuesInv
<1>15. PollInv'
  BY <1>1, <1>2, <1>4, <1>5, <1>6, <1>7, <1>8, <1>9
     DEF Stays, KeepsBut, Same, InOrder, PollInv, CountingSwitch
<1>16. ResultsInv'
  BY <1>1, <1>2, <1>4, <1>5, <1>6, <1>7, <1>8, <1>9
     DEF Stays, KeepsBut, Same, InOrder, ResultsInv, MeasuredLosses, Unconfirmed
<1>17. QED BY <1>2, <1>3, <1>10, <1>11, <1>12, <1>13, <1>14, <1>15, <1>16 DEF ExptInv, Stays

\* Ctrl-C while the frames are counted.
LEMMA CountBreaksOffKeeps ==
    ASSUME ExptInv, CountBreaksOff
    PROVE  ExptInv'
<1>1. /\ ExptTypeOK /\ Control /\ TrafficInv /\ CleanInv /\ RemoteInv
      /\ CountInv /\ ValuesInv /\ PollInv /\ ResultsInv
  BY DEF ExptInv
<1>2. Stepped /\ OnScript /\ Head(steps)[1] = "count"
  BY <1>1, Advance DEF ExptTypeOK, CountBreaksOff, Step
<1>3. ExptTypeOK'
  BY <1>1, <1>2 DEF ExptTypeOK, CountBreaksOff, Stepped, pollVars, switchVars
<1>4. /\ "interrupted" \in disturbed' /\ (Unconfirmed' <=> Unconfirmed)
      /\ UNCHANGED <<values, remote, pktgen, entry, stale, hw,
                      shadow, link, pollers, client, stopEvent, threads, results>>
  BY <1>1, <1>2 DEF ExptTypeOK, CountBreaksOff, pollVars, switchVars, Unconfirmed
<1>5. script.name = "effective" /\ Place = 18 + Buffs(script)
  <2>1. script.name = "effective"
    BY DEF CountBreaksOff, IsEffective
  <2>2. QED BY <2>1, <1>2 DEF Stepped, OnScript, Placing, Placed
<1>6. /\ KeepsBut({"count", "stop_thread"})
      /\ IsEffective
      /\ ~Past("sleep") /\ ~Past("stop_poller")
  BY <1>2, <1>5 DEF Stepped, Placing, KeepsBut, Same, Past, IsEffective
<1>7. script.buffs => Same("stop_thread")
  BY <1>2, <1>5, <1>6 DEF Stepped, Placing, Same, Past, IsEffective
<1>8. TrafficInv'
  BY <1>1, <1>2, <1>4, <1>6, <1>7 DEF Stepped, KeepsBut, Same, InOrder, TrafficInv, AtRest
<1>9. CleanInv'
  BY <1>1, <1>2, <1>4, <1>6, <1>7
     DEF Stepped, KeepsBut, Same, InOrder, CleanInv, Unconfirmed, Pending, Zero
<1>10. RemoteInv'
  BY <1>1, <1>2, <1>4, <1>6, <1>7 DEF Stepped, KeepsBut, Same, InOrder, RemoteInv
<1>11. CountInv'
  BY <1>1, <1>2, <1>4, <1>6, <1>7
     DEF Stepped, KeepsBut, Same, InOrder, CountInv, Unconfirmed, ReceivedCounter, MeasuredLosses,
     ForwardedCounter
<1>12. ValuesInv'
  BY <1>1, <1>2, <1>4, <1>6, <1>7
     DEF Stepped, KeepsBut, Same, InOrder, ValuesInv, ReceivedCounter, MeasuredLosses, ForwardedCounter
<1>13. PollInv'
  BY <1>1, <1>2, <1>4, <1>6, <1>7
     DEF Stepped, KeepsBut, Same, InOrder, PollInv, CountingSwitch
<1>14. ResultsInv'
  BY <1>1, <1>2, <1>4, <1>6, <1>7
     DEF Stepped, KeepsBut, Same, InOrder, ResultsInv, MeasuredLosses, Unconfirmed, OnScript
<1>15. QED BY <1>2, <1>3, <1>8, <1>9, <1>10, <1>11, <1>12, <1>13, <1>14
              DEF ExptInv, OnScript

\* A script that was typed in is behind nothing.
LEMMA StartKeeps ==
    ASSUME ExptInv, Start
    PROVE  ExptInv'
<1>1. ExptTypeOK /\ PollInv /\ run < MaxRuns
  BY DEF ExptInv, Start
<1>2. /\ script' \in Scripts /\ steps' = Steps(script') /\ run' = run + 1
      /\ disturbed' = {} /\ results' = NoResults
      /\ UNCHANGED <<remote, switchVars, pollVars>>
  BY DEF Start
<1> DEFINE s == script'
<1>3. /\ Script(Steps(s)) /\ Len(Steps(s)) = NumSteps(s) /\ Placing(s)
      /\ NumSteps(s) \in Nat \ {0}
  <2>1. s \in Scripts
    BY <1>2
  <2> HIDE DEF s
  <2>2. Script(Steps(s)) /\ Len(Steps(s)) = NumSteps(s) /\ Placing(s) /\ NumSteps(s) \in Nat
    BY <2>1, StepsPlaced, Places
  <2>3. CASE s.name = "effective"
    <3>1. NumSteps(s) = 28 + 2 * Buffs(s) /\ Buffs(s) \in 0 .. 1
      BY <2>2, <2>3 DEF Placing
    <3>2. QED BY <2>2, <3>1
  <2>4. CASE s.name = "check"
    <3>1. NumSteps(s) = 15
      BY <2>2, <2>4 DEF Placing
    <3>2. QED BY <2>2, <3>1
  <2>5. QED BY <2>2, <2>3, <2>4 DEF Placing
<1> HIDE DEF s
<1>4. Place' = 1
  BY <1>2, <1>3 DEF Place, s
<1>5. Control'
  <2>1. Len(steps') \in 0 .. NumSteps(script')
    BY <1>2, <1>3 DEF s
  <2>2. ASSUME NEW i \in 1 .. Len(steps') PROVE steps'[i] = Steps(script')[Place' - 1 + i]
    <3>1. Place' - 1 + i = i
      BY <1>4, <2>1
    <3>2. QED BY <3>1, <1>2
  <2>3. QED BY <1>2, <1>3, <2>1, <2>2 DEF Control, s
<1>6. /\ ~Past("halt")' /\ ~Past("drain")' /\ ~Past("port_stat")' /\ ~Past("start_traffic")'
      /\ ~Past("stop_traffic")' /\ ~Past("sleep")' /\ ~Past("rx_ok")' /\ ~Past("tx_all")'
      /\ ~Past("limit")'
      /\ IsEffective' =>
          /\ ~Past("enable")' /\ ~Past("numbers")' /\ ~Past("lack")' /\ ~Past("protected")'
          /\ ~Past("holes")' /\ ~Past("receiver")' /\ ~Past("topo")' /\ ~Past("settle")'
          /\ ~Past("start_poller")' /\ ~Past("count")' /\ ~Past("stop_thread")'
          /\ ~Past("stop_poller")' /\ ~Past("sent")' /\ ~Past("rx_forwarded")'
      /\ ~IsEffective' => ~Past("disable")' /\ ~Past("input")'
  <2>1. /\ Placing(script') /\ Place' = 1
        /\ (IsEffective' <=> script'.name = "effective")
        /\ \A op : Past(op)' <=> Place' > PlaceOf(script', op)
    BY <1>3, <1>4 DEF Past, IsEffective, s
  <2>2. CASE script'.name = "effective"
    BY <2>1, <2>2 DEF Placing
  <2>3. CASE script'.name = "check"
    BY <2>1, <2>3 DEF Placing
  <2>4. QED BY <2>1, <2>2, <2>3 DEF Placing
<1>7. ExptTypeOK'
  <2>1. run' \in 0 .. MaxRuns
    <3>1. run \in 0 .. MaxRuns /\ run < MaxRuns /\ run' = run + 1
      BY <1>1, <1>2 DEF ExptTypeOK
    <3>2. MaxRuns \in Nat
      BY ExperimentAssumption
    <3>3. QED BY <3>1, <3>2
  <2>2. UNCHANGED <<remote, pktgen, entry, stale, hw, shadow, link>>
    BY <1>2 DEF switchVars
  <2>3. /\ remote' = [x \in {"receiver", "topo"} |-> remote'[x]]
        /\ remote'["receiver"] \in Seq({"port_stat"} \cup ReceiverRegs)
        /\ remote'["topo"] \in Seq({"port_stat"})
    BY <1>1, <2>2 DEF ExptTypeOK
  <2>4. /\ pktgen' \in [on : BOOLEAN, limited : BOOLEAN, count : Nat]
        /\ entry' \in {Unset, 0, 1}
        /\ stale' \subseteq SenderRegs \cup ReceiverRegs
    BY <1>1, <2>2 DEF ExptTypeOK
  <2>5. /\ hw' \in [PortCounters \cup {"protected"} -> Nat]
        /\ shadow' \in [PortCounters -> Nat]
        /\ link' \in [sent : Nat, flight : Nat, retx : Nat, lost : Nat, dropped : Nat,
                      unrecovered : Nat]
    BY <1>1, <2>2 DEF ExptTypeOK
  <2>6. QED BY <1>2, <2>1, <2>3, <2>4, <2>5 DEF ExptTypeOK
<1>8. PollInv'
  <2>1. /\ \A r \in threads : r \in 1 .. run
        /\ pollers \in Pollers /\ run \in 0 .. MaxRuns /\ MaxRuns \in Nat
        /\ \A r \in 1 .. MaxRuns : r > run => pollers[r].state = "none"
    BY <1>1, ExperimentAssumption DEF PollInv, ExptTypeOK
  <2>2. /\ run' \in 1 .. MaxRuns /\ run' \notin threads /\ run' > run /\ run' > 0
        /\ \A r \in threads : r \in 1 .. run'
        /\ \A r \in 1 .. MaxRuns : r > run' => r > run
    BY <1>1, <1>2, <2>1
  <2>3. pollers[run'].state = "none"
    BY <2>1, <2>2
  <2>4. pollers' = pollers /\ threads' = threads
    BY <1>2 DEF pollVars
  <2>5. QED BY <1>6, <2>1, <2>2, <2>3, <2>4 DEF PollInv
<1>9. TrafficInv' /\ CleanInv' /\ RemoteInv' /\ CountInv' /\ ValuesInv' /\ ResultsInv'
  BY <1>2, <1>6 DEF TrafficInv, CleanInv, RemoteInv, CountInv, ValuesInv, ResultsInv, MeasuredLosses
<1>10. QED BY <1>5, <1>7, <1>8, <1>9 DEF ExptInv

\* A value is read, or an error ends the script.
LEMMA ReadKeeps ==
    ASSUME ExptInv, Read
    PROVE  ExptInv'
<1>1. ASSUME NEW name, NEW value, NEW error, Value(name, value, error), ~Reads(name, value)
      PROVE  ExptInv'
  <2>1. /\ steps # <<>> /\ steps' = <<>> /\ disturbed' = disturbed
        /\ UNCHANGED <<script, run, values, results, remote, switchVars, pollVars>>
    BY <1>1 DEF Value, Reads, Step
  <2>2. QED BY <2>1, EndsKeep
<1>2. ASSUME Reads("rx_ok", shadow[ReceivedCounter]) \/ Reads("tx_all", shadow["tx"])
             \/ Reads("sent", hw["protected"])
             \/ Reads("rx_forwarded", shadow[ForwardedCounter])
      PROVE  ExptInv'
  BY <1>2, RxOkRead, TxAllRead, SentRead, RxForwardedRead
<1>3. CASE Value("rx_ok", shadow[ReceivedCounter], client["receiver"] # 0)
  BY <1>1, <1>2, <1>3
<1>4. CASE Value("tx_all", shadow["tx"], shadow["tx"] = 0)
  BY <1>1, <1>2, <1>4
<1>5. CASE Value("sent", hw["protected"], FALSE)
  BY <1>1, <1>2, <1>5
<1>6. CASE Value("rx_forwarded", shadow[ForwardedCounter],
                 client[CountingSwitch] # 0 \/ values["sent"] = 0)
  BY <1>1, <1>2, <1>6
<1>7. QED BY <1>3, <1>4, <1>5, <1>6 DEF Read

\* Ctrl-C.
LEMMA InterruptKeeps ==
    ASSUME ExptInv, Interrupt
    PROVE  ExptInv'
<1>1. CASE IsEffective /\ Head(steps)[1] = "count"
  <2>1. CountBreaksOff
    BY <1>1 DEF Interrupt, CountBreaksOff, IsEffective
  <2>2. QED BY <2>1, CountBreaksOffKeeps
<1>2. CASE ~(IsEffective /\ Head(steps)[1] = "count")
  <2>1. /\ steps # <<>> /\ steps' = <<>> /\ disturbed' = disturbed \cup {"interrupted"}
        /\ UNCHANGED <<script, run, values, results, remote, switchVars, pollVars>>
    BY <1>2 DEF Interrupt, IsEffective
  <2>2. QED BY <2>1, EndsKeep
<1>3. QED BY <1>1, <1>2

\* No script runs at first.
LEMMA ExptInitInv == ExptInit => ExptInv
<1> SUFFICES ASSUME ExptInit PROVE ExptInv
  OBVIOUS
<1>1. ~Going /\ results = NoResults /\ Len(steps) = 0
  BY DEF ExptInit, Going
<1>2. ExptTypeOK
  BY ExperimentAssumption DEF ExptInit, ExptTypeOK, PortCounters
<1>3. Control
  <2>1. steps \in Seq({})
    BY DEF ExptInit
  <2>2. Script(steps)
    BY <2>1, SeqIsScript
  <2>3. NumSteps(script) \in Nat
    BY <1>2, Places DEF ExptTypeOK
  <2>4. QED BY <1>1, <2>2, <2>3 DEF Control
<1>4. PollInv
  <2>1. pollers \in Pollers /\ threads = {}
        /\ \A r \in 1 .. MaxRuns : pollers[r].state = "none"
    BY DEF ExptInit, Pollers, PollerStates
  <2>2. QED BY <1>1, <2>1 DEF PollInv
<1>5. QED BY <1>1, <1>2, <1>3, <1>4
       DEF ExptInv, TrafficInv, CleanInv, RemoteInv, CountInv, ValuesInv, ResultsInv, MeasuredLosses

\* Nothing happens.
LEMMA ExptInvUnchanged ==
    ASSUME ExptInv, UNCHANGED exptVars
    PROVE  ExptInv'
<1>1. /\ UNCHANGED <<script, steps, run, disturbed, values, results>>
      /\ UNCHANGED <<remote, pktgen, entry, stale, hw, shadow, link>>
      /\ UNCHANGED <<pollers, client, stopEvent, threads>>
  BY DEF exptVars, runVars, switchVars, pollVars
<1>2. (Place' = Place) /\ (Going' <=> Going) /\ (IsEffective' <=> IsEffective)
      /\ (\A op : Past(op)' <=> Past(op)) /\ (Unconfirmed' <=> Unconfirmed)
      /\ (AtRest' <=> AtRest) /\ CountingSwitch' = CountingSwitch
      /\ ReceivedCounter' = ReceivedCounter /\ ForwardedCounter' = ForwardedCounter
      /\ MeasuredLosses' = MeasuredLosses
  BY <1>1 DEF Place, Going, IsEffective, Past, Unconfirmed, AtRest, CountingSwitch,
     ReceivedCounter, MeasuredLosses, ForwardedCounter
<1>3. ExptTypeOK' /\ Control'
  BY <1>1, <1>2 DEF ExptInv, ExptTypeOK, Control
<1>4. TrafficInv' /\ RemoteInv' /\ CountInv'
  BY <1>1, <1>2 DEF ExptInv, TrafficInv, RemoteInv, CountInv
<1>5. CleanInv'
  BY <1>1, <1>2 DEF ExptInv, CleanInv, Zero, Pending
<1>6. ValuesInv' /\ PollInv' /\ ResultsInv'
  BY <1>1, <1>2 DEF ExptInv, ValuesInv, PollInv, ResultsInv, MeasuredLosses
<1>7. QED BY <1>3, <1>4, <1>5, <1>6 DEF ExptInv

\* Every step keeps the invariant.
LEMMA ExptInvStep == ExptInv /\ [ExptNext]_exptVars => ExptInv'
<1> SUFFICES ASSUME ExptInv, [ExptNext]_exptVars PROVE ExptInv'
  OBVIOUS
<1>1. CASE Start
  BY <1>1, StartKeeps
<1>2. CASE ScriptStep
  <2>1. CASE Clear \/ StopTraffic \/ StartTraffic \/ Limit \/ Protect \/ Remote
    BY <2>1, ClearKeeps, StopTrafficKeeps, StartTrafficKeeps, LimitKeeps, ProtectKeeps,
       RemoteKeeps
  <2>2. CASE Input \/ Sleep \/ StartPoller \/ StartThread \/ Count \/ SetStop \/ Join
    BY <2>2, InputKeeps, SleepKeeps, StartPollerKeeps, StartThreadKeeps, CountKeeps,
       SetStopKeeps, JoinKeeps
  <2>3. CASE StopPoller \/ Read \/ Write
    BY <2>3, StopPollerKeeps, ReadKeeps, WriteKeeps
  <2>4. QED BY <1>2, <2>1, <2>2, <2>3 DEF ScriptStep
<1>3. CASE Interrupt
  BY <1>3, InterruptKeeps
<1>4. CASE Generate \/ Sync
  BY <1>4, GenerateKeeps, SyncKeeps
<1>5. CASE LinkStep
  BY <1>5, TransmitKeeps, RetransmitKeeps DEF LinkStep
<1>6. CASE \E sw \in {"receiver", "topo"} : RemoteClear(sw)
  BY <1>6, RemoteClearKeeps
<1>7. CASE \E r \in 1 .. MaxRuns :
            PollerStarts(r) \/ PollerConnects(r) \/ PollerEnds(r) \/ ThreadEnds(r)
  BY <1>7, PollerStartsKeeps, PollerConnectsKeeps, PollerEndsKeeps, ThreadEndsKeeps
<1>8. CASE UNCHANGED exptVars
  BY <1>8, ExptInvUnchanged
<1>9. QED BY <1>1, <1>2, <1>3, <1>4, <1>5, <1>6, <1>7, <1>8 DEF ExptNext

\* In every reachable state.
THEOREM ExptInvariant == ExptSpec => []ExptInv
BY ExptInitInv, ExptInvStep, PTL DEF ExptSpec

(***************************************************************************)
(* What run_effective_lossRate_linkSpeed_expt resets here and what it      *)
(* makes the other shells reset is reset when it starts the traffic, after *)
(* any number of runs, interrupted at any of their steps (reset_all and    *)
(* exec_remote_bfrt_command, sender/devtest_cmds.py), unless a command to  *)
(* another shell was lost.                                                 *)
(***************************************************************************)
THEOREM StartIsClean == ExptSpec => []CleanStart
<1>1. ASSUME ExptInv PROVE CleanStart
  <2>1. SUFFICES ASSUME steps # <<>>, Head(steps)[1] = "start_traffic", IsEffective,
                        ~Unconfirmed
                 PROVE  /\ ~pktgen.on /\ stale = {}
                        /\ \A c \in DOMAIN hw : hw[c] = 0
                        /\ \A c \in DOMAIN shadow : shadow[c] = 0
    BY DEF CleanStart, IsEffective, Unconfirmed
  <2>2. ExptTypeOK /\ Control /\ TrafficInv /\ CleanInv /\ RemoteInv
    BY <1>1 DEF ExptInv
  <2>3. /\ Place \in 1 .. NumSteps(script) /\ Placed(script, Place, Head(steps))
        /\ Placing(script) /\ NumSteps(script) \in Nat
    BY <2>1, <2>2, NextPlace, Places DEF ExptTypeOK
  <2>4. Place = 16
    BY <2>1, <2>3 DEF Placed, IsEffective
  <2>5. /\ Past("halt") /\ Past("port_stat") /\ Past("numbers") /\ Past("lack")
        /\ Past("protected") /\ Past("holes") /\ Past("receiver") /\ Past("topo")
        /\ Past("settle") /\ ~Past("start_traffic")
    <3>1. \A op : Past(op) <=> Place > PlaceOf(script, op)
      BY DEF Past
    <3>2. script.name = "effective"
      BY <2>1 DEF IsEffective
    <3>3. QED BY <3>1, <3>2, <2>3, <2>4 DEF Placing
  <2>6. Going
    BY <2>1 DEF Going
  <2>7. \A name : ~Pending("receiver", name) /\ ~Pending("topo", name)
    BY <2>1, <2>2, <2>5, <2>6, NothingPending DEF RemoteInv
  <2>8. ~pktgen.on
    BY <2>2, <2>5, <2>6 DEF TrafficInv
  <2>9. stale = {}
    BY <2>1, <2>2, <2>5, <2>6, <2>7 DEF CleanInv, ExptTypeOK, SenderRegs, ReceiverRegs
  <2>10. /\ Zero("tx") /\ Zero("deduped") /\ hw["protected"] = 0
         /\ \A c \in CountersOf("receiver") : Zero(c)
    BY <2>1, <2>2, <2>5, <2>6, <2>7 DEF CleanInv
  <2>11. /\ DOMAIN hw = PortCounters \cup {"protected"} /\ DOMAIN shadow = PortCounters
         /\ PortCounters = {"tx", "deduped"} \cup CountersOf("receiver")
    BY <2>2 DEF ExptTypeOK, PortCounters, CountersOf
  <2>12. QED BY <2>8, <2>9, <2>10, <2>11 DEF Zero
<1>2. QED BY <1>1, ExptInvariant, PTL

(***************************************************************************)
(* The losses the scripts write are those of the link, whatever was sent,  *)
(* lost and interrupted, in both modes.  With emulated drops among them    *)
(* run_effective_lossRate_linkSpeed_expt, which reads the filter's port,   *)
(* writes cable losses and drops, and the packets that no copy of came     *)
(* through; check_loss_rate, which reads the port of the link, writes the  *)
(* cable losses alone (sender/devtest_cmds.py).                            *)
(***************************************************************************)
THEOREM MeasurementIsExact == ExptSpec => []MeasurementExact
<1>1. ASSUME ExptInv PROVE MeasurementExact
  BY <1>1 DEF ExptInv, ResultsInv, MeasuredLosses, MeasurementExact, Unconfirmed
<1>2. QED BY <1>1, ExptInvariant, PTL

(***************************************************************************)
(* A script nobody interrupts leaves the generator off and limited, its    *)
(* thread joined and its poller ended, so that the client number is free   *)
(* (stop_tx_buff_polling, stop_rx_counters_polling,                        *)
(* sender/devtest_cmds.py).                                                *)
(***************************************************************************)
THEOREM NothingIsLeft == ExptSpec => []LeavesNothing
<1>1. ASSUME ExptInv PROVE LeavesNothing
  <2>1. SUFFICES ASSUME results # NoResults, "interrupted" \notin disturbed
                 PROVE  /\ ~pktgen.on /\ pktgen.limited /\ run \notin threads
                        /\ pollers[run].state \in {"none", "ended"}
    BY DEF LeavesNothing
  <2>2. ExptTypeOK /\ Control /\ TrafficInv /\ PollInv
    BY <1>1 DEF ExptInv
  <2>3. Placing(script) /\ NumSteps(script) \in Nat /\ Len(steps) = 0
    BY <2>1, <2>2, Places DEF ExptTypeOK, Control
  <2>4. Place = NumSteps(script) + 1 /\ Place \in Int
    BY <2>3 DEF Place
  <2>5. Past("limit") /\ Going /\ InOrder
    <3>1. InOrder /\ Going
      BY <2>1, <2>3, <2>4, PlacesInOrder DEF Going
    <3>2. Past("limit")
      <4>1. Past("limit") <=> Place > PlaceOf(script, "limit")
        BY DEF Past
      <4>2. CASE script.name = "effective"
        <5>1. /\ Buffs(script) \in 0 .. 1 /\ NumSteps(script) = 28 + 2 * Buffs(script)
              /\ PlaceOf(script, "limit") = 26 + 2 * Buffs(script)
          BY <4>2, <2>3 DEF Placing
        <5>2. QED BY <4>1, <5>1, <2>4
      <4>3. CASE script.name = "check"
        BY <4>1, <4>3, <2>3, <2>4 DEF Placing
      <4>4. QED BY <4>2, <4>3, <2>3 DEF Placing
    <3>3. QED BY <3>1, <3>2
  <2>6. Past("stop_traffic") /\ Past("sleep") /\ (IsEffective => Past("stop_thread"))
    BY <2>5 DEF InOrder
  <2>7. ~pktgen.on /\ pktgen.limited
    BY <2>2, <2>5, <2>6 DEF TrafficInv
  <2>8. run \notin threads /\ pollers[run].state \in {"none", "ended"}
    BY <2>1, <2>2, <2>5, <2>6 DEF PollInv, InOrder
  <2>9. QED BY <2>7, <2>8
<1>2. QED BY <1>1, ExptInvariant, PTL
=============================================================================
