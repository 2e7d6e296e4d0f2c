------------------------------- MODULE Corruptd -------------------------------
(***************************************************************************)
(* The monitoring daemons of the two switches of a link.  The downstream   *)
(* one polls the counters of its port; when the loss rate is bad it looks  *)
(* up the upstream switch in the topology kept in Redis and, unless Redis  *)
(* says that the port is protected, publishes a message.  The upstream one *)
(* programs its switch and records the protection in Redis.                *)
(*                                                                         *)
(* A step ends at an await: between two of them the other coroutine, the   *)
(* other daemon and the set-up tool may run.  Publish and subscribe keep   *)
(* nothing for a daemon that is down.                                      *)
(***************************************************************************)
EXTENDS Integers, Sequences, SequencesExt

CONSTANTS
    MonitoringThreshold,    \* MONITORING_THRESHOLD, frames
    Threshold1, Threshold2, \* frames per lost frame: 1 / LOSS_RATE_THRESHOLD_i
    Traffic,                \* quality of the link -> deltas a poll may see
    MayBecome,              \* quality of the link -> what it may become
    MayClear,               \* values of --clear
    MaxLoads,               \* bound: topologies loaded, the first included
    MaxCrashes,             \* bound: crashes of the upstream daemon
    MaxMessages             \* bound: messages in the mailbox

Qualities == {"healthy", "mild", "severe"}

ASSUME CorruptdAssumption ==
    /\ MonitoringThreshold \in Nat
    /\ Threshold2 \in Nat \ {0} /\ Threshold1 \in Nat /\ Threshold2 < Threshold1
    /\ \A q \in Qualities : \A d \in Traffic[q] : d.ok \in 0 .. d.all
    /\ MayBecome \in [Qualities -> SUBSET Qualities]
    /\ MayClear \subseteq BOOLEAN
    /\ MaxLoads \in Nat \ {0} /\ MaxCrashes \in Nat /\ MaxMessages \in Nat \ {0}

VARIABLES
    quality,    \* of the link
    window,     \* rx_ok_window and rx_all_window of the port
    poller,     \* poll_counters: where it waits, and its locals
    eased,      \* a poll has found less loss than one before (history)
    cached,     \* topo_ver and topo of the downstream daemon
    redis,      \* topo_ver, topo and the protected key
    loader,     \* the set-up tool
    loads,      \* topologies loaded so far
    mailbox,    \* published messages the upstream daemon has not read
    reader,     \* reader: the message it is about to record, if any
    up,         \* the upstream daemon runs
    crashes,    \* how often it has crashed
    tables      \* link_protect and retx_mcast_buffered_pkt upstream

vars == <<quality, window, poller, eased, cached, redis, loader, loads, mailbox,
          reader, up, crashes, tables>>

None == 0
Actions == {1, 2}               \* unicast, multicast
Topologies == 1 .. MaxLoads     \* the n-th one loaded
NoMessage == [action |-> None, topo |-> None]
Message == [action : Actions, topo : Topologies]

pollerVars   == <<quality, window, poller, eased, cached>>
upstreamVars == <<mailbox, reader, up, crashes, tables>>
loaderVars   == <<loader, loads>>

\* The frames of a window: received at all, and received without an error.
Frames(w, kind) == FoldLeft(LAMBDA sum, d : sum + d[kind], 0, w)

Init ==
    /\ quality = "healthy"
    /\ window = <<>>
    /\ poller = [at |-> "sleep", action |-> None, topo |-> None]
    /\ eased = FALSE
    /\ cached = [ver |-> None, topo |-> None]
    /\ redis = [ver |-> 1, topo |-> 1, key |-> None]
    /\ loader = "idle" /\ loads = 1
    /\ mailbox = <<>> /\ reader = NoMessage /\ up = TRUE /\ crashes = 0
    /\ tables = [protect |-> FALSE, retx |-> None, group |-> None]

-----------------------------------------------------------------------------
\* The link gets worse, or better.
QualityChanges ==
    /\ quality' \in MayBecome[quality]
    /\ UNCHANGED <<window, poller, eased, cached, redis, loaderVars, upstreamVars>>

\* compute_loss_rate, is_link_bad, loss_rate_to_action
LossRateAction(w) ==
    LET all  == Frames(w, "all")
        lost == all - Frames(w, "ok")
    IN  IF lost * Threshold2 >= all THEN 2
        ELSE IF lost * Threshold1 >= all THEN 1 ELSE None

\* The window without its newest deltas, as many as make it small enough:
\* pop() takes the last item of a list.
Trimmed(w) ==
    LET small == {n \in 0 .. Len(w) :
                    Frames(SubSeq(w, 1, n), "all") <= MonitoringThreshold}
    IN  SubSeq(w, 1, CHOOSE n \in small : \A m \in small : m <= n)

\* poll_counters, to the first await.
Poll ==
    /\ poller.at = "sleep"
    /\ \E delta \in Traffic[quality] :
        LET w      == Append(window, delta)
            judged == Frames(w, "all") > MonitoringThreshold
            action == IF judged THEN LossRateAction(w) ELSE None
        IN  /\ window' = Trimmed(w)
            /\ eased' = (eased \/ (action # None /\ action < poller.action))
            /\ poller' = IF action = None THEN poller
                         ELSE [at |-> "topo_ver", action |-> action,
                               topo |-> None]
    /\ UNCHANGED <<quality, cached, redis, loaderVars, upstreamVars>>

\* The lookup in the topology that is cached; the daemon dies of a lookup in
\* None.
LookedUp(topo) ==
    IF topo = None THEN [poller EXCEPT !.at = "dead"]
    ELSE [poller EXCEPT !.at = "keys", !.topo = topo]

\* get_upstream after r.get('topo_ver').  Without a version the upstream is
\* (-1, -1, -1), which the caller does not recognise.
GetTopoVersion ==
    /\ poller.at = "topo_ver"
    /\ poller' =
        IF redis.ver = None THEN [poller EXCEPT !.at = "keys"]
        ELSE IF redis.ver # cached.ver THEN [poller EXCEPT !.at = "topo"]
        ELSE LookedUp(cached.topo)
    /\ cached' = IF redis.ver = None THEN cached
                 ELSE [cached EXCEPT !.ver = redis.ver]
    /\ UNCHANGED <<quality, window, eased, redis, loaderVars, upstreamVars>>

\* get_upstream after r.get('topo')
GetTopo ==
    /\ poller.at = "topo"
    /\ poller' = IF redis.topo = None THEN [poller EXCEPT !.at = "keys"]
                 ELSE LookedUp(redis.topo)
    /\ cached' = IF redis.topo = None THEN cached
                 ELSE [cached EXCEPT !.topo = redis.topo]
    /\ UNCHANGED <<quality, window, eased, redis, loaderVars, upstreamVars>>

\* is_protected after r.keys: no key for the port, or for switch -1
GetKeys ==
    /\ poller.at = "keys"
    /\ poller' = [poller EXCEPT !.at =
                    IF redis.key = None \/ poller.topo = None
                    THEN "publish" ELSE "key"]
    /\ UNCHANGED <<quality, window, eased, cached, redis, loaderVars, upstreamVars>>

\* Mutant of ActsMore: any protection is enough.
NeverActsMore(action, key) == FALSE

\* is_protected: the comparison with the recorded action
ActsMore(action, key) == action > key

\* is_protected after r.get; int(None) kills the daemon.
GetKey ==
    /\ poller.at = "key"
    /\ poller' = [poller EXCEPT !.at =
                    IF redis.key = None THEN "dead"
                    ELSE IF ActsMore(poller.action, redis.key) THEN "publish"
                    ELSE "sleep"]
    /\ UNCHANGED <<quality, window, eased, cached, redis, loaderVars, upstreamVars>>

\* r.publish: nobody listens to the topic of switch -1
Publish ==
    /\ poller.at = "publish"
    /\ Len(mailbox) < MaxMessages
    /\ poller' = [poller EXCEPT !.at = "sleep"]
    /\ mailbox' =
        IF ~up \/ poller.topo = None THEN mailbox
        ELSE Append(mailbox, [action |-> poller.action, topo |-> poller.topo])
    /\ UNCHANGED <<quality, window, eased, cached, redis, loaderVars, reader, up,
                   crashes, tables>>

-----------------------------------------------------------------------------
\* Mutant of Reprogrammed: an entry that exists is left as it is.
AddedOnly(old, new) == IF old = None THEN new ELSE old

\* entry_add, or entry_mod of an entry that exists
Reprogrammed(old, new) == new

\* The entries of link_protect and retx_mcast_buffered_pkt.
Programmed(msg) ==
    [protect |-> TRUE,
     retx |-> Reprogrammed(tables.retx, msg.action),
     group |-> Reprogrammed(tables.group, msg.topo)]

\* process_msg and activate_link_guardian, to the await
Activate ==
    /\ up /\ reader = NoMessage /\ mailbox # <<>>
    /\ reader' = Head(mailbox)
    /\ mailbox' = Tail(mailbox)
    /\ tables' = Programmed(Head(mailbox))
    /\ UNCHANGED <<pollerVars, redis, loaderVars, up, crashes>>

\* r.set of the protected key
RecordProtection ==
    /\ up /\ reader # NoMessage
    /\ redis' = [redis EXCEPT !.key = reader.action]
    /\ reader' = NoMessage
    /\ UNCHANGED <<pollerVars, loaderVars, mailbox, up, crashes, tables>>

\* The time-out of reader cancels the r.set it awaits.
ReaderTimeout ==
    /\ up /\ reader # NoMessage
    /\ reader' = NoMessage
    /\ UNCHANGED <<pollerVars, redis, loaderVars, mailbox, up, crashes, tables>>

\* The upstream daemon stops; its switch keeps the table entries.
UpstreamCrash ==
    /\ up /\ crashes < MaxCrashes
    /\ up' = FALSE /\ crashes' = crashes + 1
    /\ mailbox' = <<>> /\ reader' = NoMessage
    /\ UNCHANGED <<pollerVars, redis, loaderVars, tables>>

\* init_redis: it subscribes again.
UpstreamStart ==
    /\ ~up
    /\ up' = TRUE
    /\ UNCHANGED <<pollerVars, redis, loaderVars, mailbox, reader, crashes,
                   tables>>

-----------------------------------------------------------------------------
\* setup.py: clear, if asked to
LoadBegins ==
    /\ loader = "idle" /\ loads < MaxLoads
    /\ \E clear \in MayClear :
        redis' = IF clear THEN [ver |-> None, topo |-> None, key |-> None]
                 ELSE redis
    /\ loader' = "topo_ver" /\ loads' = loads + 1
    /\ UNCHANGED <<pollerVars, upstreamVars>>

\* setup.py: r.set('topo_ver')
LoadVersion ==
    /\ loader = "topo_ver"
    /\ redis' = [redis EXCEPT !.ver = @ + 1]
    /\ loader' = "topo"
    /\ UNCHANGED <<pollerVars, loads, upstreamVars>>

\* setup.py: r.set("topo")
LoadTopo ==
    /\ loader = "topo"
    /\ redis' = [redis EXCEPT !.topo = loads]
    /\ loader' = "idle"
    /\ UNCHANGED <<pollerVars, loads, upstreamVars>>

PollerStep == GetTopoVersion \/ GetTopo \/ GetKeys \/ GetKey \/ Publish

Next ==
    \/ QualityChanges
    \/ Poll \/ PollerStep
    \/ Activate \/ RecordProtection \/ ReaderTimeout
    \/ UpstreamCrash \/ UpstreamStart
    \/ LoadBegins \/ LoadVersion \/ LoadTopo

Spec == Init /\ [][Next]_vars

(***************************************************************************)
(* The loops of the daemons never end and a daemon that is down is started *)
(* again.  The time-out of one second may cut off some of the r.set, not   *)
(* every one.  Nothing obliges the link to get worse or a tool to run.     *)
(***************************************************************************)
FairSpec ==
    /\ Spec
    /\ WF_vars(Poll) /\ WF_vars(PollerStep)
    /\ WF_vars(Activate) /\ SF_vars(RecordProtection) /\ WF_vars(UpstreamStart)
    /\ WF_vars(LoadVersion) /\ WF_vars(LoadTopo)

-----------------------------------------------------------------------------
(* Redis says no more of a port than its switch is programmed to.          *)
KeyMeansProtected ==
    redis.key # None => tables.protect /\ tables.retx >= redis.key

\* The upstream daemon acts on a report weaker than the recorded one.
WeakerReport == Activate /\ Head(mailbox).action < redis.key

(***************************************************************************)
(* A key that says too much ends all reports.  Of all that may happen      *)
(* between the lookup of the key, the report, the tables and the key, only *)
(* one thing gets the key ahead of the tables: a report overtaken by a     *)
(* stronger one's record, which only a link whose loss rate went down      *)
(* between two polls can cause.  Crashes, recordings that are cut off,     *)
(* lost reports and loads of a topology cannot.                            *)
(***************************************************************************)
KeyStaysBacked ==
    [][KeyMeansProtected /\ ~KeyMeansProtected' => WeakerReport /\ eased]_vars

\* The least action for the quality of the link.
Needed(q) == IF q = "severe" THEN 2 ELSE IF q = "mild" THEN 1 ELSE None

(***************************************************************************)
(* A link that goes on losing frames is in the end protected as its loss   *)
(* rate asks for.  It need not be: see the runs light_traffic and          *)
(* fluctuating.                                                            *)
(***************************************************************************)
BadLinkIsProtected ==
    \A q \in Qualities :
        <>[](quality = q) => <>[](tables.retx >= Needed(q))

(***************************************************************************)
(* On a busy link it is, unless a weaker report has left the key ahead of  *)
(* the tables for good: lost messages, a crash of the upstream daemon and  *)
(* recordings that are cut off are made up for by the polls that follow,   *)
(* also when the loss rate has gone up and down before.                    *)
(***************************************************************************)
ProtectedUnlessKeyAhead ==
    \A q \in Qualities :
        <>[](quality = q) =>
            <>[](tables.retx >= Needed(q)) \/ <>[]~KeyMeansProtected

(***************************************************************************)
(* The topology a daemon has cached for a version is the topology that was *)
(* loaded with that version.                                               *)
(***************************************************************************)
CachedTopologyFresh ==
    (loader = "idle" /\ poller.at # "topo" /\ cached.ver = redis.ver)
        => cached.topo = redis.topo
===============================================================================
