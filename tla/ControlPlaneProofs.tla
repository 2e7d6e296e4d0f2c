------------------------- MODULE ControlPlaneProofs -------------------------
(***************************************************************************)
(* The control planes.  The monitoring daemons, for every topology,        *)
(* traffic and number of crashes: Redis says no more of a port than its    *)
(* switch is programmed to, but for one way in which it comes to.  The     *)
(* shells of the testbed, for every number of commands, every speed and    *)
(* number of copies: the tables they fill, in the order of their calls,    *)
(* while the other shells do the same, and where a frame can only get by   *)
(* them.                                                                   *)
(***************************************************************************)
EXTENDS Corruptd, Testbed, FiniteSetTheorems, SequenceTheorems, TLAPS

-----------------------------------------------------------------------------
\* Sequences.

\* A mailbox without its head.
LEMMA MailboxTail ==
    ASSUME NEW S, NEW q \in Seq(S), q # <<>>
    PROVE  /\ Head(q) \in S /\ Tail(q) \in Seq(S)
           /\ Len(q) \in Nat \ {0} /\ DOMAIN q = 1 .. Len(q) /\ Head(q) = q[1]
           /\ DOMAIN Tail(q) = 1 .. Len(q) - 1
           /\ \A i \in 1 .. Len(q) - 1 : Tail(q)[i] = q[i + 1]
OBVIOUS

\* A mailbox with one more message.
LEMMA MailboxAppend ==
    ASSUME NEW S, NEW q \in Seq(S), NEW e \in S
    PROVE  /\ Append(q, e) \in Seq(S)
           /\ Len(q) \in Nat /\ DOMAIN q = 1 .. Len(q)
           /\ DOMAIN Append(q, e) = 1 .. Len(q) + 1
           /\ \A i \in 1 .. Len(q) : Append(q, e)[i] = q[i]
           /\ Append(q, e)[Len(q) + 1] = e
OBVIOUS

-----------------------------------------------------------------------------
(***************************************************************************)
(* Types.  A poll that has found a bad link keeps what it found until it   *)
(* has published it.                                                       *)
(***************************************************************************)
Waiting == {"topo_ver", "topo", "keys", "key", "publish"}
Found   == {None} \cup Actions
Loaded  == {None} \cup Topologies

CorruptdTypeOK ==
    /\ poller \in [at : Waiting \cup {"sleep", "dead"}, action : Found,
                   topo : Loaded]
    /\ poller.at \in Waiting => poller.action \in Actions
    /\ eased \in BOOLEAN
    /\ cached \in [ver : Nat, topo : Loaded]
    /\ redis \in [ver : Nat, topo : Loaded, key : Found]
    /\ loader \in {"idle", "topo_ver", "topo"}
    /\ loads \in Topologies
    /\ mailbox \in Seq(Message)
    /\ reader \in Message \cup {NoMessage}
    /\ up \in BOOLEAN
    /\ tables \in [protect : BOOLEAN, retx : Found, group : Loaded]

\* The initial state is typed.
LEMMA CorruptdTypeInit == Init => CorruptdTypeOK
<1> SUFFICES ASSUME Init PROVE CorruptdTypeOK
  OBVIOUS
<1>1. eased \in BOOLEAN /\ up \in BOOLEAN
  BY DEF Init
<1> QED
  BY <1>1, CorruptdAssumption
     DEF Init, CorruptdTypeOK, Waiting, Found, Loaded, Topologies, Actions, None

\* No message is none of the messages.
LEMMA NoMessageApart == NoMessage \notin Message
BY DEF NoMessage, Message, Actions, None

\* The action for a loss rate is one of those found.
LEMMA LossRateActionType == ASSUME NEW w PROVE LossRateAction(w) \in Found
BY DEF LossRateAction, Found, Actions, None

\* The poller's steps keep the types.
LEMMA PollerTypes ==
    ASSUME CorruptdTypeOK, Poll \/ PollerStep
    PROVE  CorruptdTypeOK'
<1>0. /\ poller \in [at : Waiting \cup {"sleep", "dead"}, action : Found,
                     topo : Loaded]
      /\ cached \in [ver : Nat, topo : Loaded]
      /\ redis \in [ver : Nat, topo : Loaded, key : Found]
      /\ eased \in BOOLEAN
  BY DEF CorruptdTypeOK
<1>1. CASE Poll
  <2>1. PICK a \in Found :
          poller' = IF a = None THEN poller
                    ELSE [at |-> "topo_ver", action |-> a, topo |-> None]
    <3>1. PICK w, judged :
            poller' = LET action == IF judged THEN LossRateAction(w) ELSE None
                      IN  IF action = None THEN poller
                          ELSE [at |-> "topo_ver", action |-> action,
                                topo |-> None]
      BY <1>1 DEF Poll
    <3> DEFINE action == IF judged THEN LossRateAction(w) ELSE None
    <3>2. action \in Found
      BY LossRateActionType DEF Found
    <3> HIDE DEF action
    <3> QED
      BY <3>1, <3>2 DEF action
  <2>2. /\ poller' \in [at : Waiting \cup {"sleep", "dead"}, action : Found,
                        topo : Loaded]
        /\ poller'.at \in Waiting => poller'.action \in Actions
    BY <1>0, <2>1 DEF Waiting, Loaded, Found, Actions, None, CorruptdTypeOK
  <2>3. UNCHANGED <<cached, redis, loaderVars, upstreamVars>> /\ eased' \in BOOLEAN
    BY <1>0, <1>1 DEF Poll
  <2> QED
    BY <2>2, <2>3 DEF loaderVars, upstreamVars, CorruptdTypeOK
<1>2. CASE GetTopoVersion \/ GetTopo
  <2>1. /\ poller'.at \in Waiting \cup {"dead"} /\ poller.at \in Waiting
        /\ poller' \in [at : Waiting \cup {"sleep", "dead"}, action : Found,
                        topo : Loaded]
        /\ poller'.action = poller.action
    BY <1>0, <1>2
       DEF GetTopoVersion, GetTopo, LookedUp, Waiting, Loaded
  <2>2. cached' \in [ver : Nat, topo : Loaded]
    BY <1>0, <1>2 DEF GetTopoVersion, GetTopo
  <2> QED
    BY <1>2, <2>1, <2>2
       DEF GetTopoVersion, GetTopo, loaderVars, upstreamVars, CorruptdTypeOK
<1>3. CASE GetKeys \/ GetKey
  <2>1. /\ poller.at \in Waiting
        /\ poller' \in [at : Waiting \cup {"sleep", "dead"}, action : Found,
                        topo : Loaded]
        /\ poller'.action = poller.action
    BY <1>0, <1>3 DEF GetKeys, GetKey, Waiting
  <2> QED
    BY <1>3, <2>1 DEF GetKeys, GetKey, loaderVars, upstreamVars, CorruptdTypeOK
<1>4. CASE Publish
  <2>1. /\ poller.at \in Waiting /\ poller'.at = "sleep"
        /\ poller' \in [at : Waiting \cup {"sleep", "dead"}, action : Found,
                        topo : Loaded]
    BY <1>0, <1>4 DEF Publish, Waiting
  <2>2. mailbox' \in Seq(Message)
    <3>1. poller.topo # None
            => [action |-> poller.action, topo |-> poller.topo] \in Message
      BY <1>0, <2>1 DEF CorruptdTypeOK, Message, Loaded
    <3> DEFINE m == [action |-> poller.action, topo |-> poller.topo]
    <3>2. mailbox' = mailbox \/ (m \in Message /\ mailbox' = Append(mailbox, m))
      BY <1>4, <3>1 DEF Publish
    <3>3. mailbox \in Seq(Message)
      BY DEF CorruptdTypeOK
    <3> HIDE DEF m
    <3> QED
      BY <3>2, <3>3, MailboxAppend
  <2>3. "sleep" \notin Waiting
    BY DEF Waiting
  <2> QED
    BY <1>4, <2>1, <2>2, <2>3 DEF Publish, loaderVars, CorruptdTypeOK
<1> QED
  BY <1>1, <1>2, <1>3, <1>4 DEF PollerStep

\* The upstream side's steps keep the types.
LEMMA UpstreamTypes ==
    ASSUME CorruptdTypeOK,
           \/ Activate \/ RecordProtection \/ ReaderTimeout
           \/ UpstreamCrash \/ UpstreamStart
    PROVE  CorruptdTypeOK'
<1>1. CASE Activate
  <2> DEFINE m == Head(mailbox)
  <2>1. m \in Message /\ mailbox' \in Seq(Message) /\ reader' = m
    BY <1>1, MailboxTail DEF Activate, CorruptdTypeOK
  <2>2. tables' = [protect |-> TRUE, retx |-> m.action, group |-> m.topo]
    BY <1>1 DEF Activate, Programmed, Reprogrammed
  <2> HIDE DEF m
  <2>3. tables' \in [protect : BOOLEAN, retx : Found, group : Loaded]
    BY <2>1, <2>2 DEF Message, Found, Loaded
  <2> QED
    BY <1>1, <2>1, <2>3 DEF Activate, pollerVars, loaderVars, CorruptdTypeOK
<1>2. CASE RecordProtection
  <2>1. reader.action \in Found
    BY <1>2 DEF RecordProtection, CorruptdTypeOK, Message, Found
  <2>2. redis' \in [ver : Nat, topo : Loaded, key : Found]
    BY <1>2, <2>1 DEF RecordProtection, CorruptdTypeOK
  <2> QED
    BY <1>2, <2>2 DEF RecordProtection, pollerVars, loaderVars, CorruptdTypeOK
<1>3. CASE ReaderTimeout \/ UpstreamStart
  BY <1>3
     DEF ReaderTimeout, UpstreamStart, pollerVars, loaderVars, CorruptdTypeOK
<1>4. CASE UpstreamCrash
  <2>1. <<>> \in Seq(Message)
    OBVIOUS
  <2> QED
    BY <1>4, <2>1 DEF UpstreamCrash, pollerVars, loaderVars, CorruptdTypeOK
<1> QED
  BY <1>1, <1>2, <1>3, <1>4

\* The topology loader's steps keep the types.
LEMMA LoaderTypes ==
    ASSUME CorruptdTypeOK, LoadBegins \/ LoadVersion \/ LoadTopo
    PROVE  CorruptdTypeOK'
<1>0. /\ redis \in [ver : Nat, topo : Loaded, key : Found]
      /\ loads \in Topologies /\ MaxLoads \in Nat
  BY CorruptdAssumption DEF CorruptdTypeOK
<1>1. /\ redis' \in [ver : Nat, topo : Loaded, key : Found]
      /\ loads' \in Topologies /\ loader' \in {"idle", "topo_ver", "topo"}
  BY <1>0
     DEF LoadBegins, LoadVersion, LoadTopo, Topologies, Loaded, Found, None
<1> QED
  BY <1>1
     DEF LoadBegins, LoadVersion, LoadTopo, pollerVars, upstreamVars,
         CorruptdTypeOK

\* Every step keeps the types.
LEMMA CorruptdTypeStep ==
    ASSUME CorruptdTypeOK, [Next]_vars
    PROVE  CorruptdTypeOK'
<1>1. CASE QualityChanges \/ UNCHANGED vars
  BY <1>1
     DEF QualityChanges, vars, loaderVars, upstreamVars, CorruptdTypeOK
<1> QED
  BY <1>1, PollerTypes, UpstreamTypes, LoaderTypes DEF Next

-----------------------------------------------------------------------------
(***************************************************************************)
(* The messages are in the order of the polls that led to them, so as long *)
(* as no poll finds less loss than one before it, the table, the mailbox   *)
(* and the poller hold ever greater actions.  Whatever the polls find, an  *)
(* entry that protects has an action, and what the reader is about to      *)
(* record is in the table.                                                 *)
(***************************************************************************)
MailboxRises ==
    /\ \A i \in DOMAIN mailbox : /\ tables.retx <= mailbox[i].action
                                 /\ mailbox[i].action <= poller.action
    /\ \A i, j \in DOMAIN mailbox :
            i < j => mailbox[i].action <= mailbox[j].action

TablesInv ==
    /\ tables.protect <=> tables.retx # None
    /\ reader # NoMessage => tables.retx = reader.action

KeyInv ==
    /\ MailboxRises
    /\ tables.retx <= poller.action
    /\ redis.key <= tables.retx

DaemonInv == CorruptdTypeOK /\ TablesInv /\ (eased \/ KeyInv)

\* The loss rate the poll has found is no better than the one before.
NoBetter == poller'.action >= poller.action

\* The numbers among the state.
LEMMA KeyTypes ==
    ASSUME CorruptdTypeOK
    PROVE  /\ poller.action \in Nat /\ tables.retx \in Nat /\ redis.key \in Nat
           /\ mailbox \in Seq(Message) /\ DOMAIN mailbox = 1 .. Len(mailbox)
           /\ Len(mailbox) \in Nat
           /\ \A i \in DOMAIN mailbox : mailbox[i].action \in Nat \ {0}
<1>1. Found \subseteq Nat /\ Actions \subseteq Nat \ {0}
  BY DEF Found, Actions, None
<1>2. \A m \in Message : m.action \in Nat \ {0}
  BY <1>1 DEF Message
<1>3. mailbox \in Seq(Message)
  BY DEF CorruptdTypeOK
<1>4. /\ DOMAIN mailbox = 1 .. Len(mailbox) /\ Len(mailbox) \in Nat
      /\ \A i \in DOMAIN mailbox : mailbox[i] \in Message
  BY <1>3
<1>5. poller.action \in Found /\ tables.retx \in Found /\ redis.key \in Found
  BY DEF CorruptdTypeOK
<1> QED
  BY <1>1, <1>2, <1>3, <1>4, <1>5

\* The invariant holds initially.
LEMMA KeyInit == Init => KeyInv /\ TablesInv
BY DEF Init, KeyInv, TablesInv, MailboxRises, None, NoMessage

\* Steps that touch neither mailbox nor tables keep it.
LEMMA KeyFrame ==
    ASSUME CorruptdTypeOK, CorruptdTypeOK', KeyInv, NoBetter,
           UNCHANGED <<mailbox, tables>>,
           redis'.key = redis.key \/ redis'.key = None
    PROVE  KeyInv'
<1>1. ASSUME NEW a \in Nat, NEW b \in Nat, NEW c \in Nat, a <= b, c >= b
      PROVE  a <= c
  BY <1>1
<1>2. poller'.action \in Nat /\ poller'.action >= poller.action
  BY DEF CorruptdTypeOK, NoBetter, Found, Actions, None
<1>3. tables.retx <= poller'.action
  BY <1>1, <1>2, KeyTypes DEF KeyInv
<1>4. \A i \in DOMAIN mailbox : mailbox[i].action <= poller'.action
  BY <1>1, <1>2, KeyTypes DEF KeyInv, MailboxRises
<1>5. MailboxRises'
  BY <1>4 DEF KeyInv, MailboxRises
<1>6. redis'.key <= tables.retx
  BY KeyTypes DEF KeyInv, None
<1> QED
  BY <1>3, <1>5, <1>6 DEF KeyInv

\* Publishing keeps it: the message repeats the poller's action, the largest
\* so far.
LEMMA PublishKey ==
    ASSUME CorruptdTypeOK, CorruptdTypeOK', KeyInv, Publish
    PROVE  KeyInv'
<1> DEFINE m == [action |-> poller.action, topo |-> poller.topo]
           q == Append(mailbox, m)
<1>0. /\ UNCHANGED <<redis, reader, tables>>
      /\ poller'.action = poller.action /\ m.action = poller.action
      /\ mailbox' = mailbox \/ (mailbox' = q /\ poller.topo # None)
  BY DEF Publish, CorruptdTypeOK
<1>1. CASE mailbox' = mailbox
  BY <1>0, <1>1 DEF KeyInv, MailboxRises
<1>2. CASE mailbox' = q /\ poller.topo # None
  <2>1. m \in Message
    BY <1>2 DEF CorruptdTypeOK, Publish, Message, Loaded, Waiting
  <2> HIDE DEF m
  <2>2. /\ DOMAIN q = 1 .. Len(mailbox) + 1 /\ q[Len(mailbox) + 1] = m
        /\ \A i \in 1 .. Len(mailbox) : q[i] = mailbox[i]
    BY <2>1, KeyTypes, MailboxAppend
  <2> HIDE DEF q
  <2>3. Len(mailbox) \in Nat /\ DOMAIN mailbox = 1 .. Len(mailbox)
    BY KeyTypes
  <2>4. ASSUME NEW i \in DOMAIN q
        PROVE  \/ i \in DOMAIN mailbox /\ q[i] = mailbox[i]
               \/ i = Len(mailbox) + 1 /\ q[i] = m
    BY <2>2, <2>3
  <2>5. ASSUME NEW i \in DOMAIN q
        PROVE  tables.retx <= q[i].action /\ q[i].action <= poller.action
    BY <1>0, <2>4, KeyTypes DEF KeyInv, MailboxRises
  <2>6. ASSUME NEW i \in DOMAIN q, NEW j \in DOMAIN q, i < j
        PROVE  q[i].action <= q[j].action
    BY <1>0, <2>4, <2>6, KeyTypes DEF KeyInv, MailboxRises
  <2>7. MailboxRises'
    BY <1>0, <1>2, <2>5, <2>6 DEF MailboxRises
  <2> QED
    BY <1>0, <2>7 DEF KeyInv
<1> QED
  BY <1>0, <1>1, <1>2

\* Activating keeps it: the message taken is the smallest in the mailbox.
LEMMA ActivateKey ==
    ASSUME CorruptdTypeOK, KeyInv, Activate
    PROVE  KeyInv'
<1> DEFINE m == Head(mailbox)
           r == Tail(mailbox)
<1>0. /\ UNCHANGED <<redis, poller>> /\ reader' = m /\ mailbox' = r
      /\ mailbox # <<>>
      /\ tables' = [protect |-> TRUE, retx |-> m.action, group |-> m.topo]
  BY DEF Activate, pollerVars, Programmed, Reprogrammed
<1>1. /\ m = mailbox[1] /\ m \in Message /\ 1 \in DOMAIN mailbox
      /\ DOMAIN r = 1 .. Len(mailbox) - 1
      /\ \A i \in 1 .. Len(mailbox) - 1 : r[i] = mailbox[i + 1]
  BY <1>0, KeyTypes, MailboxTail
<1>2. m.action \in Nat \ {0}
  BY <1>1, KeyTypes
<1> HIDE DEF m, r
<1>3. tables'.retx = m.action /\ tables'.protect = TRUE
  BY <1>0
<1>4. ASSUME NEW i \in DOMAIN r
      PROVE  /\ i + 1 \in DOMAIN mailbox /\ 1 < i + 1 /\ r[i] = mailbox[i + 1]
             /\ i \in Nat
  BY <1>1, <1>4, KeyTypes
<1>5. ASSUME NEW i \in DOMAIN r
      PROVE  m.action <= r[i].action /\ r[i].action <= poller.action
  BY <1>1, <1>4 DEF KeyInv, MailboxRises
<1>6. ASSUME NEW i \in DOMAIN r, NEW j \in DOMAIN r, i < j
      PROVE  r[i].action <= r[j].action
  <2>1. i + 1 < j + 1
    BY <1>4, <1>6
  <2> QED
    BY <1>4, <2>1 DEF KeyInv, MailboxRises
<1>7. MailboxRises'
  BY <1>0, <1>3, <1>5, <1>6 DEF MailboxRises
<1>8. redis.key <= m.action /\ m.action <= poller.action
  BY <1>1, <1>2, KeyTypes DEF KeyInv, MailboxRises
<1> QED
  BY <1>0, <1>3, <1>7, <1>8 DEF KeyInv

\* A poll that leaves the history variable FALSE has found no less loss.
LEMMA NotEased ==
    ASSUME CorruptdTypeOK, CorruptdTypeOK', [Next]_vars, ~eased'
    PROVE  NoBetter /\ ~eased
<1>1. poller.action \in Nat /\ poller'.action \in Nat
  BY DEF CorruptdTypeOK, Found, Actions, None
<1>2. CASE Poll
  <2>1. PICK w, judged :
          /\ eased' = (eased \/ LET action == IF judged THEN LossRateAction(w) ELSE None
                                IN  action # None /\ action < poller.action)
          /\ poller' = LET action == IF judged THEN LossRateAction(w) ELSE None
                       IN  IF action = None THEN poller
                           ELSE [at |-> "topo_ver", action |-> action, topo |-> None]
    BY <1>2 DEF Poll
  <2> DEFINE action == IF judged THEN LossRateAction(w) ELSE None
  <2>2. action \in Found
    BY LossRateActionType DEF Found
  <2>3. /\ ~eased /\ ~(action # None /\ action < poller.action)
        /\ poller' = IF action = None THEN poller
                     ELSE [at |-> "topo_ver", action |-> action, topo |-> None]
    BY <2>1
  <2> HIDE DEF action
  <2>4. action \in Nat /\ None = 0
    BY <2>2 DEF Found, Actions, None
  <2>5. CASE action = None
    BY <1>1, <2>3, <2>5 DEF NoBetter
  <2>6. CASE action # None
    <3>1. poller'.action = action /\ ~(action < poller.action)
      BY <2>3, <2>6
    <3>2. QED BY <1>1, <2>3, <2>4, <3>1 DEF NoBetter
  <2> QED BY <2>5, <2>6
<1>3. CASE GetTopoVersion \/ GetTopo \/ GetKeys \/ GetKey \/ Publish
  <2>1. poller \in [at : Waiting \cup {"sleep", "dead"}, action : Found, topo : Loaded]
    BY DEF CorruptdTypeOK
  <2>2. poller'.action = poller.action
    BY <1>3, <2>1 DEF GetTopoVersion, GetTopo, LookedUp, GetKeys, GetKey, Publish
  <2>3. eased' = eased
    BY <1>3 DEF GetTopoVersion, GetTopo, GetKeys, GetKey, Publish
  <2> QED BY <1>1, <2>2, <2>3 DEF NoBetter
<1>4. CASE UNCHANGED <<poller, eased>>
  BY <1>1, <1>4 DEF NoBetter
<1>5. CASE \/ QualityChanges \/ Activate \/ RecordProtection \/ ReaderTimeout
           \/ UpstreamCrash \/ UpstreamStart
           \/ LoadBegins \/ LoadVersion \/ LoadTopo \/ UNCHANGED vars
  <2>1. UNCHANGED <<poller, eased>>
    BY <1>5 DEF QualityChanges, Activate, RecordProtection, ReaderTimeout, UpstreamCrash,
       UpstreamStart, LoadBegins, LoadVersion, LoadTopo, pollerVars, vars
  <2> QED BY <1>4, <2>1
<1> QED BY <1>2, <1>3, <1>5 DEF Next, PollerStep

\* Every step keeps it, as long as no poll finds less loss.
LEMMA KeyStep ==
    ASSUME CorruptdTypeOK, CorruptdTypeOK', TablesInv, KeyInv, [Next]_vars, ~eased'
    PROVE  KeyInv'
<1>0. NoBetter
  BY NotEased
<1>1. CASE QualityChanges \/ Poll \/ GetTopoVersion \/ GetTopo \/ GetKeys
           \/ GetKey \/ UNCHANGED vars
  BY <1>0, <1>1, KeyFrame
     DEF QualityChanges, Poll, GetTopoVersion, GetTopo, GetKeys, GetKey, vars,
         upstreamVars
<1>2. CASE Publish
  BY <1>2, PublishKey
<1>3. CASE Activate
  BY <1>3, ActivateKey
<1>4. CASE RecordProtection
  <2>1. redis'.key = reader.action /\ tables.retx = reader.action
    BY <1>4 DEF RecordProtection, TablesInv, CorruptdTypeOK
  <2>2. UNCHANGED <<poller, mailbox, tables>>
    BY <1>4 DEF RecordProtection, pollerVars
  <2> QED
    BY <2>1, <2>2, KeyTypes DEF KeyInv, MailboxRises
<1>5. CASE ReaderTimeout \/ UpstreamStart
  BY <1>0, <1>5, KeyFrame DEF ReaderTimeout, UpstreamStart, pollerVars
<1>6. CASE UpstreamCrash
  BY <1>6, KeyTypes DEF UpstreamCrash, pollerVars, KeyInv, MailboxRises
<1>7. CASE LoadBegins \/ LoadVersion \/ LoadTopo
  <2>1. redis'.key = redis.key \/ redis'.key = None
    BY <1>7 DEF LoadBegins, LoadVersion, LoadTopo, CorruptdTypeOK
  <2> QED
    BY <1>0, <1>7, <2>1, KeyFrame
       DEF LoadBegins, LoadVersion, LoadTopo, upstreamVars
<1> QED
  BY <1>1, <1>2, <1>3, <1>4, <1>5, <1>6, <1>7 DEF Next, PollerStep

\* Every step but the activation and the record leaves the tables alone and
\* writes no key.
LEMMA TablesFrame ==
    ASSUME CorruptdTypeOK, [Next]_vars, ~Activate, ~RecordProtection
    PROVE  /\ tables' = tables /\ (reader' = reader \/ reader' = NoMessage)
           /\ redis'.key = redis.key \/ redis'.key = None
<1>1. CASE QualityChanges \/ Poll \/ PollerStep \/ UNCHANGED vars
  BY <1>1 DEF QualityChanges, Poll, PollerStep, GetTopoVersion, GetTopo, GetKeys, GetKey,
     Publish, vars, upstreamVars
<1>2. CASE ReaderTimeout \/ UpstreamCrash \/ UpstreamStart
  BY <1>2 DEF ReaderTimeout, UpstreamCrash, UpstreamStart
<1>3. CASE LoadBegins \/ LoadVersion \/ LoadTopo
  BY <1>3 DEF LoadBegins, LoadVersion, LoadTopo, upstreamVars, CorruptdTypeOK
<1> QED BY <1>1, <1>2, <1>3 DEF Next

\* What an activation and a record do to them.
LEMMA ActivateTables ==
    ASSUME CorruptdTypeOK, Activate
    PROVE  /\ reader' = Head(mailbox) /\ Head(mailbox).action \in Nat \ {0}
           /\ tables'.protect = TRUE /\ tables'.retx = Head(mailbox).action
           /\ redis' = redis /\ eased' = eased
<1>1. Head(mailbox) \in Message
  BY MailboxTail DEF Activate, CorruptdTypeOK
<1> DEFINE m == Head(mailbox)
<1>2. /\ reader' = m /\ redis' = redis /\ eased' = eased
      /\ tables' = [protect |-> TRUE, retx |-> m.action, group |-> m.topo]
  BY DEF Activate, Programmed, Reprogrammed, pollerVars
<1> HIDE DEF m
<1>3. m.action \in Nat \ {0}
  BY <1>1 DEF m, Message, Actions
<1> QED BY <1>2, <1>3 DEF m

\* Every step keeps what holds of the tables.
LEMMA TablesStep ==
    ASSUME CorruptdTypeOK, TablesInv, [Next]_vars
    PROVE  TablesInv'
<1>1. CASE Activate
  BY <1>1, ActivateTables DEF TablesInv, None
<1>2. CASE RecordProtection
  BY <1>2 DEF RecordProtection, TablesInv
<1>3. CASE ~Activate /\ ~RecordProtection
  BY <1>3, TablesFrame DEF TablesInv
<1> QED BY <1>1, <1>2, <1>3

\* Every step keeps the invariant of the daemons.
LEMMA DaemonStep ==
    ASSUME DaemonInv, [Next]_vars
    PROVE  DaemonInv'
<1>1. CorruptdTypeOK /\ CorruptdTypeOK' /\ TablesInv /\ TablesInv'
  BY CorruptdTypeStep, TablesStep DEF DaemonInv
<1>2. ASSUME ~eased' PROVE KeyInv'
  BY <1>1, <1>2, NotEased, KeyStep DEF DaemonInv
<1> QED BY <1>1, <1>2 DEF DaemonInv

(***************************************************************************)
(* Of all that the two daemons and the set-up tool do, whatever the link,  *)
(* the crashes, the recordings that are cut off and the topologies loaded, *)
(* one step alone gets the key of Redis ahead of the tables: the upstream  *)
(* daemon activating a report weaker than the one it has recorded          *)
(* (activate_link_guardian, corruptd.py), and that only after a poll has   *)
(* found less loss than one before it.  So as long as the loss rate of the *)
(* link does not go down, Redis never claims a protection that the switch  *)
(* does not have.                                                          *)
(***************************************************************************)
THEOREM KeyIsBacked == Spec => KeyStaysBacked
<1> DEFINE Breaks == KeyMeansProtected /\ ~KeyMeansProtected'
<1>1. ASSUME DaemonInv, [Next]_vars, Breaks
      PROVE  WeakerReport /\ eased
  <2>1. /\ CorruptdTypeOK /\ CorruptdTypeOK' /\ TablesInv /\ TablesInv'
        /\ DaemonInv'
    BY <1>1, DaemonStep DEF DaemonInv
  <2>2. eased'
    <3>1. redis'.key \in Nat /\ tables'.retx \in Nat
      BY <2>1 DEF CorruptdTypeOK, Found, Actions, None
    <3>2. ASSUME KeyInv' PROVE FALSE
      BY <1>1, <2>1, <3>1, <3>2 DEF KeyInv, TablesInv, KeyMeansProtected, None
    <3>3. QED BY <2>1, <3>2 DEF DaemonInv
  <2>3. ~RecordProtection
    <3>1. ASSUME RecordProtection PROVE FALSE
      <4>1. redis'.key = reader.action /\ tables' = tables /\ tables.retx = reader.action
        BY <2>1, <3>1 DEF RecordProtection, TablesInv, CorruptdTypeOK
      <4>2. tables'.retx \in Nat /\ (tables'.protect <=> tables'.retx # None)
        BY <2>1 DEF TablesInv, CorruptdTypeOK, Found, Actions, None
      <4>3. QED BY <1>1, <4>1, <4>2 DEF KeyMeansProtected
    <3>2. QED BY <3>1
  <2>4. Activate
    <3>1. ASSUME ~Activate PROVE FALSE
      BY <1>1, <2>1, <2>3, <3>1, TablesFrame DEF KeyMeansProtected
    <3>2. QED BY <3>1
  <2>5. /\ tables'.protect = TRUE /\ tables'.retx = Head(mailbox).action
        /\ Head(mailbox).action \in Nat /\ redis' = redis /\ eased' = eased
    BY <2>1, <2>4, ActivateTables
  <2>6. redis.key \in Nat
    BY <2>1, KeyTypes
  <2>7. Head(mailbox).action < redis.key
    BY <1>1, <2>5, <2>6 DEF KeyMeansProtected
  <2>8. QED BY <2>2, <2>4, <2>5, <2>7 DEF WeakerReport
<1>2. Init => DaemonInv
  BY CorruptdTypeInit, KeyInit DEF DaemonInv
<1>3. DaemonInv /\ [Next]_vars => DaemonInv'
  BY DaemonStep
<1>4. DaemonInv /\ [Next]_vars
        => [KeyMeansProtected /\ ~KeyMeansProtected' => WeakerReport /\ eased]_vars
  BY <1>1
<1> QED
  BY <1>2, <1>3, <1>4, PTL DEF Spec, KeyStaysBacked
-----------------------------------------------------------------------------
(***************************************************************************)
(* Scripts: the calls a shell has still to make.                           *)
(***************************************************************************)

Script(s) == s \in Seq(Range(s))

\* A sequence is a script over its own elements.
LEMMA SeqIsScript ==
    ASSUME NEW S, NEW s \in Seq(S)
    PROVE  Script(s)
<1>1. \A i \in 1 .. Len(s) : s[i] \in Range(s)
  BY DEF Range
<1>2. s = [i \in 1 .. Len(s) |-> s[i]] /\ Len(s) \in Nat
  OBVIOUS
<1>3. QED BY <1>1, <1>2 DEF Script

\* The empty script.
LEMMA NoCalls == Script(<<>>) /\ Len(<<>>) = 0
<1>1. <<>> \in Seq({})
  OBVIOUS
<1>2. QED BY <1>1, SeqIsScript

\* One script after the other.
LEMMA ScriptConcat ==
    ASSUME NEW s, NEW t, Script(s), Script(t)
    PROVE  /\ Script(s \o t) /\ Len(s \o t) = Len(s) + Len(t)
           /\ \A i \in 1 .. Len(s) : (s \o t)[i] = s[i]
           /\ \A i \in 1 .. Len(t) : (s \o t)[Len(s) + i] = t[i]
<1> DEFINE U == Range(s) \cup Range(t)
<1>1. s \in Seq(U) /\ t \in Seq(U)
  <2>1. s \in Seq(Range(s)) /\ t \in Seq(Range(t))
    BY DEF Script
  <2> HIDE DEF U
  <2>2. Range(s) \subseteq U /\ Range(t) \subseteq U
    BY DEF U
  <2>3. QED BY <2>1, <2>2
<1> HIDE DEF U
<1>2. s \o t \in Seq(U)
  BY <1>1
<1>3. Script(s \o t)
  BY <1>2, SeqIsScript
<1>4. QED BY <1>1, <1>3

\* What is left of a script after its first call.
LEMMA ScriptTail ==
    ASSUME NEW s, Script(s), s # <<>>
    PROVE  /\ Script(Tail(s)) /\ Len(s) \in Nat \ {0} /\ Len(Tail(s)) = Len(s) - 1
           /\ Head(s) = s[1]
           /\ \A i \in 1 .. Len(s) - 1 : Tail(s)[i] = s[i + 1]
<1>1. s \in Seq(Range(s))
  BY DEF Script
<1> DEFINE U == Range(s)
<1> HIDE DEF U
<1>2. s \in Seq(U)
  BY <1>1 DEF U
<1>3. Tail(s) \in Seq(U)
  BY <1>2
<1>4. Script(Tail(s))
  BY <1>3, SeqIsScript
<1>5. QED BY <1>2, <1>4

-----------------------------------------------------------------------------
(***************************************************************************)
(* The effect of the calls a shell has still to make.  T is what the       *)
(* tables of the switch hold, s what the shell has still to do.            *)
(***************************************************************************)

Deletes(call, key) == call.op \in {"delete", "clear"} /\ call.key = key
Adds(call, key) == call.op = "add" /\ call.key = key

\* The driver refuses the call.
Declined(T, call) ==
    \/ call.op = "add" /\ call.key \in DOMAIN T
    \/ call.op = "delete" /\ call.key \notin DOMAIN T

\* The tables after one call, by the kind of the call.
LEMMA AppliedIs ==
    ASSUME NEW T, NEW call
    PROVE  /\ call.op = "add" =>
                /\ DOMAIN Applied(T, call) = DOMAIN T \cup {call.key}
                /\ Applied(T, call)[call.key] = call.data
                /\ \A k \in DOMAIN T : k # call.key => Applied(T, call)[k] = T[k]
           /\ call.op \in {"delete", "clear"} =>
                /\ DOMAIN Applied(T, call) = DOMAIN T \ {call.key}
                /\ \A k \in DOMAIN T \ {call.key} : Applied(T, call)[k] = T[k]
           /\ call.op = "inject" => Applied(T, call) = T
BY DEF Applied, Restrict

Ops == {"add", "delete", "clear", "inject"}

\* Nothing happens to an entry after it is added.
Settles(s) ==
    /\ \A i \in 1 .. Len(s) : s[i].op \in Ops
    /\ \A i, j \in 1 .. Len(s) :
         i < j /\ s[i].op = "add" => s[j].op = "inject" \/ s[j].key # s[i].key

\* No call will be declined.
Accepted(T, s) ==
    \A j \in 1 .. Len(s) :
        /\ s[j].op = "add" =>
            \/ s[j].key \notin DOMAIN T
            \/ \E i \in 1 .. j - 1 : Deletes(s[i], s[j].key)
        /\ s[j].op = "delete" =>
            /\ s[j].key \in DOMAIN T
            /\ \A i \in 1 .. j - 1 : ~ Deletes(s[i], s[j].key)

\* Before call n, the key has the data.
Holds(T, s, n, key, data) ==
    \/ \E i \in 1 .. n - 1 : Adds(s[i], key) /\ s[i].data = data
    \/ /\ key \in DOMAIN T /\ T[key] = data
       /\ \A i \in 1 .. n - 1 : ~ Deletes(s[i], key)

\* After the last call, there is no such key.
Lacks(T, s, key) ==
    /\ \A i \in 1 .. Len(s) : ~ Adds(s[i], key)
    /\ key \notin DOMAIN T \/ \E i \in 1 .. Len(s) : Deletes(s[i], key)

\* A script that settles still does after its first call.
LEMMA SettlesTail ==
    ASSUME NEW s, Script(s), s # <<>>, Settles(s)
    PROVE  Settles(Tail(s))
<1>1. /\ Len(s) \in Nat \ {0} /\ Len(Tail(s)) = Len(s) - 1
      /\ \A i \in 1 .. Len(s) - 1 : Tail(s)[i] = s[i + 1]
  BY ScriptTail
<1>2. QED BY <1>1 DEF Settles

\* A script that is accepted starts with a call that is, and its rest is
\* accepted after it.
LEMMA AcceptedTail ==
    ASSUME NEW T, NEW s, Script(s), s # <<>>, Settles(s), Accepted(T, s)
    PROVE  ~ Declined(T, s[1]) /\ Accepted(Applied(T, s[1]), Tail(s))
<1>1. /\ Len(s) \in Nat \ {0} /\ Len(Tail(s)) = Len(s) - 1
      /\ \A i \in 1 .. Len(s) - 1 : Tail(s)[i] = s[i + 1]
  BY ScriptTail
<1> DEFINE R == Tail(s)
           T2 == Applied(T, s[1])
<1>2. ~ Declined(T, s[1])
  BY <1>1 DEF Declined, Accepted
<1>3. /\ s[1].op = "add" => DOMAIN T2 = DOMAIN T \cup {s[1].key}
      /\ s[1].op \in {"delete", "clear"} => DOMAIN T2 = DOMAIN T \ {s[1].key}
      /\ s[1].op = "inject" => DOMAIN T2 = DOMAIN T
      /\ s[1].op \in Ops
  <2> DEFINE c == s[1]
  <2>1. c.op \in Ops
    BY <1>1 DEF Settles
  <2> HIDE DEF c
  <2>2. /\ c.op = "add" => DOMAIN Applied(T, c) = DOMAIN T \cup {c.key}
        /\ c.op \in {"delete", "clear"} => DOMAIN Applied(T, c) = DOMAIN T \ {c.key}
        /\ c.op = "inject" => DOMAIN Applied(T, c) = DOMAIN T
    BY AppliedIs
  <2>3. QED BY <2>1, <2>2 DEF c
<1>4. ASSUME NEW j \in 1 .. Len(R), R[j].op = "add"
      PROVE  R[j].key \notin DOMAIN T2 \/ \E i \in 1 .. j - 1 : Deletes(R[i], R[j].key)
  <2> DEFINE k == R[j].key
  <2> HIDE DEF R, T2
  <2>1. s[j + 1].op = "add" /\ s[j + 1].key = k /\ j + 1 \in 1 .. Len(s) /\ j \in Nat
    BY <1>1, <1>4 DEF R
  <2>2. s[1].op = "add" => s[1].key # k
    BY <2>1, <1>1 DEF Settles
  <2>3. CASE k \notin DOMAIN T
    BY <2>3, <2>2, <1>3 DEF Ops
  <2>4. CASE \E i \in 1 .. j : Deletes(s[i], k)
    <3>1. PICK i \in 1 .. j : Deletes(s[i], k)
      BY <2>4
    <3>2. CASE i = 1
      BY <3>1, <3>2, <1>3 DEF Deletes
    <3>3. CASE i # 1
      <4>1. i - 1 \in 1 .. j - 1 /\ R[i - 1] = s[i]
        BY <3>3, <2>1, <1>1 DEF R
      <4>2. QED BY <4>1, <3>1
    <3>4. QED BY <3>2, <3>3
  <2>5. k \notin DOMAIN T \/ \E i \in 1 .. j : Deletes(s[i], k)
    BY <2>1 DEF Accepted
  <2>6. QED BY <2>3, <2>4, <2>5
<1>5. ASSUME NEW j \in 1 .. Len(R), R[j].op = "delete"
      PROVE  R[j].key \in DOMAIN T2 /\ \A i \in 1 .. j - 1 : ~ Deletes(R[i], R[j].key)
  <2> DEFINE k == R[j].key
  <2> HIDE DEF R, T2
  <2>1. s[j + 1].op = "delete" /\ s[j + 1].key = k /\ j + 1 \in 1 .. Len(s) /\ j \in Nat
    BY <1>1, <1>5 DEF R
  <2>2. k \in DOMAIN T /\ \A i \in 1 .. j : ~ Deletes(s[i], k)
    BY <2>1 DEF Accepted
  <2>3. k \in DOMAIN T2
    BY <2>2, <2>1, <1>3 DEF Deletes, Ops
  <2>4. \A i \in 1 .. j - 1 : R[i] = s[i + 1] /\ i + 1 \in 1 .. j
    BY <2>1, <1>1 DEF R
  <2>5. QED BY <2>2, <2>3, <2>4
<1>6. QED BY <1>2, <1>4, <1>5 DEF Accepted

\* What holds before call n holds, after the first call, before call n - 1.
LEMMA HoldsTail ==
    ASSUME NEW T, NEW s, Script(s), s # <<>>, Settles(s), ~ Declined(T, s[1]),
           NEW n \in 2 .. Len(s) + 1, NEW key, NEW data, Holds(T, s, n, key, data)
    PROVE  Holds(Applied(T, s[1]), Tail(s), n - 1, key, data)
<1>1. /\ Len(s) \in Nat \ {0} /\ Len(Tail(s)) = Len(s) - 1
      /\ \A i \in 1 .. Len(s) - 1 : Tail(s)[i] = s[i + 1]
  BY ScriptTail
<1> DEFINE R == Tail(s)
           T2 == Applied(T, s[1])
<1> HIDE DEF R, T2
<1>2. \A i \in 1 .. n - 2 : R[i] = s[i + 1] /\ i + 1 \in 1 .. n - 1
  BY <1>1 DEF R
<1>3. CASE \E i \in 1 .. n - 1 : Adds(s[i], key) /\ s[i].data = data
  <2>1. PICK i \in 1 .. n - 1 : Adds(s[i], key) /\ s[i].data = data
    BY <1>3
  <2>2. CASE i = 1
    <3> DEFINE c == s[1]
    <3>0. c.op = "add" /\ c.key = key /\ c.data = data
      BY <2>1, <2>2 DEF Adds
    <3> HIDE DEF c
    <3>1. key \in DOMAIN T2 /\ T2[key] = data
      <4>1. c.key \in DOMAIN Applied(T, c) /\ Applied(T, c)[c.key] = c.data
        <5>1. c.op = "add"
          BY <3>0
        <5>2. c.key \in DOMAIN T \cup {c.key}
          OBVIOUS
        <5>3. DOMAIN Applied(T, c) = DOMAIN T \cup {c.key} /\ Applied(T, c)[c.key] = c.data
          BY <5>1, AppliedIs
        <5>4. QED BY <5>2, <5>3
      <4>2. QED BY <4>1, <3>0 DEF c, T2
    <3>2. \A j \in 1 .. n - 2 : ~ Deletes(R[j], key)
      BY <2>1, <2>2, <1>2, <1>1 DEF Settles, Adds, Deletes, Ops
    <3>3. QED BY <3>1, <3>2 DEF Holds, R, T2
  <2>3. CASE i # 1
    <3>1. i - 1 \in 1 .. (n - 1) - 1 /\ R[i - 1] = s[i]
      BY <2>3, <1>2
    <3>2. QED BY <3>1, <2>1 DEF Holds, R
  <2>4. QED BY <2>2, <2>3
<1>4. CASE /\ key \in DOMAIN T /\ T[key] = data
           /\ \A i \in 1 .. n - 1 : ~ Deletes(s[i], key)
  <2>1. 1 \in 1 .. n - 1 /\ ~ Deletes(s[1], key)
    BY <1>4
  <2>2. key \in DOMAIN T2 /\ T2[key] = data
    <3> DEFINE c == s[1]
    <3>1. c.op \in Ops /\ ~ Declined(T, c) /\ ~ Deletes(c, key)
      BY <1>1, <2>1 DEF Settles
    <3> HIDE DEF c
    <3>2. \/ c.op = "inject"
          \/ c.op = "add" /\ c.key # key
          \/ c.op \in {"delete", "clear"} /\ c.key # key
      BY <3>1, <1>4 DEF Declined, Deletes, Ops
    <3>3. key \in DOMAIN Applied(T, c) /\ Applied(T, c)[key] = data
      BY <3>2, <1>4, AppliedIs
    <3>4. QED BY <3>3 DEF c, T2
  <2>3. \A i \in 1 .. (n - 1) - 1 : ~ Deletes(R[i], key)
    BY <1>4, <1>2
  <2>4. QED BY <2>2, <2>3 DEF Holds, R, T2
<1>5. QED BY <1>3, <1>4 DEF Holds

\* What is lacking in the end is lacking in the end of the rest.
LEMMA LacksTail ==
    ASSUME NEW T, NEW s, Script(s), s # <<>>, Settles(s), NEW key, Lacks(T, s, key)
    PROVE  Lacks(Applied(T, s[1]), Tail(s), key)
<1>1. /\ Len(s) \in Nat \ {0} /\ Len(Tail(s)) = Len(s) - 1
      /\ \A i \in 1 .. Len(s) - 1 : Tail(s)[i] = s[i + 1]
  BY ScriptTail
<1> DEFINE R == Tail(s)
           T2 == Applied(T, s[1])
<1>2. \A i \in 1 .. Len(R) : ~ Adds(R[i], key)
  BY <1>1 DEF Lacks
<1>3. /\ s[1].op = "add" => DOMAIN T2 = DOMAIN T \cup {s[1].key}
      /\ s[1].op \in {"delete", "clear"} => DOMAIN T2 = DOMAIN T \ {s[1].key}
      /\ s[1].op = "inject" => DOMAIN T2 = DOMAIN T
      /\ s[1].op \in Ops
  <2> DEFINE c == s[1]
  <2>1. c.op \in Ops
    BY <1>1 DEF Settles
  <2> HIDE DEF c
  <2>2. /\ c.op = "add" => DOMAIN Applied(T, c) = DOMAIN T \cup {c.key}
        /\ c.op \in {"delete", "clear"} => DOMAIN Applied(T, c) = DOMAIN T \ {c.key}
        /\ c.op = "inject" => DOMAIN Applied(T, c) = DOMAIN T
    BY AppliedIs
  <2>3. QED BY <2>1, <2>2 DEF c
<1> HIDE DEF R, T2
<1>4. CASE key \notin DOMAIN T
  <2>1. ~ Adds(s[1], key)
    BY <1>1 DEF Lacks
  <2>2. key \notin DOMAIN T2
    BY <2>1, <1>3, <1>4 DEF Adds, Ops
  <2>3. QED BY <2>2, <1>2 DEF Lacks, R, T2
<1>5. CASE \E i \in 1 .. Len(s) : Deletes(s[i], key)
  <2>1. PICK i \in 1 .. Len(s) : Deletes(s[i], key)
    BY <1>5
  <2>2. CASE i = 1
    <3>1. key \notin DOMAIN T2
      BY <2>1, <2>2, <1>3 DEF Deletes
    <3>2. QED BY <3>1, <1>2 DEF Lacks, R, T2
  <2>3. CASE i # 1
    <3>1. i - 1 \in 1 .. Len(R) /\ R[i - 1] = s[i]
      BY <2>3, <1>1 DEF R
    <3>2. QED BY <3>1, <2>1, <1>2 DEF Lacks, R
  <2>4. QED BY <2>2, <2>3
<1>6. QED BY <1>4, <1>5 DEF Lacks

-----------------------------------------------------------------------------
\* The calls of the scripts, listed.

\* A function on 1 .. n is a script of length n.
LEMMA IndexedIsScript ==
    ASSUME NEW n \in Nat, NEW s, s = [i \in 1 .. n |-> s[i]]
    PROVE  Script(s) /\ Len(s) = n
<1> DEFINE U == {s[i] : i \in 1 .. n}
<1>1. s \in [1 .. n -> U]
  OBVIOUS
<1> HIDE DEF U
<1>2. s \in Seq(U) /\ Len(s) = n
  BY <1>1
<1>3. QED BY <1>2, SeqIsScript

\* A script is a function on 1 .. n.
LEMMA ScriptIsIndexed ==
    ASSUME NEW s, Script(s)
    PROVE  s = [i \in 1 .. Len(s) |-> s[i]] /\ Len(s) \in Nat
<1> DEFINE U == Range(s)
<1>1. s \in Seq(U)
  BY DEF Script
<1> HIDE DEF U
<1>2. QED BY <1>1

\* u is s, of length m, followed by t, of length n.
Joins(u, s, m, t, n) ==
    /\ Script(u) /\ Len(u) = m + n
    /\ \A i \in 1 .. m : u[i] = s[i]
    /\ \A i \in 1 .. n : u[m + i] = t[i]

\* Concatenation joins two scripts.
LEMMA ConcatJoins ==
    ASSUME NEW s, NEW t, NEW m, NEW n,
           Script(s), Len(s) = m, Script(t), Len(t) = n
    PROVE  Joins(s \o t, s, m, t, n)
<1>1. /\ Script(s \o t) /\ Len(s \o t) = Len(s) + Len(t)
      /\ \A i \in 1 .. Len(s) : (s \o t)[i] = s[i]
      /\ \A i \in 1 .. Len(t) : (s \o t)[Len(s) + i] = t[i]
  BY ScriptConcat
<1>2. QED BY <1>1 DEF Joins

\* One call for every node, in their order.
LEMMA NodeCalls ==
    ASSUME NEW n \in Nat \ {0},
           NEW s, s = [i \in 1 .. n |-> Delete("node", i - 1)] \o <<Delete("group", 1)>>,
           NEW t, t = [i \in 1 .. n |-> Add("node", i - 1, 32)]
                        \o <<Add("group", 1, 0 .. n - 1), Add("retx", 32, "mcast")>>
    PROVE  /\ Script(s) /\ Len(s) = n + 1
           /\ \A i \in 1 .. n : s[i] = Delete("node", i - 1)
           /\ s[n + 1] = Delete("group", 1)
           /\ Script(t) /\ Len(t) = n + 2
           /\ \A i \in 1 .. n : t[i] = Add("node", i - 1, 32)
           /\ t[n + 1] = Add("group", 1, 0 .. n - 1) /\ t[n + 2] = Add("retx", 32, "mcast")
<1> DEFINE a == [i \in 1 .. n |-> Delete("node", i - 1)]
           b == <<Delete("group", 1)>>
           c == [i \in 1 .. n |-> Add("node", i - 1, 32)]
           d == <<Add("group", 1, 0 .. n - 1), Add("retx", 32, "mcast")>>
<1>1. s = a \o b /\ t = c \o d
  OBVIOUS
<1>2. a = [i \in 1 .. n |-> a[i]] /\ b = [i \in 1 .. 1 |-> b[i]]
  OBVIOUS
<1>3. c = [i \in 1 .. n |-> c[i]] /\ d = [i \in 1 .. 2 |-> d[i]]
  OBVIOUS
<1>4. /\ \A i \in 1 .. n : a[i] = Delete("node", i - 1) /\ c[i] = Add("node", i - 1, 32)
      /\ b[1] = Delete("group", 1)
      /\ d[1] = Add("group", 1, 0 .. n - 1) /\ d[2] = Add("retx", 32, "mcast")
  OBVIOUS
<1> DEFINE u == a \o b
           v == c \o d
<1> HIDE DEF a, b, c, d
<1>5. Script(a) /\ Len(a) = n /\ Script(b) /\ Len(b) = 1
  BY <1>2, IndexedIsScript
<1>6. Script(c) /\ Len(c) = n /\ Script(d) /\ Len(d) = 2
  BY <1>3, IndexedIsScript
<1>7. u = a \o b /\ v = c \o d
  OBVIOUS
<1> HIDE DEF u, v
<1>8. /\ Script(u) /\ Len(u) = n + 1
      /\ \A i \in 1 .. n : u[i] = a[i]
      /\ \A i \in 1 .. 1 : u[n + i] = b[i]
  <2>1. Joins(a \o b, a, n, b, 1)
    BY <1>5, ConcatJoins
  <2>2. QED BY <2>1, <1>7 DEF Joins
<1>9. /\ Script(v) /\ Len(v) = n + 2
      /\ \A i \in 1 .. n : v[i] = c[i]
      /\ \A i \in 1 .. 2 : v[n + i] = d[i]
  <2>1. Joins(c \o d, c, n, d, 2)
    BY <1>6, ConcatJoins
  <2>2. QED BY <2>1, <1>7 DEF Joins
<1>10. u[n + 1] = b[1] /\ v[n + 1] = d[1] /\ v[n + 2] = d[2]
  BY <1>8, <1>9
<1>11. QED BY <1>1, <1>4, <1>7, <1>8, <1>9, <1>10

\* What is deleted, and what is added, to get from c copies to n.
Removed(c) == IF c > 1 THEN c + 1 ELSE 0
Provided(n) == IF n > 1 THEN n + 2 ELSE n

RetxShape(s, c, n) ==
    /\ Script(s) /\ Len(s) = IF n = c THEN 0 ELSE 1 + Removed(c) + Provided(n)
    /\ n # c =>
         /\ s[1] = Clear("retx", 32)
         /\ c > 1 => /\ \A i \in 1 .. c : s[1 + i] = Delete("node", i - 1)
                     /\ s[c + 2] = Delete("group", 1)
         /\ n = 1 => s[2 + Removed(c)] = Add("retx", 32, "ucast")
         /\ n > 1 => /\ \A i \in 1 .. n :
                           s[1 + Removed(c) + i] = Add("node", i - 1, 32)
                     /\ s[2 + Removed(c) + n] = Add("group", 1, 0 .. n - 1)
                     /\ s[3 + Removed(c) + n] = Add("retx", 32, "mcast")

\* set_number_of_retx_copies, call by call.
LEMMA RetxListed ==
    ASSUME NEW c \in Nat, NEW n \in Nat, NEW s, s = RetxCalls(c, n)
    PROVE  RetxShape(s, c, n)
<1>1. CASE n = c
  BY <1>1, NoCalls DEF RetxCalls, RetxShape
<1>2. CASE n # c
  <2> DEFINE a == <<Clear("retx", 32)>>
             b == IF c > 1 THEN [i \in 1 .. c |-> Delete("node", i - 1)]
                                \o <<Delete("group", 1)>>
                  ELSE <<>>
             d == CASE n = 0 -> <<>>
                    [] n = 1 -> <<Add("retx", 32, "ucast")>>
                    [] OTHER -> [i \in 1 .. n |-> Add("node", i - 1, 32)]
                         \o <<Add("group", 1, 0 .. n - 1), Add("retx", 32, "mcast")>>
  <2>1. s = a \o b \o d
    BY <1>2 DEF RetxCalls
  <2>2. Script(a) /\ Len(a) = 1 /\ a[1] = Clear("retx", 32)
    <3>1. a = [i \in 1 .. 1 |-> a[i]] /\ a[1] = Clear("retx", 32)
      OBVIOUS
    <3> HIDE DEF a
    <3>2. QED BY <3>1, IndexedIsScript
  <2>3. /\ Script(b) /\ Len(b) = Removed(c)
        /\ c > 1 => /\ \A i \in 1 .. c : b[i] = Delete("node", i - 1)
                    /\ b[c + 1] = Delete("group", 1)
    <3>1. CASE c > 1
      <4>1. b = [i \in 1 .. c |-> Delete("node", i - 1)] \o <<Delete("group", 1)>>
        BY <3>1
      <4> HIDE DEF b
      <4>2. c \in Nat \ {0}
        BY <3>1
      <4>3. QED BY <4>1, <4>2, <3>1, NodeCalls DEF Removed
    <3>2. CASE ~ (c > 1)
      BY <3>2, NoCalls DEF Removed
    <3>3. QED BY <3>1, <3>2
  <2>4. /\ Script(d) /\ Len(d) = Provided(n)
        /\ n = 1 => d[1] = Add("retx", 32, "ucast")
        /\ n > 1 => /\ \A i \in 1 .. n : d[i] = Add("node", i - 1, 32)
                    /\ d[n + 1] = Add("group", 1, 0 .. n - 1)
                    /\ d[n + 2] = Add("retx", 32, "mcast")
    <3>1. CASE n > 1
      <4>1. d = [i \in 1 .. n |-> Add("node", i - 1, 32)]
                  \o <<Add("group", 1, 0 .. n - 1), Add("retx", 32, "mcast")>>
        BY SMTT(30), <3>1
      <4> HIDE DEF d
      <4>2. n \in Nat \ {0}
        BY <3>1
      <4>3. /\ Script(d) /\ Len(d) = n + 2
            /\ \A i \in 1 .. n : d[i] = Add("node", i - 1, 32)
            /\ d[n + 1] = Add("group", 1, 0 .. n - 1)
            /\ d[n + 2] = Add("retx", 32, "mcast")
        BY <4>1, <4>2, NodeCalls
      <4>4. Provided(n) = n + 2
        BY <3>1 DEF Provided
      <4>5. QED BY <4>3, <4>4, <3>1
    <3>2. CASE n = 1
      <4>1. d = [i \in 1 .. 1 |-> d[i]] /\ d[1] = Add("retx", 32, "ucast")
        BY <3>2
      <4> HIDE DEF d
      <4>2. Script(d) /\ Len(d) = 1
        BY <4>1, IndexedIsScript
      <4>3. QED BY <4>1, <4>2, <3>2 DEF Provided
    <3>3. CASE n = 0
      BY <3>3, NoCalls DEF Provided
    <3>4. QED BY <3>1, <3>2, <3>3
  <2> HIDE DEF a, b, d
  <2> DEFINE ab == a \o b
             z == ab \o d
  <2>5. ab = a \o b /\ z = ab \o d /\ z = s
    BY <2>1
  <2>6. Removed(c) \in Nat /\ Provided(n) \in Nat /\ 1 + Removed(c) \in Nat
    BY DEF Removed, Provided
  <2> HIDE DEF ab, z
  <2>7. /\ Script(ab) /\ Len(ab) = 1 + Removed(c)
        /\ \A i \in 1 .. 1 : ab[i] = a[i]
        /\ \A i \in 1 .. Removed(c) : ab[1 + i] = b[i]
    <3>1. Joins(a \o b, a, 1, b, Removed(c))
      BY <2>2, <2>3, ConcatJoins
    <3>2. QED BY <3>1, <2>5 DEF Joins
  <2>8. /\ Script(z) /\ Len(z) = 1 + Removed(c) + Provided(n)
        /\ \A i \in 1 .. 1 + Removed(c) : z[i] = ab[i]
        /\ \A i \in 1 .. Provided(n) : z[1 + Removed(c) + i] = d[i]
    <3>1. Joins(ab \o d, ab, 1 + Removed(c), d, Provided(n))
      BY <2>4, <2>7, ConcatJoins
    <3>2. QED BY <3>1, <2>5 DEF Joins
  <2>9. /\ Script(s) /\ Len(s) = 1 + Removed(c) + Provided(n)
        /\ \A i \in 1 .. 1 + Removed(c) : s[i] = ab[i]
        /\ \A i \in 1 .. Provided(n) : s[1 + Removed(c) + i] = d[i]
    BY <2>5, <2>8
  <2>10. s[1] = Clear("retx", 32)
    BY <2>9, <2>7, <2>2, <2>6
  <2>11. c > 1 => /\ \A i \in 1 .. c : s[1 + i] = Delete("node", i - 1)
                  /\ s[c + 2] = Delete("group", 1)
    <3> SUFFICES ASSUME c > 1
                 PROVE  /\ \A i \in 1 .. c : s[1 + i] = Delete("node", i - 1)
                        /\ s[c + 2] = Delete("group", 1)
      OBVIOUS
    <3>1. Removed(c) = c + 1
      BY DEF Removed
    <3>2. \A i \in 1 .. c + 1 : s[1 + i] = b[i]
      BY <3>1, <2>9, <2>7
    <3>3. s[1 + (c + 1)] = b[c + 1] /\ 1 + (c + 1) = c + 2
      BY <3>2
    <3>4. QED BY <3>2, <3>3, <2>3
  <2>12. n = 1 => s[2 + Removed(c)] = Add("retx", 32, "ucast")
    <3> SUFFICES ASSUME n = 1 PROVE s[2 + Removed(c)] = Add("retx", 32, "ucast")
      OBVIOUS
    <3>1. 1 \in 1 .. Provided(n) /\ 1 + Removed(c) + 1 = 2 + Removed(c)
      BY <2>6 DEF Provided
    <3>2. QED BY <3>1, <2>9, <2>4
  <2>13. n > 1 => /\ \A i \in 1 .. n : s[1 + Removed(c) + i] = Add("node", i - 1, 32)
                  /\ s[2 + Removed(c) + n] = Add("group", 1, 0 .. n - 1)
                  /\ s[3 + Removed(c) + n] = Add("retx", 32, "mcast")
    <3> SUFFICES ASSUME n > 1
                 PROVE  /\ \A i \in 1 .. n : s[1 + Removed(c) + i] = Add("node", i - 1, 32)
                        /\ s[2 + Removed(c) + n] = Add("group", 1, 0 .. n - 1)
                        /\ s[3 + Removed(c) + n] = Add("retx", 32, "mcast")
      OBVIOUS
    <3>1. Provided(n) = n + 2
      BY DEF Provided
    <3>2. \A i \in 1 .. n + 2 : s[1 + Removed(c) + i] = d[i]
      BY <3>1, <2>9
    <3>3. /\ s[1 + Removed(c) + (n + 1)] = d[n + 1]
          /\ s[1 + Removed(c) + (n + 2)] = d[n + 2]
      BY <3>2
    <3>4. /\ 1 + Removed(c) + (n + 1) = 2 + Removed(c) + n
          /\ 1 + Removed(c) + (n + 2) = 3 + Removed(c) + n
      BY <2>6
    <3>5. QED BY <3>2, <3>3, <3>4, <2>4
  <2>14. QED BY <1>2, <2>9, <2>10, <2>11, <2>12, <2>13 DEF RetxShape
<1>3. QED BY <1>1, <1>2

\* Scripts are the same when their calls are.
LEMMA SameScript ==
    ASSUME NEW s, NEW t, NEW n, Script(s), Script(t), Len(s) = n, Len(t) = n,
           \A i \in 1 .. n : s[i] = t[i]
    PROVE  s = t
<1>1. s = [i \in 1 .. n |-> s[i]] /\ t = [i \in 1 .. n |-> t[i]]
  BY ScriptIsIndexed
<1>2. QED BY <1>1

\* x is the beginning of t, of length m.
Begins(x, m, t) == Script(x) /\ Len(x) = m /\ \A i \in 1 .. m : x[i] = t[i]

\* A beginning, and what comes next, is a longer beginning.
LEMMA BeginsFurther ==
    ASSUME NEW x, NEW m \in Nat, NEW t, Begins(x, m, t),
           NEW b, NEW n \in Nat, Script(b), Len(b) = n, \A i \in 1 .. n : b[i] = t[m + i]
    PROVE  Begins(x \o b, m + n, t)
<1>1. Joins(x \o b, x, m, b, n)
  BY ConcatJoins DEF Begins
<1> DEFINE y == x \o b
<1> HIDE DEF y
<1>2. /\ Script(y) /\ Len(y) = m + n
      /\ \A i \in 1 .. m : y[i] = x[i]
      /\ \A i \in 1 .. n : y[m + i] = b[i]
  BY <1>1 DEF Joins, y
<1>3. ASSUME NEW i \in 1 .. m + n PROVE y[i] = t[i]
  <2>1. CASE i \in 1 .. m
    BY <2>1, <1>2 DEF Begins
  <2>2. CASE i \notin 1 .. m
    <3>1. i - m \in 1 .. n /\ m + (i - m) = i
      BY <2>2
    <3>2. QED BY SMTT(30), <3>1, <1>2
  <2>3. QED BY <2>1, <2>2
<1>4. QED BY <1>2, <1>3 DEF Begins, y

SenderCalls(speed) ==
    <<Add("port", 32, speed), Add("port", 36, speed),
      Add("port", 16, 100), Add("loopback", 16, TRUE),
      Add("l2", To("receiver"), 32), Add("l2", To("lumos"), 36),
      Add("l2", To("caelus"), 32), Add("mirror", 400, <<60, 0>>),
      Add("priority", [q \in 1 .. 3 |-> QueueKey(32, q - 1)], <<1, 0, 2>>),
      Add("l2", SeedRoute(32, 1), 32),
      Add("mirror", 1, <<68, 0>>), Add("copy_pkt_for_buffering", 32, 1),
      Add("mirror", 17, <<32, 1>>), Add("mirror_dummy_pkt", 32, 17),
      Inject(SeedRoute(32, 1)),
      Clear("retx", 32), Add("node", 0, 32), Add("node", 1, 32),
      Add("group", 1, 0 .. 1), Add("retx", 32, "mcast")>>

ReceiverCalls(speed) ==
    <<Add("port", 36, speed), Add("port", 44, 100), Add("port", 52, speed),
      Add("port", 20, 100), Add("loopback", 44, TRUE), Add("loopback", 20, TRUE),
      Add("port_md", 36, PortMd(TRUE, FALSE)), Add("port_md", 44, PortMd(FALSE, TRUE)),
      Add("port_md", 68, PortMd(FALSE, FALSE)),
      Add("l2", To("sender"), 36), Add("l2", To("receiver"), 52),
      Add("l2", To("lumos"), 36), Add("l2", To("caelus"), 52),
      Add("mirror", 300, <<68, 1>>),
      Add("priority", [q \in 1 .. 3 |-> QueueKey(36, q - 1)], <<1, 0, 2>>),
      Add("l2", SeedRoute(36, 1), 36),
      Add("mirror", 33, <<36, 1>>), Add("get_courier_pkt_mirror_session", 36, 33),
      Add("mirror", 500, <<36, 2>>),
      Add("mirror", 49, <<36, 2>>), Add("generate_loss_notification", 36, 49),
      Inject(SeedRoute(36, 1))>>

TopoCalls(speed) ==
    <<Add("port", 160, speed), Add("port", 168, speed), Add("port", 128, speed),
      Add("port", 136, speed), Add("port", 36, speed), Add("port", 56, speed),
      Add("port_md", 128, 0), Add("port_md", 160, 0), Add("port_md", 136, 1),
      Add("port_md", 36, 1), Add("port_md", 56, 2), Add("port_md", 168, 2),
      Add("l2", <<0, "lumos">>, 160), Add("l2", <<1, "lumos">>, 136),
      Add("l2", <<2, "lumos">>, 56), Add("l2", <<0, "caelus">>, 128),
      Add("l2", <<1, "caelus">>, 36), Add("l2", <<2, "caelus">>, 168),
      Add("l2", <<2, "receiver">>, 168), Add("node", 0, {160, 168}), Add("group", 1, {0})>>

\* The calls for the dummy queue, one by one.
LEMMA DummyQueueListed ==
    DummyQueue = <<Add("l2", SeedRoute(32, 1), 32),
                   Add("mirror", 1, <<68, 0>>), Add("copy_pkt_for_buffering", 32, 1),
                   Add("mirror", 17, <<32, 1>>), Add("mirror_dummy_pkt", 32, 17),
                   Inject(SeedRoute(32, 1))>>
<1> DEFINE a == <<Add("l2", SeedRoute(32, 1), 32)>>
           b == Mirror(1, 68, 0, "copy_pkt_for_buffering", 32)
           c == Mirror(17, 32, 1, "mirror_dummy_pkt", 32)
           d == <<Inject(SeedRoute(32, 1))>>
           t == <<Add("l2", SeedRoute(32, 1), 32),
                   Add("mirror", 1, <<68, 0>>), Add("copy_pkt_for_buffering", 32, 1),
                   Add("mirror", 17, <<32, 1>>), Add("mirror_dummy_pkt", 32, 17),
                   Inject(SeedRoute(32, 1))>>
           w == a \o b
           x == w \o c
           z == x \o d
<1>1. DummyQueue = z
  BY DEF DummyQueue
<1>2. /\ a = [i \in 1 .. 1 |-> a[i]]
      /\ b = [i \in 1 .. 2 |-> b[i]]
      /\ c = [i \in 1 .. 2 |-> c[i]]
      /\ d = [i \in 1 .. 1 |-> d[i]]
      /\ t = [i \in 1 .. 6 |-> t[i]]
  BY DEF Mirror
<1>3. /\ a[1] = t[1]
      /\ b[1] = t[2] /\ b[2] = t[3]
      /\ c[1] = t[4] /\ c[2] = t[5]
      /\ d[1] = t[6]
  BY DEF Mirror
<1>4. w = a \o b /\ x = w \o c /\ z = x \o d
  OBVIOUS
<1>5. SUFFICES z = t
  BY <1>1
<1> HIDE DEF a, b, c, d, t, w, x, z
<1>6. /\ Script(a) /\ Len(a) = 1
      /\ Script(b) /\ Len(b) = 2
      /\ Script(c) /\ Len(c) = 2
      /\ Script(d) /\ Len(d) = 1
      /\ Script(t) /\ Len(t) = 6
  BY <1>2, IndexedIsScript
<1>7. Begins(a, 1, t)
  BY <1>3, <1>6 DEF Begins
<1>8. Begins(w, 3, t)
  <2>1. \A i \in 1 .. 2 : b[i] = t[1 + i]
    BY <1>3
  <2>2. Begins(a \o b, 1 + 2, t)
    BY <2>1, <1>6, <1>7, BeginsFurther
  <2>3. QED BY <2>2, <1>4
<1>9. Begins(x, 5, t)
  <2>1. \A i \in 1 .. 2 : c[i] = t[3 + i]
    BY <1>3
  <2>2. Begins(w \o c, 3 + 2, t)
    BY <2>1, <1>6, <1>8, BeginsFurther
  <2>3. QED BY <2>2, <1>4
<1>10. Begins(z, 6, t)
  <2>1. \A i \in 1 .. 1 : d[i] = t[5 + i]
    BY <1>3
  <2>2. Begins(x \o d, 5 + 1, t)
    BY <2>1, <1>6, <1>9, BeginsFurther
  <2>3. QED BY <2>2, <1>4
<1>11. QED BY ZenonT(40), <1>6, <1>10, SameScript DEF Begins

\* The calls for the courier queue, one by one.
LEMMA CourierQueueListed ==
    CourierQueue = <<Add("l2", SeedRoute(36, 1), 36),
      Add("mirror", 33, <<36, 1>>), Add("get_courier_pkt_mirror_session", 36, 33),
      Add("mirror", 500, <<36, 2>>),
      Add("mirror", 49, <<36, 2>>), Add("generate_loss_notification", 36, 49),
      Inject(SeedRoute(36, 1))>>
<1> DEFINE a == <<Add("l2", SeedRoute(36, 1), 36)>>
           b == Mirror(33, 36, 1, "get_courier_pkt_mirror_session", 36)
           c == <<Add("mirror", 500, <<36, 2>>)>>
           d == Mirror(49, 36, 2, "generate_loss_notification", 36)
           e == <<Inject(SeedRoute(36, 1))>>
           t == <<Add("l2", SeedRoute(36, 1), 36),
      Add("mirror", 33, <<36, 1>>), Add("get_courier_pkt_mirror_session", 36, 33),
      Add("mirror", 500, <<36, 2>>),
      Add("mirror", 49, <<36, 2>>), Add("generate_loss_notification", 36, 49),
      Inject(SeedRoute(36, 1))>>
           w == a \o b
           x == w \o c
           y == x \o d
           z == y \o e
<1>1. CourierQueue = z
  BY DEF CourierQueue
<1>2. /\ a = [i \in 1 .. 1 |-> a[i]]
      /\ b = [i \in 1 .. 2 |-> b[i]]
      /\ c = [i \in 1 .. 1 |-> c[i]]
      /\ d = [i \in 1 .. 2 |-> d[i]]
      /\ e = [i \in 1 .. 1 |-> e[i]]
      /\ t = [i \in 1 .. 7 |-> t[i]]
  BY DEF Mirror
<1>3. /\ a[1] = t[1]
      /\ b[1] = t[2] /\ b[2] = t[3]
      /\ c[1] = t[4]
      /\ d[1] = t[5] /\ d[2] = t[6]
      /\ e[1] = t[7]
  BY DEF Mirror
<1>4. w = a \o b /\ x = w \o c /\ y = x \o d /\ z = y \o e
  OBVIOUS
<1>5. SUFFICES z = t
  BY <1>1
<1> HIDE DEF a, b, c, d, e, t, w, x, y, z
<1>6. /\ Script(a) /\ Len(a) = 1
      /\ Script(b) /\ Len(b) = 2
      /\ Script(c) /\ Len(c) = 1
      /\ Script(d) /\ Len(d) = 2
      /\ Script(e) /\ Len(e) = 1
      /\ Script(t) /\ Len(t) = 7
  BY <1>2, IndexedIsScript
<1>7. Begins(a, 1, t)
  BY <1>3, <1>6 DEF Begins
<1>8. Begins(w, 3, t)
  <2>1. \A i \in 1 .. 2 : b[i] = t[1 + i]
    BY <1>3
  <2>2. Begins(a \o b, 1 + 2, t)
    BY <2>1, <1>6, <1>7, BeginsFurther
  <2>3. QED BY <2>2, <1>4
<1>9. Begins(x, 4, t)
  <2>1. \A i \in 1 .. 1 : c[i] = t[3 + i]
    BY <1>3
  <2>2. Begins(w \o c, 3 + 1, t)
    BY <2>1, <1>6, <1>8, BeginsFurther
  <2>3. QED BY <2>2, <1>4
<1>10. Begins(y, 6, t)
  <2>1. \A i \in 1 .. 2 : d[i] = t[4 + i]
    BY <1>3
  <2>2. Begins(x \o d, 4 + 2, t)
    BY <2>1, <1>6, <1>9, BeginsFurther
  <2>3. QED BY <2>2, <1>4
<1>11. Begins(z, 7, t)
  <2>1. \A i \in 1 .. 1 : e[i] = t[6 + i]
    BY <1>3
  <2>2. Begins(y \o e, 6 + 1, t)
    BY <2>1, <1>6, <1>10, BeginsFurther
  <2>3. QED BY <2>2, <1>4
<1>12. QED BY ZenonT(40), <1>6, <1>11, SameScript DEF Begins

\* The calls for two copies, from none.
LEMMA TwoCopiesListed ==
    RetxCalls(0, 2) = <<Clear("retx", 32), Add("node", 0, 32), Add("node", 1, 32),
                       Add("group", 1, 0 .. 1), Add("retx", 32, "mcast")>>
<1> DEFINE s == RetxCalls(0, 2)
           t == <<Clear("retx", 32), Add("node", 0, 32), Add("node", 1, 32),
                       Add("group", 1, 0 .. 1), Add("retx", 32, "mcast")>>
<1>1. s = RetxCalls(0, 2) /\ t = [i \in 1 .. 5 |-> t[i]]
  OBVIOUS
<1>2. /\ t[1] = Clear("retx", 32) /\ t[2] = Add("node", 0, 32) /\ t[3] = Add("node", 1, 32)
      /\ t[4] = Add("group", 1, 0 .. 1) /\ t[5] = Add("retx", 32, "mcast")
  OBVIOUS
<1> HIDE DEF s, t
<1>3. Removed(0) = 0 /\ Provided(2) = 4
  BY DEF Removed, Provided
<1>4. /\ Script(s) /\ Len(s) = 5 /\ s[1] = Clear("retx", 32)
      /\ \A i \in 1 .. 2 : s[1 + i] = Add("node", i - 1, 32)
      /\ s[4] = Add("group", 1, 0 .. 1) /\ s[5] = Add("retx", 32, "mcast")
  <2>1. 0 \in Nat /\ 2 \in Nat
    OBVIOUS
  <2>2. RetxShape(s, 0, 2)
    BY <1>1, <2>1, RetxListed
  <2>3. QED BY <2>2, <1>3 DEF RetxShape
<1>5. s[2] = Add("node", 0, 32) /\ s[3] = Add("node", 1, 32)
  <2>1. s[1 + 1] = Add("node", 1 - 1, 32) /\ s[1 + 2] = Add("node", 2 - 1, 32)
    BY <1>4
  <2>2. QED BY <2>1
<1>6. Script(t) /\ Len(t) = 5
  BY <1>1, IndexedIsScript
<1>7. \A i \in 1 .. 5 : s[i] = t[i]
  BY <1>2, <1>4, <1>5
<1>8. s = t
  BY <1>4, <1>6, <1>7, SameScript
<1>9. QED BY <1>8 DEF s, t

\* The set-up of the sender, call by call.
LEMMA SenderListed ==
    ASSUME NEW speed
    PROVE  SenderSetup(speed) = SenderCalls(speed)
<1> DEFINE a == AddPorts(SpeedPorts("sender"), speed)
           b == <<Add("port", 16, 100), Add("loopback", 16, TRUE),
                   Add("l2", To("receiver"), 32), Add("l2", To("lumos"), 36),
                   Add("l2", To("caelus"), 32), Add("mirror", 400, <<60, 0>>)>>
           c == Priorities(32)
           d == DummyQueue
           e == RetxCalls(0, 2)
           t == SenderCalls(speed)
           w == a \o b
           x == w \o c
           y == x \o d
           z == y \o e
<1>1. SenderSetup(speed) = z
  BY DEF SenderSetup
<1>2. /\ a = [i \in 1 .. 2 |-> a[i]]
      /\ b = [i \in 1 .. 6 |-> b[i]]
      /\ c = [i \in 1 .. 1 |-> c[i]]
      /\ d = [i \in 1 .. 6 |-> d[i]]
      /\ e = [i \in 1 .. 5 |-> e[i]]
      /\ t = [i \in 1 .. 20 |-> t[i]]
  BY DummyQueueListed, TwoCopiesListed DEF AddPorts, SpeedPorts, Priorities, SenderCalls
<1>3. /\ a[1] = t[1] /\ a[2] = t[2]
      /\ b[1] = t[3] /\ b[2] = t[4] /\ b[3] = t[5] /\ b[4] = t[6] /\ b[5] = t[7] /\ b[6] = t[8]
      /\ c[1] = t[9]
      /\ d[1] = t[10] /\ d[2] = t[11] /\ d[3] = t[12] /\ d[4] = t[13] /\ d[5] = t[14] /\ d[6] = t[15]
      /\ e[1] = t[16] /\ e[2] = t[17] /\ e[3] = t[18] /\ e[4] = t[19] /\ e[5] = t[20]
  BY DummyQueueListed, TwoCopiesListed DEF AddPorts, SpeedPorts, Priorities, SenderCalls
<1>4. w = a \o b /\ x = w \o c /\ y = x \o d /\ z = y \o e
  OBVIOUS
<1>5. SUFFICES z = t
  BY <1>1
<1> HIDE DEF a, b, c, d, e, t, w, x, y, z
<1>6. /\ Script(a) /\ Len(a) = 2
      /\ Script(b) /\ Len(b) = 6
      /\ Script(c) /\ Len(c) = 1
      /\ Script(d) /\ Len(d) = 6
      /\ Script(e) /\ Len(e) = 5
      /\ Script(t) /\ Len(t) = 20
  BY <1>2, IndexedIsScript
<1>7. Begins(a, 2, t)
  BY <1>3, <1>6 DEF Begins
<1>8. Begins(w, 8, t)
  <2>1. \A i \in 1 .. 6 : b[i] = t[2 + i]
    BY <1>3
  <2>2. Begins(a \o b, 2 + 6, t)
    BY <2>1, <1>6, <1>7, BeginsFurther
  <2>3. QED BY <2>2, <1>4
<1>9. Begins(x, 9, t)
  <2>1. \A i \in 1 .. 1 : c[i] = t[8 + i]
    BY <1>3
  <2>2. Begins(w \o c, 8 + 1, t)
    BY <2>1, <1>6, <1>8, BeginsFurther
  <2>3. QED BY <2>2, <1>4
<1>10. Begins(y, 15, t)
  <2>1. \A i \in 1 .. 6 : d[i] = t[9 + i]
    BY <1>3
  <2>2. Begins(x \o d, 9 + 6, t)
    BY <2>1, <1>6, <1>9, BeginsFurther
  <2>3. QED BY <2>2, <1>4
<1>11. Begins(z, 20, t)
  <2>1. \A i \in 1 .. 5 : e[i] = t[15 + i]
    BY <1>3
  <2>2. Begins(y \o e, 15 + 5, t)
    BY <2>1, <1>6, <1>10, BeginsFurther
  <2>3. QED BY <2>2, <1>4
<1>12. QED BY <1>6, <1>11, SameScript DEF Begins

\* The set-up of the receiver, call by call.
LEMMA ReceiverListed ==
    ASSUME NEW speed
    PROVE  ReceiverSetup(speed) = ReceiverCalls(speed)
<1> DEFINE a == <<Add("port", 36, speed), Add("port", 44, 100), Add("port", 52, speed),
                   Add("port", 20, 100), Add("loopback", 44, TRUE), Add("loopback", 20, TRUE)>>
           b == ReceiverPorts
           c == <<Add("l2", To("sender"), 36), Add("l2", To("receiver"), 52),
                   Add("l2", To("lumos"), 36), Add("l2", To("caelus"), 52),
                   Add("mirror", 300, <<68, 1>>)>>
           d == Priorities(36)
           e == CourierQueue
           t == ReceiverCalls(speed)
           w == a \o b
           x == w \o c
           y == x \o d
           z == y \o e
<1>1. ReceiverSetup(speed) = z
  BY DEF ReceiverSetup
<1>2. /\ a = [i \in 1 .. 6 |-> a[i]]
      /\ b = [i \in 1 .. 3 |-> b[i]]
      /\ c = [i \in 1 .. 5 |-> c[i]]
      /\ d = [i \in 1 .. 1 |-> d[i]]
      /\ e = [i \in 1 .. 7 |-> e[i]]
      /\ t = [i \in 1 .. 22 |-> t[i]]
  BY CourierQueueListed DEF ReceiverPorts, Priorities, ReceiverCalls
<1>3. /\ a[1] = t[1] /\ a[2] = t[2] /\ a[3] = t[3] /\ a[4] = t[4] /\ a[5] = t[5] /\ a[6] = t[6]
      /\ b[1] = t[7] /\ b[2] = t[8] /\ b[3] = t[9]
      /\ c[1] = t[10] /\ c[2] = t[11] /\ c[3] = t[12] /\ c[4] = t[13] /\ c[5] = t[14]
      /\ d[1] = t[15]
      /\ e[1] = t[16] /\ e[2] = t[17] /\ e[3] = t[18] /\ e[4] = t[19] /\ e[5] = t[20] /\ e[6] = t[21] /\ e[7] = t[22]
  BY CourierQueueListed DEF ReceiverPorts, Priorities, ReceiverCalls
<1>4. w = a \o b /\ x = w \o c /\ y = x \o d /\ z = y \o e
  OBVIOUS
<1>5. SUFFICES z = t
  BY <1>1
<1> HIDE DEF a, b, c, d, e, t, w, x, y, z
<1>6. /\ Script(a) /\ Len(a) = 6
      /\ Script(b) /\ Len(b) = 3
      /\ Script(c) /\ Len(c) = 5
      /\ Script(d) /\ Len(d) = 1
      /\ Script(e) /\ Len(e) = 7
      /\ Script(t) /\ Len(t) = 22
  BY <1>2, IndexedIsScript
<1>7. Begins(a, 6, t)
  BY <1>3, <1>6 DEF Begins
<1>8. Begins(w, 9, t)
  <2>1. \A i \in 1 .. 3 : b[i] = t[6 + i]
    BY <1>3
  <2>2. Begins(a \o b, 6 + 3, t)
    BY <2>1, <1>6, <1>7, BeginsFurther
  <2>3. QED BY <2>2, <1>4
<1>9. Begins(x, 14, t)
  <2>1. \A i \in 1 .. 5 : c[i] = t[9 + i]
    BY <1>3
  <2>2. Begins(w \o c, 9 + 5, t)
    BY <2>1, <1>6, <1>8, BeginsFurther
  <2>3. QED BY <2>2, <1>4
<1>10. Begins(y, 15, t)
  <2>1. \A i \in 1 .. 1 : d[i] = t[14 + i]
    BY <1>3
  <2>2. Begins(x \o d, 14 + 1, t)
    BY <2>1, <1>6, <1>9, BeginsFurther
  <2>3. QED BY <2>2, <1>4
<1>11. Begins(z, 22, t)
  <2>1. \A i \in 1 .. 7 : e[i] = t[15 + i]
    BY <1>3
  <2>2. Begins(y \o e, 15 + 7, t)
    BY <2>1, <1>6, <1>10, BeginsFurther
  <2>3. QED BY <2>2, <1>4
<1>12. QED BY <1>6, <1>11, SameScript DEF Begins

\* The set-up of the topology switch, call by call.
LEMMA TopoListed ==
    ASSUME NEW speed
    PROVE  TopoSetup(speed) = TopoCalls(speed)
<1> DEFINE a == AddPorts(SpeedPorts("topo"), speed)
           b == TopoTables
           c == <<Add("node", 0, {160, 168}), Add("group", 1, {0})>>
           t == TopoCalls(speed)
           w == a \o b
           z == w \o c
<1>1. TopoSetup(speed) = z
  BY DEF TopoSetup
<1>2. /\ a = [i \in 1 .. 6 |-> a[i]]
      /\ b = [i \in 1 .. 13 |-> b[i]]
      /\ c = [i \in 1 .. 2 |-> c[i]]
      /\ t = [i \in 1 .. 21 |-> t[i]]
  BY DEF AddPorts, SpeedPorts, TopoTables, TopoCalls
<1>3. /\ a[1] = t[1] /\ a[2] = t[2] /\ a[3] = t[3] /\ a[4] = t[4] /\ a[5] = t[5] /\ a[6] = t[6]
      /\ b[1] = t[7] /\ b[2] = t[8] /\ b[3] = t[9] /\ b[4] = t[10] /\ b[5] = t[11] /\ b[6] = t[12]
      /\ b[7] = t[13] /\ b[8] = t[14] /\ b[9] = t[15] /\ b[10] = t[16] /\ b[11] = t[17]
      /\ b[12] = t[18] /\ b[13] = t[19]
      /\ c[1] = t[20] /\ c[2] = t[21]
  BY DEF AddPorts, SpeedPorts, TopoTables, TopoCalls
<1>4. w = a \o b /\ z = w \o c
  OBVIOUS
<1>5. SUFFICES z = t
  BY <1>1
<1> HIDE DEF a, b, c, t, w, z
<1>6. /\ Script(a) /\ Len(a) = 6
      /\ Script(b) /\ Len(b) = 13
      /\ Script(c) /\ Len(c) = 2
      /\ Script(t) /\ Len(t) = 21
  BY <1>2, IndexedIsScript
<1>7. Begins(a, 6, t)
  BY <1>3, <1>6 DEF Begins
<1>8. Begins(w, 19, t)
  <2>1. \A i \in 1 .. 13 : b[i] = t[6 + i]
    BY <1>3
  <2>2. Begins(a \o b, 6 + 13, t)
    BY <2>1, <1>6, <1>7, BeginsFurther
  <2>3. QED BY <2>2, <1>4
<1>9. Begins(z, 21, t)
  <2>1. \A i \in 1 .. 2 : c[i] = t[19 + i]
    BY <1>3
  <2>2. Begins(w \o c, 19 + 2, t)
    BY <2>1, <1>6, <1>8, BeginsFurther
  <2>3. QED BY <2>2, <1>4
<1>10. QED BY <1>6, <1>9, SameScript DEF Begins

-----------------------------------------------------------------------------
(***************************************************************************)
(* The inductive invariant.  It speaks of what the tables hold and of what *)
(* the shells have still to do, the calls of a script or command after the *)
(* ones already made.                                                      *)
(***************************************************************************)

GroupKey == <<"group", 1>>
RetxKey == <<"retx", 32>>
NodeKey(n) == <<"node", n>>
PortKey(p) == <<"port", p>>

\* Of the multicast group, a call deletes a node or the group.
Dismantles(call) ==
    \/ Deletes(call, GroupKey)
    \/ \E n \in Nat : Deletes(call, NodeKey(n))

Multicast(T) == RetxKey \in DOMAIN T /\ T[RetxKey] = "mcast"

GroupWhole(T) ==
    \E m \in Nat : /\ GroupKey \in DOMAIN T /\ T[GroupKey] = 0 .. m - 1
                   /\ \A n \in 0 .. m - 1 : NodeKey(n) \in DOMAIN T

\* Before call i, the group and its nodes are in place.
GroupReady(T, s, i) ==
    \E m \in Nat : /\ Holds(T, s, i, GroupKey, 0 .. m - 1)
                   /\ \A n \in 0 .. m - 1 : Holds(T, s, i, NodeKey(n), 32)

\* What groups and entries may be.
RetxData(T, s) ==
    /\ \A i \in 1 .. Len(s) :
        /\ Adds(s[i], GroupKey) => \E m \in Nat : s[i].data = 0 .. m - 1
        /\ Adds(s[i], RetxKey) => s[i].data \in {"ucast", "mcast"}
    /\ GroupKey \in DOMAIN T => \E m \in Nat : T[GroupKey] = 0 .. m - 1
    /\ RetxKey \in DOMAIN T => T[RetxKey] \in {"ucast", "mcast"}

\* The entry is removed before the group is dismantled, and comes last.
RetxOrder(T, s) ==
    /\ Multicast(T) =>
        /\ GroupWhole(T)
        /\ \A i \in 1 .. Len(s) :
            Dismantles(s[i]) => \E j \in 1 .. i - 1 : Deletes(s[j], RetxKey)
    /\ \A i \in 1 .. Len(s) :
        Adds(s[i], RetxKey) /\ s[i].data = "mcast" =>
            /\ GroupReady(T, s, i)
            /\ \A j \in i + 1 .. Len(s) : ~ Dismantles(s[j])

\* After the last call the sender sends c copies of a retransmission.
Copied(T, s, c) ==
    /\ c = 0 => Lacks(T, s, RetxKey)
    /\ c = 1 => Holds(T, s, Len(s) + 1, RetxKey, "ucast")
    /\ c > 1 => /\ Holds(T, s, Len(s) + 1, RetxKey, "mcast")
                /\ Holds(T, s, Len(s) + 1, GroupKey, 0 .. c - 1)
                /\ \A n \in 0 .. c - 1 : Holds(T, s, Len(s) + 1, NodeKey(n), 32)
    /\ c <= 1 => Lacks(T, s, GroupKey)
    /\ \A n \in Nat : c <= 1 \/ n >= c => Lacks(T, s, NodeKey(n))

\* The port of the seed of a switch, and its mirror session.
SeedPort(sw) == IF sw = "sender" THEN 32 ELSE 36
SeedSession(sw) == IF sw = "sender" THEN 17 ELSE 33
SeedKey(sw) == <<"l2", SeedRoute(SeedPort(sw), 1)>>

\* When the seed is injected, everything is in place that keeps it going.
SeedReady(sw, T, s) ==
    \A i \in 1 .. Len(s) : s[i].op = "inject" =>
        /\ sw # "topo" /\ s[i].key = SeedKey(sw)
        /\ Holds(T, s, i, SeedKey(sw), SeedPort(sw))
        /\ Holds(T, s, i, <<SeedTable(sw), SeedPort(sw)>>, SeedSession(sw))
        /\ Holds(T, s, i, <<"mirror", SeedSession(sw)>>, <<SeedPort(sw), 1>>)

\* The calls give the ports of a switch a speed.
Speeds(sw, s, speed) ==
    \A i \in 1 .. Len(s) : \A p \in CheckedPorts(sw) :
        Adds(s[i], PortKey(p)) => s[i].data = speed

\* Ports that have the speed stay, but for those that had it beforehand.
PortsStay(sw, T, s, speed, early) ==
    \A p \in CheckedPorts(sw) :
        /\ <<sw, p>> \notin early
        /\ PortKey(p) \in DOMAIN T /\ T[PortKey(p)] = speed
        => \A i \in 1 .. Len(s) : ~ Deletes(s[i], PortKey(p))

\* A port has the speed, or had it beforehand and is deleted.
EndDone(end) ==
    IF PortKey(end[2]) \in DOMAIN entries[end[1]]
    THEN entries[end[1]][PortKey(end[2])] = operator.speed
    ELSE end \in operator.early

\* All ends of the links of a switch are done, at the peers, too.
LinksDone(sw) ==
    \A link \in CheckedLinks :
        (\E end \in link : end[1] = sw) => \A end \in link : EndDone(end)

\* The seed of a switch circulates, or its injection is still to come.
SeedComes(sw) ==
    /\ seed[sw] = "circulates" \/ \E i \in 1 .. Len(todo[sw]) : todo[sw][i].op = "inject"
    /\ \A i \in 1 .. Len(todo[sw]) : todo[sw][i].op \in {"delete", "clear"} =>
            todo[sw][i].key \notin SeedPorts(sw)

ShellsInv ==
    /\ todo = [sw \in Switches |-> todo[sw]]
    /\ entries = [sw \in Switches |-> entries[sw]]
    /\ seed = [sw \in {"sender", "receiver"} |-> seed[sw]]
    /\ \A sw \in Switches : Script(todo[sw]) /\ Settles(todo[sw])

SpeedInv ==
    \A sw \in Switches :
        /\ Speeds(sw, todo[sw], operator.speed)
        /\ PortsStay(sw, entries[sw], todo[sw], operator.speed, operator.early)

AskedInv ==
    /\ operator = [speed |-> operator.speed, asked |-> operator.asked,
                   answers |-> operator.answers, allUp |-> operator.allUp,
                   early |-> operator.early]
    /\ operator.answers = [sw \in Switches |-> operator.answers[sw]]
    /\ operator.asked \in 0 .. 3
    /\ \A sw \in Switches :
        /\ operator.answers[sw] \in {"0", "1", "nothing"}
        /\ operator.answers[sw] = "1" => LinksDone(sw)
        /\ operator.allUp => operator.answers[sw] # "0"

RetxInv ==
    /\ RetxData(entries["sender"], todo["sender"])
    /\ RetxOrder(entries["sender"], todo["sender"])

UndisturbedInv ==
    /\ failed \subseteq disturbed
    /\ \A sw \in Switches \ disturbed : Accepted(entries[sw], todo[sw])
    /\ "sender" \notin disturbed => \E c \in Nat : Copied(entries["sender"], todo["sender"], c)

SeedInv ==
    /\ \A sw \in Switches : SeedReady(sw, entries[sw], todo[sw])
    /\ \A sw \in {"sender", "receiver"} \ disturbed : SeedComes(sw)

TestbedInv ==
    ShellsInv /\ SpeedInv /\ AskedInv /\ RetxInv /\ UndisturbedInv /\ SeedInv

-----------------------------------------------------------------------------
(***************************************************************************)
(* What a call does to the parts of the invariant.                         *)
(***************************************************************************)

\* One entry, before and after a call that is not refused.
LEMMA AppliedKey ==
    ASSUME NEW T, NEW call, call.op \in Ops, ~ Declined(T, call), NEW key
    PROVE  /\ Adds(call, key) =>
                key \in DOMAIN Applied(T, call) /\ Applied(T, call)[key] = call.data
           /\ key \in DOMAIN T /\ ~ Deletes(call, key) =>
                key \in DOMAIN Applied(T, call) /\ Applied(T, call)[key] = T[key]
           /\ Deletes(call, key) => key \notin DOMAIN Applied(T, call)
           /\ key \in DOMAIN Applied(T, call) =>
                \/ Adds(call, key)
                \/ key \in DOMAIN T /\ ~ Deletes(call, key)
<1>1. CASE call.op = "add"
  <2>1. DOMAIN Applied(T, call) = DOMAIN T \cup {call.key} /\ Applied(T, call)[call.key] = call.data
    BY <1>1, AppliedIs
  <2>2. \A k \in DOMAIN T : k # call.key => Applied(T, call)[k] = T[k]
    BY <1>1, AppliedIs
  <2>3. call.key \notin DOMAIN T
    BY <1>1 DEF Declined
  <2>4. QED BY <1>1, <2>1, <2>2, <2>3 DEF Adds, Deletes
<1>2. CASE call.op \in {"delete", "clear"}
  <2>1. DOMAIN Applied(T, call) = DOMAIN T \ {call.key}
    BY <1>2, AppliedIs
  <2>2. \A k \in DOMAIN T \ {call.key} : Applied(T, call)[k] = T[k]
    BY <1>2, AppliedIs
  <2>3. QED BY <1>2, <2>1, <2>2 DEF Adds, Deletes
<1>3. CASE call.op = "inject"
  <2>1. Applied(T, call) = T
    BY <1>3, AppliedIs
  <2>2. QED BY <1>3, <2>1 DEF Adds, Deletes
<1>4. QED BY <1>1, <1>2, <1>3 DEF Ops

\* The tables and the script after a call that is not refused.
Proceeds(T, s, T2, R) ==
    /\ Script(s) /\ s # <<>> /\ Settles(s) /\ ~ Declined(T, s[1])
    /\ T2 = Applied(T, s[1]) /\ R = Tail(s)

\* The calls that are left after the first.
LEMMA ProceedsFacts ==
    ASSUME NEW T, NEW s, NEW T2, NEW R, Proceeds(T, s, T2, R)
    PROVE  /\ Len(s) \in Nat \ {0} /\ Len(R) = Len(s) - 1 /\ Script(R) /\ Settles(R)
           /\ \A i \in 1 .. Len(R) : R[i] = s[i + 1] /\ i + 1 \in 2 .. Len(s)
           /\ s[1].op \in Ops /\ 1 \in 1 .. Len(s)
<1>1. /\ Len(s) \in Nat \ {0} /\ Len(R) = Len(s) - 1 /\ Script(R)
      /\ \A i \in 1 .. Len(s) - 1 : R[i] = s[i + 1]
  BY ScriptTail DEF Proceeds
<1>2. Settles(R)
  BY SettlesTail DEF Proceeds
<1>3. QED BY <1>1, <1>2 DEF Proceeds, Settles

\* One entry, before and after the first call.
LEMMA ProceedsKey ==
    ASSUME NEW T, NEW s, NEW T2, NEW R, Proceeds(T, s, T2, R), NEW key
    PROVE  /\ Adds(s[1], key) =>
                key \in DOMAIN T2 /\ T2[key] = s[1].data /\ key \notin DOMAIN T
           /\ key \in DOMAIN T /\ ~ Deletes(s[1], key) => key \in DOMAIN T2 /\ T2[key] = T[key]
           /\ Deletes(s[1], key) => key \notin DOMAIN T2
           /\ key \in DOMAIN T2 =>
                \/ Adds(s[1], key)
                \/ key \in DOMAIN T /\ ~ Deletes(s[1], key)
<1> DEFINE c == s[1]
<1>1. c.op \in Ops /\ ~ Declined(T, c) /\ T2 = Applied(T, c)
  BY ProceedsFacts DEF Proceeds
<1> HIDE DEF c
<1>2. Adds(c, key) => key \notin DOMAIN T
  BY <1>1 DEF Declined, Adds
<1>3. QED BY <1>1, <1>2, AppliedKey DEF c

\* What a later call will find, seen from after the first.
LEMMA ProceedsHolds ==
    ASSUME NEW T, NEW s, NEW T2, NEW R, Proceeds(T, s, T2, R),
           NEW n \in 2 .. Len(s) + 1, NEW key, NEW data, Holds(T, s, n, key, data)
    PROVE  Holds(T2, R, n - 1, key, data)
BY HoldsTail DEF Proceeds

\* What will be lacking, seen from after the first call.
LEMMA ProceedsLacks ==
    ASSUME NEW T, NEW s, NEW T2, NEW R, Proceeds(T, s, T2, R), NEW key, Lacks(T, s, key)
    PROVE  Lacks(T2, R, key)
BY LacksTail DEF Proceeds

\* An entry that is added is not touched again.
LEMMA AddedStays ==
    ASSUME NEW T, NEW s, NEW T2, NEW R, Proceeds(T, s, T2, R), NEW key, Adds(s[1], key)
    PROVE  \A i \in 1 .. Len(R) : ~ Deletes(R[i], key)
<1>1. /\ Len(s) \in Nat \ {0} /\ Len(R) = Len(s) - 1 /\ 1 \in 1 .. Len(s)
      /\ \A i \in 1 .. Len(R) : R[i] = s[i + 1] /\ i + 1 \in 2 .. Len(s)
  BY ProceedsFacts
<1>2. Settles(s)
  BY DEF Proceeds
<1>3. ASSUME NEW i \in 1 .. Len(R), Deletes(R[i], key) PROVE FALSE
  <2>1. i + 1 \in 1 .. Len(s) /\ 1 < i + 1 /\ Deletes(s[i + 1], key)
    BY <1>1, <1>3
  <2>2. s[i + 1].op = "inject" \/ s[i + 1].key # s[1].key
    BY <2>1, <1>1, <1>2 DEF Settles, Adds
  <2>3. QED BY <2>1, <2>2 DEF Adds, Deletes
<1>4. QED BY <1>3

\* Groups and entries are of the right kind after a call.
LEMMA RetxDataStep ==
    ASSUME NEW T, NEW s, NEW T2, NEW R, Proceeds(T, s, T2, R), RetxData(T, s)
    PROVE  RetxData(T2, R)
<1>1. /\ \A i \in 1 .. Len(R) : R[i] = s[i + 1] /\ i + 1 \in 1 .. Len(s)
      /\ 1 \in 1 .. Len(s)
  BY ProceedsFacts
<1>2. ASSUME NEW i \in 1 .. Len(R)
      PROVE  /\ Adds(R[i], GroupKey) => \E m \in Nat : R[i].data = 0 .. m - 1
             /\ Adds(R[i], RetxKey) => R[i].data \in {"ucast", "mcast"}
  BY <1>1 DEF RetxData
<1>3. /\ Adds(s[1], GroupKey) => \E m \in Nat : s[1].data = 0 .. m - 1
      /\ Adds(s[1], RetxKey) => s[1].data \in {"ucast", "mcast"}
  BY <1>1 DEF RetxData
<1>4. ASSUME GroupKey \in DOMAIN T2 PROVE \E m \in Nat : T2[GroupKey] = 0 .. m - 1
  <2>1. CASE Adds(s[1], GroupKey)
    BY <2>1, <1>3, ProceedsKey
  <2>2. CASE GroupKey \in DOMAIN T /\ ~ Deletes(s[1], GroupKey)
    <3>1. T2[GroupKey] = T[GroupKey]
      BY <2>2, ProceedsKey
    <3>2. QED BY <2>2, <3>1 DEF RetxData
  <2>3. QED BY <1>4, <2>1, <2>2, ProceedsKey
<1>5. ASSUME RetxKey \in DOMAIN T2 PROVE T2[RetxKey] \in {"ucast", "mcast"}
  <2>1. CASE Adds(s[1], RetxKey)
    BY <2>1, <1>3, ProceedsKey
  <2>2. CASE RetxKey \in DOMAIN T /\ ~ Deletes(s[1], RetxKey)
    <3>1. T2[RetxKey] = T[RetxKey]
      BY <2>2, ProceedsKey
    <3>2. QED BY <2>2, <3>1 DEF RetxData
  <2>3. QED BY <1>5, <2>1, <2>2, ProceedsKey
<1>6. QED BY <1>2, <1>4, <1>5 DEF RetxData

\* Entries of different tables.
LEMMA KeysDiffer ==
    /\ RetxKey # GroupKey /\ \A n : NodeKey(n) # RetxKey /\ NodeKey(n) # GroupKey
    /\ \A p : PortKey(p) # RetxKey /\ PortKey(p) # GroupKey /\ \A n : PortKey(p) # NodeKey(n)
BY DEF RetxKey, GroupKey, NodeKey, PortKey

\* The order of the calls for copies, after one of them.
LEMMA RetxOrderStep ==
    ASSUME NEW T, NEW s, NEW T2, NEW R, Proceeds(T, s, T2, R), RetxOrder(T, s)
    PROVE  RetxOrder(T2, R)
<1>1. /\ Len(s) \in Nat \ {0} /\ Len(R) = Len(s) - 1
      /\ \A i \in 1 .. Len(R) : R[i] = s[i + 1] /\ i + 1 \in 1 .. Len(s)
      /\ 1 \in 1 .. Len(s)
  BY ProceedsFacts
<1>2. ASSUME NEW i \in 1 .. Len(R), Adds(R[i], RetxKey), R[i].data = "mcast"
      PROVE  GroupReady(T2, R, i) /\ \A j \in i + 1 .. Len(R) : ~ Dismantles(R[j])
  <2>1. /\ Adds(s[i + 1], RetxKey) /\ s[i + 1].data = "mcast"
        /\ i + 1 \in 2 .. Len(s) + 1 /\ i + 1 \in 1 .. Len(s) /\ (i + 1) - 1 = i
    BY <1>1, <1>2
  <2>2. GroupReady(T, s, i + 1) /\ \A j \in i + 2 .. Len(s) : ~ Dismantles(s[j])
    <3>1. \A j \in (i + 1) + 1 .. Len(s) : ~ Dismantles(s[j])
      BY <2>1 DEF RetxOrder
    <3>2. (i + 1) + 1 = i + 2
      OBVIOUS
    <3>3. QED BY <2>1, <3>1, <3>2 DEF RetxOrder
  <2>3. PICK m \in Nat : /\ Holds(T, s, i + 1, GroupKey, 0 .. m - 1)
                         /\ \A n \in 0 .. m - 1 : Holds(T, s, i + 1, NodeKey(n), 32)
    BY <2>2 DEF GroupReady
  <2>4. Holds(T2, R, i, GroupKey, 0 .. m - 1)
    BY <2>1, <2>3, ProceedsHolds
  <2>5. ASSUME NEW n \in 0 .. m - 1 PROVE Holds(T2, R, i, NodeKey(n), 32)
    BY <2>1, <2>3, ProceedsHolds
  <2>6. \A j \in i + 1 .. Len(R) : ~ Dismantles(R[j])
    <3>1. \A j \in i + 1 .. Len(R) : R[j] = s[j + 1] /\ j + 1 \in i + 2 .. Len(s)
      BY <1>1
    <3>2. QED BY <3>1, <2>2
  <2>7. QED BY <2>4, <2>5, <2>6 DEF GroupReady
<1>3. ASSUME Multicast(T2)
      PROVE  /\ GroupWhole(T2)
             /\ \A i \in 1 .. Len(R) :
                    Dismantles(R[i]) => \E j \in 1 .. i - 1 : Deletes(R[j], RetxKey)
  <2>1. CASE Adds(s[1], RetxKey)
    <3>1. T2[RetxKey] = s[1].data
      BY <2>1, ProceedsKey
    <3>2. s[1].data = "mcast"
      BY <3>1, <1>3 DEF Multicast
    <3>3. GroupReady(T, s, 1) /\ \A j \in 1 + 1 .. Len(s) : ~ Dismantles(s[j])
      BY <2>1, <3>2, <1>1 DEF RetxOrder
    <3>4. PICK m \in Nat : /\ Holds(T, s, 1, GroupKey, 0 .. m - 1)
                           /\ \A n \in 0 .. m - 1 : Holds(T, s, 1, NodeKey(n), 32)
      BY <3>3 DEF GroupReady
    <3>5. \A k, d : Holds(T, s, 1, k, d) => k \in DOMAIN T /\ T[k] = d
      BY DEF Holds
    <3>6. \A k : k # RetxKey => ~ Deletes(s[1], k)
      BY <2>1 DEF Adds, Deletes
    <3>7. GroupKey \in DOMAIN T2 /\ T2[GroupKey] = 0 .. m - 1
      <4>1. GroupKey \in DOMAIN T /\ T[GroupKey] = 0 .. m - 1
        BY <3>4, <3>5
      <4>2. ~ Deletes(s[1], GroupKey)
        BY <3>6, KeysDiffer
      <4>3. QED BY <4>1, <4>2, ProceedsKey
    <3>8. ASSUME NEW n \in 0 .. m - 1 PROVE NodeKey(n) \in DOMAIN T2
      <4>1. NodeKey(n) \in DOMAIN T
        BY <3>4, <3>5
      <4>2. ~ Deletes(s[1], NodeKey(n))
        BY <3>6, KeysDiffer
      <4>3. QED BY <4>1, <4>2, ProceedsKey
    <3>9. \A i \in 1 .. Len(R) : ~ Dismantles(R[i])
      <4>1. \A i \in 1 .. Len(R) : R[i] = s[i + 1] /\ i + 1 \in 1 + 1 .. Len(s)
        BY <1>1
      <4>2. QED BY <4>1, <3>3
    <3>10. QED BY <3>7, <3>8, <3>9 DEF GroupWhole
  <2>2. CASE RetxKey \in DOMAIN T /\ ~ Deletes(s[1], RetxKey)
    <3>1. Multicast(T)
      BY <2>2, <1>3, ProceedsKey DEF Multicast
    <3>2. GroupWhole(T) /\ \A i \in 1 .. Len(s) :
                Dismantles(s[i]) => \E j \in 1 .. i - 1 : Deletes(s[j], RetxKey)
      BY <3>1 DEF RetxOrder
    <3>3. ~ Dismantles(s[1])
      BY <3>2, <1>1
    <3>4. PICK m \in Nat : /\ GroupKey \in DOMAIN T /\ T[GroupKey] = 0 .. m - 1
                           /\ \A n \in 0 .. m - 1 : NodeKey(n) \in DOMAIN T
      BY <3>2 DEF GroupWhole
    <3>5. GroupKey \in DOMAIN T2 /\ T2[GroupKey] = 0 .. m - 1
      <4>1. ~ Deletes(s[1], GroupKey)
        BY <3>3 DEF Dismantles
      <4>2. QED BY <3>4, <4>1, ProceedsKey
    <3>6. ASSUME NEW n \in 0 .. m - 1 PROVE NodeKey(n) \in DOMAIN T2
      <4>1. n \in Nat /\ NodeKey(n) \in DOMAIN T
        BY <3>4
      <4>2. ~ Deletes(s[1], NodeKey(n))
        BY <3>3, <4>1 DEF Dismantles
      <4>3. QED BY <4>1, <4>2, ProceedsKey
    <3>7. ASSUME NEW i \in 1 .. Len(R), Dismantles(R[i])
          PROVE  \E j \in 1 .. i - 1 : Deletes(R[j], RetxKey)
      <4>1. Dismantles(s[i + 1]) /\ i + 1 \in 1 .. Len(s)
        BY <3>7, <1>1
      <4>2. PICK j \in 1 .. (i + 1) - 1 : Deletes(s[j], RetxKey)
        BY <3>2, <4>1
      <4>3. j # 1
        BY <4>2, <2>2
      <4>4. j - 1 \in 1 .. i - 1 /\ R[j - 1] = s[j]
        <5>1. j - 1 \in 1 .. i - 1 /\ j - 1 \in 1 .. Len(R) /\ (j - 1) + 1 = j
          BY <4>3
        <5>2. QED BY <5>1, <1>1
      <4>5. QED BY <4>2, <4>4
    <3>8. QED BY <3>2, <3>4, <3>5, <3>6, <3>7 DEF GroupWhole
  <2>3. RetxKey \in DOMAIN T2
    BY <1>3 DEF Multicast
  <2>4. QED BY <2>1, <2>2, <2>3, ProceedsKey
<1>4. QED BY <1>2, <1>3 DEF RetxOrder

\* The number of copies a script leads to does not change while it runs.
LEMMA CopiedStep ==
    ASSUME NEW T, NEW s, NEW T2, NEW R, Proceeds(T, s, T2, R), NEW c \in Nat, Copied(T, s, c)
    PROVE  Copied(T2, R, c)
<1>1. Len(s) + 1 \in 2 .. Len(s) + 1 /\ (Len(s) + 1) - 1 = Len(R) + 1
  BY ProceedsFacts
<1>2. \A k, d : Holds(T, s, Len(s) + 1, k, d) => Holds(T2, R, Len(R) + 1, k, d)
  BY <1>1, ProceedsHolds
<1>3. \A k : Lacks(T, s, k) => Lacks(T2, R, k)
  BY ProceedsLacks
<1>4. QED BY <1>2, <1>3 DEF Copied

\* What the injection needs is there or still to come, after a call.
LEMMA SeedReadyStep ==
    ASSUME NEW T, NEW s, NEW T2, NEW R, Proceeds(T, s, T2, R), NEW sw, SeedReady(sw, T, s)
    PROVE  SeedReady(sw, T2, R)
<1>1. \A i \in 1 .. Len(R) : R[i] = s[i + 1] /\ i + 1 \in 1 .. Len(s)
        /\ i + 1 \in 2 .. Len(s) + 1 /\ (i + 1) - 1 = i
  BY ProceedsFacts
<1>2. ASSUME NEW i \in 1 .. Len(R), NEW k, NEW d, Holds(T, s, i + 1, k, d)
      PROVE  Holds(T2, R, i, k, d)
  BY <1>1, <1>2, ProceedsHolds
<1>3. ASSUME NEW i \in 1 .. Len(R), R[i].op = "inject"
      PROVE  /\ sw # "topo" /\ R[i].key = SeedKey(sw)
             /\ Holds(T2, R, i, SeedKey(sw), SeedPort(sw))
             /\ Holds(T2, R, i, <<SeedTable(sw), SeedPort(sw)>>, SeedSession(sw))
             /\ Holds(T2, R, i, <<"mirror", SeedSession(sw)>>, <<SeedPort(sw), 1>>)
  <2>1. i + 1 \in 1 .. Len(s) /\ s[i + 1].op = "inject" /\ R[i] = s[i + 1]
    BY <1>1, <1>3
  <2>2. /\ sw # "topo" /\ s[i + 1].key = SeedKey(sw)
        /\ Holds(T, s, i + 1, SeedKey(sw), SeedPort(sw))
        /\ Holds(T, s, i + 1, <<SeedTable(sw), SeedPort(sw)>>, SeedSession(sw))
        /\ Holds(T, s, i + 1, <<"mirror", SeedSession(sw)>>, <<SeedPort(sw), 1>>)
    BY <2>1 DEF SeedReady
  <2>3. QED BY <2>1, <2>2, <1>2
<1>4. QED BY <1>3 DEF SeedReady

\* The calls that are left give the ports the same speed.
LEMMA SpeedsStep ==
    ASSUME NEW T, NEW s, NEW T2, NEW R, Proceeds(T, s, T2, R), NEW sw, NEW speed,
           Speeds(sw, s, speed)
    PROVE  Speeds(sw, R, speed)
<1>1. \A i \in 1 .. Len(R) : R[i] = s[i + 1] /\ i + 1 \in 1 .. Len(s)
  BY ProceedsFacts
<1>2. QED BY <1>1 DEF Speeds

\* Ports that have the speed stay, after a call.
LEMMA PortsStayStep ==
    ASSUME NEW T, NEW s, NEW T2, NEW R, Proceeds(T, s, T2, R), NEW sw, NEW speed,
           NEW early, PortsStay(sw, T, s, speed, early)
    PROVE  PortsStay(sw, T2, R, speed, early)
<1>1. \A i \in 1 .. Len(R) : R[i] = s[i + 1] /\ i + 1 \in 1 .. Len(s)
  BY ProceedsFacts
<1>2. SUFFICES ASSUME NEW p \in CheckedPorts(sw), <<sw, p>> \notin early,
                      PortKey(p) \in DOMAIN T2, T2[PortKey(p)] = speed
               PROVE  \A i \in 1 .. Len(R) : ~ Deletes(R[i], PortKey(p))
  BY DEF PortsStay
<1>3. CASE Adds(s[1], PortKey(p))
  BY <1>3, AddedStays
<1>4. CASE PortKey(p) \in DOMAIN T /\ ~ Deletes(s[1], PortKey(p))
  <2>1. T[PortKey(p)] = speed
    BY <1>4, <1>2, ProceedsKey
  <2>2. \A i \in 1 .. Len(s) : ~ Deletes(s[i], PortKey(p))
    BY <2>1, <1>2, <1>4 DEF PortsStay
  <2>3. QED BY <2>2, <1>1
<1>5. QED BY <1>2, <1>3, <1>4, ProceedsKey

-----------------------------------------------------------------------------
\* The set-up scripts, from empty tables.

\* A script in which no entry is added twice, and nothing is removed from
\* empty tables.
Fresh(s) ==
    /\ \A i \in 1 .. Len(s) : s[i].op \in {"add", "clear", "inject"}
    /\ \A i, j \in 1 .. Len(s) :
         i < j /\ s[i].op = "add" => s[j].op = "inject" \/ s[j].key # s[i].key

\* A fresh script is accepted by empty tables.
LEMMA FreshIsAccepted ==
    ASSUME NEW s, Fresh(s)
    PROVE  Settles(s) /\ Accepted(<<>>, s)
<1>1. Settles(s)
  BY DEF Fresh, Settles, Ops
<1>2. \A k : k \notin DOMAIN <<>>
  OBVIOUS
<1>3. QED BY <1>1, <1>2 DEF Fresh, Accepted

\* The set-up of the sender adds nothing twice.
LEMMA SenderFresh ==
    ASSUME NEW speed, NEW s, s = SenderCalls(speed)
    PROVE  Script(s) /\ Len(s) = 20 /\ Fresh(s)
<1>1. s = [i \in 1 .. 20 |-> s[i]]
  BY DEF SenderCalls
<1>2. Script(s) /\ Len(s) = 20
  BY <1>1, IndexedIsScript
<1>3. \A i \in 1 .. 20 : s[i].op \in {"add", "clear", "inject"}
  BY DEF SenderCalls, Add, Clear, Inject
<1>4. \A i, j \in 1 .. 20 :
         i < j /\ s[i].op = "add" => s[j].op = "inject" \/ s[j].key # s[i].key
  BY DEF SenderCalls, Add, Clear, Inject, To, SeedRoute
<1>5. QED BY ZenonT(40), <1>2, <1>3, <1>4 DEF Fresh

\* The set-up of the receiver adds nothing twice.
LEMMA ReceiverFresh ==
    ASSUME NEW speed, NEW s, s = ReceiverCalls(speed)
    PROVE  Script(s) /\ Len(s) = 22 /\ Fresh(s)
<1>1. s = [i \in 1 .. 22 |-> s[i]]
  BY DEF ReceiverCalls
<1>2. Script(s) /\ Len(s) = 22
  BY <1>1, IndexedIsScript
<1>3. \A i \in 1 .. 22 : s[i].op \in {"add", "clear", "inject"}
  BY DEF ReceiverCalls, Add, Inject
<1>4. \A i, j \in 1 .. 22 :
         i < j /\ s[i].op = "add" => s[j].op = "inject" \/ s[j].key # s[i].key
  BY SMTT(30) DEF ReceiverCalls, Add, Inject, To, SeedRoute
<1>5. QED BY ZenonT(40), <1>2, <1>3, <1>4 DEF Fresh

\* The set-up of the topology switch adds nothing twice.
LEMMA TopoFresh ==
    ASSUME NEW speed, NEW s, s = TopoCalls(speed)
    PROVE  Script(s) /\ Len(s) = 21 /\ Fresh(s)
<1>1. s = [i \in 1 .. 21 |-> s[i]]
  BY DEF TopoCalls
<1>2. Script(s) /\ Len(s) = 21
  BY <1>1, IndexedIsScript
<1>3. \A i \in 1 .. 21 : s[i].op \in {"add", "clear", "inject"}
  BY SMTT(30) DEF TopoCalls, Add
<1>4. \A i, j \in 1 .. 21 :
         i < j /\ s[i].op = "add" => s[j].op = "inject" \/ s[j].key # s[i].key
  BY SMTT(30) DEF TopoCalls, Add
<1>5. QED BY ZenonT(40), <1>2, <1>3, <1>4 DEF Fresh

\* The set-up gives the sender's ports the speed.
LEMMA SenderCallsSpeeds ==
    ASSUME NEW speed, NEW s, s = SenderCalls(speed)
    PROVE  Speeds("sender", s, speed)
<1>1. Len(s) = 20
  BY SenderFresh
<1>2. \A i \in 1 .. 20 : \A p \in {32, 36} :
        s[i].op = "add" /\ s[i].key = <<"port", p>> => s[i].data = speed
  BY DEF SenderCalls, Add, Clear, Inject
<1>3. QED BY <1>1, <1>2 DEF Speeds, Adds, PortKey, CheckedPorts

\* The set-up gives the receiver's ports the speed.
LEMMA ReceiverCallsSpeeds ==
    ASSUME NEW speed, NEW s, s = ReceiverCalls(speed)
    PROVE  Speeds("receiver", s, speed)
<1>1. Len(s) = 22
  BY ReceiverFresh
<1>2. \A i \in 1 .. 22 : \A p \in {36, 52} :
        s[i].op = "add" /\ s[i].key = <<"port", p>> => s[i].data = speed
  BY DEF ReceiverCalls, Add, Inject
<1>3. QED BY <1>1, <1>2 DEF Speeds, Adds, PortKey, CheckedPorts

\* The set-up gives the topology switch's ports the speed.
LEMMA TopoCallsSpeeds ==
    ASSUME NEW speed, NEW s, s = TopoCalls(speed)
    PROVE  Speeds("topo", s, speed)
<1>1. Len(s) = 21
  BY TopoFresh
<1>2. \A i \in 1 .. 21 : \A p : s[i].key = <<"port", p>> => s[i].data = speed
  BY SMTT(30) DEF TopoCalls, Add
<1>3. QED BY <1>1, <1>2 DEF Speeds, Adds, PortKey

\* The first dummy packet is injected when it can circulate.
LEMMA SenderCallsSeed ==
    ASSUME NEW speed, NEW s, s = SenderCalls(speed)
    PROVE  /\ SeedReady("sender", <<>>, s)
           /\ 15 \in 1 .. Len(s) /\ s[15].op = "inject"
<1>1. Len(s) = 20
  BY SenderFresh
<1>2. \A i \in 1 .. 20 : s[i].op = "inject" => i = 15
  BY DEF SenderCalls, Add, Clear, Inject
<1>3. /\ s[15].op = "inject" /\ s[15].key = SeedKey("sender")
      /\ Adds(s[10], SeedKey("sender")) /\ s[10].data = 32
      /\ Adds(s[14], <<SeedTable("sender"), 32>>) /\ s[14].data = 17
      /\ Adds(s[13], <<"mirror", 17>>) /\ s[13].data = <<32, 1>>
  BY DEF SenderCalls, Add, Inject, Adds, SeedKey, SeedPort, SeedTable
<1>4. 10 \in 1 .. 15 - 1 /\ 13 \in 1 .. 15 - 1 /\ 14 \in 1 .. 15 - 1
  OBVIOUS
<1>5. SeedPort("sender") = 32 /\ SeedSession("sender") = 17
  BY DEF SeedPort, SeedSession
<1>6. /\ Holds(<<>>, s, 15, SeedKey("sender"), 32)
      /\ Holds(<<>>, s, 15, <<SeedTable("sender"), 32>>, 17)
      /\ Holds(<<>>, s, 15, <<"mirror", 17>>, <<32, 1>>)
  BY <1>3, <1>4 DEF Holds
<1>7. QED BY <1>1, <1>2, <1>3, <1>5, <1>6 DEF SeedReady

\* The first courier packet is injected when it can circulate.
LEMMA ReceiverCallsSeed ==
    ASSUME NEW speed, NEW s, s = ReceiverCalls(speed)
    PROVE  /\ SeedReady("receiver", <<>>, s)
           /\ 22 \in 1 .. Len(s) /\ s[22].op = "inject"
<1>1. Len(s) = 22
  BY ReceiverFresh
<1>2. \A i \in 1 .. 22 : s[i].op = "inject" => i = 22
  BY DEF ReceiverCalls, Add, Inject
<1>3. /\ s[22].op = "inject" /\ s[22].key = SeedKey("receiver")
      /\ Adds(s[16], SeedKey("receiver")) /\ s[16].data = 36
      /\ Adds(s[18], <<SeedTable("receiver"), 36>>) /\ s[18].data = 33
      /\ Adds(s[17], <<"mirror", 33>>) /\ s[17].data = <<36, 1>>
  BY DEF ReceiverCalls, Add, Inject, Adds, SeedKey, SeedPort, SeedTable
<1>4. 16 \in 1 .. 22 - 1 /\ 17 \in 1 .. 22 - 1 /\ 18 \in 1 .. 22 - 1
  OBVIOUS
<1>5. SeedPort("receiver") = 36 /\ SeedSession("receiver") = 33
  BY DEF SeedPort, SeedSession
<1>6. /\ Holds(<<>>, s, 22, SeedKey("receiver"), 36)
      /\ Holds(<<>>, s, 22, <<SeedTable("receiver"), 36>>, 33)
      /\ Holds(<<>>, s, 22, <<"mirror", 33>>, <<36, 1>>)
  BY <1>3, <1>4 DEF Holds
<1>7. ASSUME NEW i \in 1 .. Len(s), s[i].op = "inject" PROVE i = 22
  BY <1>1, <1>2, <1>7
<1>8. "receiver" # "topo"
  OBVIOUS
<1>9. SeedReady("receiver", <<>>, s)
  BY <1>3, <1>5, <1>6, <1>7, <1>8 DEF SeedReady
<1>10. QED BY <1>1, <1>3, <1>9

\* The topology switch injects nothing.
LEMMA TopoCallsSeed ==
    ASSUME NEW speed, NEW s, s = TopoCalls(speed)
    PROVE  SeedReady("topo", <<>>, s)
<1>1. Len(s) = 21
  BY TopoFresh
<1>2. \A i \in 1 .. 21 : s[i].op # "inject"
  BY DEF TopoCalls, Add
<1>3. QED BY <1>1, <1>2 DEF SeedReady

\* The set-up leads to two copies, and gets there in order.
LEMMA SenderCallsRetx ==
    ASSUME NEW speed, NEW s, s = SenderCalls(speed)
    PROVE  RetxData(<<>>, s) /\ RetxOrder(<<>>, s) /\ Copied(<<>>, s, 2)
<1>1. Len(s) = 20
  BY SenderFresh
<1>2. \A k : k \notin DOMAIN <<>>
  OBVIOUS
<1>3. /\ Adds(s[17], NodeKey(0)) /\ s[17].data = 32
      /\ Adds(s[18], NodeKey(1)) /\ s[18].data = 32
      /\ Adds(s[19], GroupKey) /\ s[19].data = 0 .. 1
      /\ Adds(s[20], RetxKey) /\ s[20].data = "mcast"
  BY DEF SenderCalls, Add, Adds, NodeKey, GroupKey, RetxKey
<1>4. \A i \in 1 .. 20 : /\ Adds(s[i], GroupKey) => i = 19
                         /\ Adds(s[i], RetxKey) => i = 20
                         /\ \A n : Adds(s[i], NodeKey(n)) => n \in {0, 1}
  <2>1. \A i \in 1 .. 20 : s[i].op = "add" /\ s[i].key = <<"group", 1>> => i = 19
    BY DEF SenderCalls, Add, Clear, Inject
  <2>2. \A i \in 1 .. 20 : s[i].op = "add" /\ s[i].key = <<"retx", 32>> => i = 20
    BY DEF SenderCalls, Add, Clear, Inject
  <2>3. \A i \in 1 .. 20 : \A n :
          s[i].op = "add" /\ s[i].key = <<"node", n>> => n \in {0, 1}
    BY DEF SenderCalls, Add, Clear, Inject
  <2>4. QED BY <2>1, <2>2, <2>3 DEF Adds, NodeKey, GroupKey, RetxKey
<1>5. 0 .. 2 - 1 = 0 .. 1
  OBVIOUS
<1>6. RetxData(<<>>, s)
  BY <1>1, <1>2, <1>3, <1>4, <1>5 DEF RetxData
<1>7. ASSUME NEW n \in {20, 21}
      PROVE  /\ Holds(<<>>, s, n, GroupKey, 0 .. 2 - 1)
             /\ \A m \in 0 .. 2 - 1 : Holds(<<>>, s, n, NodeKey(m), 32)
  <2>1. 17 \in 1 .. n - 1 /\ 18 \in 1 .. n - 1 /\ 19 \in 1 .. n - 1
    OBVIOUS
  <2>2. /\ Holds(<<>>, s, n, GroupKey, 0 .. 1) /\ Holds(<<>>, s, n, NodeKey(0), 32)
        /\ Holds(<<>>, s, n, NodeKey(1), 32)
    BY <1>3, <2>1 DEF Holds
  <2>3. \A m \in 0 .. 2 - 1 : m = 0 \/ m = 1
    OBVIOUS
  <2>4. QED BY <2>2, <2>3, <1>5
<1>8. RetxOrder(<<>>, s)
  <2>1. ~ Multicast(<<>>)
    BY <1>2 DEF Multicast
  <2>2. GroupReady(<<>>, s, 20)
    BY <1>7 DEF GroupReady
  <2>3. \A j \in 20 + 1 .. 20 : FALSE
    OBVIOUS
  <2>4. QED BY <1>1, <1>4, <2>1, <2>2, <2>3 DEF RetxOrder
<1>9. Copied(<<>>, s, 2)
  <2>1. Holds(<<>>, s, 21, RetxKey, "mcast")
    <3>1. 20 \in 1 .. 21 - 1
      OBVIOUS
    <3>2. QED BY <1>3, <3>1 DEF Holds
  <2>2. \A n \in Nat : n >= 2 => Lacks(<<>>, s, NodeKey(n))
    BY <1>1, <1>2, <1>4 DEF Lacks
  <2>3. Len(s) + 1 = 21
    BY <1>1
  <2>4. QED BY <1>7, <2>1, <2>2, <2>3 DEF Copied
<1>10. QED BY <1>6, <1>8, <1>9

-----------------------------------------------------------------------------
\* Another number of copies.

\* The calls that change the number of copies from c to n, by their place.
RetxCall(c, n, i, call) ==
    \/ i = 1 /\ call = Clear("retx", 32)
    \/ c > 1 /\ i \in 2 .. c + 1 /\ call = Delete("node", i - 2)
    \/ c > 1 /\ i = c + 2 /\ call = Delete("group", 1)
    \/ n = 1 /\ i = 2 + Removed(c) /\ call = Add("retx", 32, "ucast")
    \/ /\ n > 1 /\ i \in 2 + Removed(c) .. 1 + Removed(c) + n
       /\ call = Add("node", i - 2 - Removed(c), 32)
    \/ n > 1 /\ i = 2 + Removed(c) + n /\ call = Add("group", 1, 0 .. n - 1)
    \/ n > 1 /\ i = 3 + Removed(c) + n /\ call = Add("retx", 32, "mcast")

\* s is what changes c copies to n.
Recopies(s, c, n) ==
    /\ Script(s) /\ Len(s) = 1 + Removed(c) + Provided(n)
    /\ \A i \in 1 .. Len(s) : RetxCall(c, n, i, s[i])

\* set_number_of_retx_copies makes the calls that RetxCall lists.
LEMMA RetxRecopies ==
    ASSUME NEW c \in Nat, NEW n \in Nat, n # c, NEW s, s = RetxCalls(c, n)
    PROVE  Recopies(s, c, n)
<1>1. RetxShape(s, c, n)
  BY RetxListed
<1>2. /\ Script(s) /\ Len(s) = 1 + Removed(c) + Provided(n)
      /\ s[1] = Clear("retx", 32)
      /\ c > 1 => /\ \A i \in 1 .. c : s[1 + i] = Delete("node", i - 1)
                  /\ s[c + 2] = Delete("group", 1)
      /\ n = 1 => s[2 + Removed(c)] = Add("retx", 32, "ucast")
      /\ n > 1 => /\ \A i \in 1 .. n :
                        s[1 + Removed(c) + i] = Add("node", i - 1, 32)
                  /\ s[2 + Removed(c) + n] = Add("group", 1, 0 .. n - 1)
                  /\ s[3 + Removed(c) + n] = Add("retx", 32, "mcast")
  BY <1>1 DEF RetxShape
<1>3. Removed(c) \in Nat /\ (c > 1 => Removed(c) = c + 1) /\ (c <= 1 => Removed(c) = 0)
  BY DEF Removed
<1>4. Provided(n) \in Nat /\ (n > 1 => Provided(n) = n + 2) /\ (n <= 1 => Provided(n) = n)
  BY DEF Provided
<1> DEFINE r == Removed(c)
           q == Provided(n)
<1> HIDE DEF r, q
<1>5. ASSUME NEW i \in 1 .. Len(s) PROVE RetxCall(c, n, i, s[i])
  <2>1. i \in Nat /\ i >= 1 /\ i <= 1 + r + q /\ r \in Nat /\ q \in Nat
    BY <1>2, <1>3, <1>4 DEF r, q
  <2>2. CASE i = 1
    BY <2>2, <1>2 DEF RetxCall
  <2>3. CASE c > 1 /\ i \in 2 .. c + 1
    <3>1. i - 1 \in 1 .. c /\ 1 + (i - 1) = i /\ (i - 1) - 1 = i - 2
      BY <2>3
    <3>2. s[i] = Delete("node", i - 2)
      BY <3>1, <2>3, <1>2
    <3>3. QED BY <3>2, <2>3 DEF RetxCall
  <2>4. CASE c > 1 /\ i = c + 2
    BY <2>4, <1>2 DEF RetxCall
  <2>5. CASE n = 1 /\ i = 2 + r
    BY <2>5, <1>2 DEF RetxCall, r
  <2>6. CASE n > 1 /\ i \in 2 + r .. 1 + r + n
    <3>1. i - 1 - r \in 1 .. n /\ 1 + r + (i - 1 - r) = i /\ (i - 1 - r) - 1 = i - 2 - r
      BY <2>6, <2>1
    <3>2. \A k \in 1 .. n : s[1 + r + k] = Add("node", k - 1, 32)
      BY <2>6, <1>2 DEF r
    <3>3. s[i] = Add("node", i - 2 - r, 32)
      BY <3>1, <3>2
    <3>4. QED BY <3>3, <2>6 DEF RetxCall, r
  <2>7. CASE n > 1 /\ i = 2 + r + n
    BY <2>7, <1>2 DEF RetxCall, r
  <2>8. CASE n > 1 /\ i = 3 + r + n
    BY <2>8, <1>2 DEF RetxCall, r
  <2>9. /\ c > 1 => r = c + 1
        /\ c <= 1 => r = 0
        /\ n > 1 => q = n + 2
        /\ n <= 1 => q = n
    BY <1>3, <1>4 DEF r, q
  <2>10. \/ i = 1 \/ (c > 1 /\ i \in 2 .. c + 1) \/ (c > 1 /\ i = c + 2)
         \/ (n = 1 /\ i = 2 + r) \/ (n > 1 /\ i \in 2 + r .. 1 + r + n)
         \/ (n > 1 /\ i = 2 + r + n) \/ (n > 1 /\ i = 3 + r + n)
    BY <2>1, <2>9
  <2>11. QED BY <2>2, <2>3, <2>4, <2>5, <2>6, <2>7, <2>8, <2>10
<1>6. QED BY <1>2, <1>5 DEF Recopies

\* By kind of call: where it is, and what it does.
LEMMA RecopiesKinds ==
    ASSUME NEW c \in Nat, NEW n \in Nat, NEW s, Recopies(s, c, n)
    PROVE  /\ \A i \in 1 .. Len(s) :
                /\ s[i].op \in {"add", "delete", "clear"}
                /\ s[i].op = "add" => i \in 2 + Removed(c) .. Len(s)
                /\ s[i].op = "delete" => c > 1 /\ i \in 2 .. c + 2 /\ i <= 1 + Removed(c)
                /\ s[i].op = "clear" => i = 1 /\ s[i].key = RetxKey
                /\ Adds(s[i], GroupKey) => n > 1 /\ s[i].data = 0 .. n - 1
                /\ Adds(s[i], RetxKey) =>
                    i = Len(s) /\ s[i].data = IF n = 1 THEN "ucast" ELSE "mcast"
                /\ \A k \in Nat : Adds(s[i], NodeKey(k)) => n > 1 /\ k \in 0 .. n - 1
           /\ Len(s) = 1 + Removed(c) + Provided(n)
           /\ Removed(c) \in Nat /\ (c > 1 => Removed(c) = c + 1) /\ (c <= 1 => Removed(c) = 0)
           /\ Provided(n) \in Nat /\ (n > 1 => Provided(n) = n + 2)
           /\ n <= 1 => Provided(n) = n
<1> DEFINE r == Removed(c)
           q == Provided(n)
<1>1. r \in Nat /\ (c > 1 => r = c + 1) /\ (c <= 1 => r = 0)
  BY DEF Removed
<1>2. q \in Nat /\ (n > 1 => q = n + 2) /\ (n <= 1 => q = n)
  BY DEF Provided
<1>3. Len(s) = 1 + r + q /\ \A i \in 1 .. Len(s) : RetxCall(c, n, i, s[i])
  BY DEF Recopies
<1>4. ASSUME NEW i \in 1 .. Len(s)
      PROVE  \/ i = 1 /\ s[i] = Clear("retx", 32)
             \/ c > 1 /\ i \in 2 .. c + 1 /\ s[i] = Delete("node", i - 2)
             \/ c > 1 /\ i = c + 2 /\ s[i] = Delete("group", 1)
             \/ n = 1 /\ i = 2 + r /\ s[i] = Add("retx", 32, "ucast")
             \/ n > 1 /\ i \in 2 + r .. 1 + r + n /\ s[i] = Add("node", i - 2 - r, 32)
             \/ n > 1 /\ i = 2 + r + n /\ s[i] = Add("group", 1, 0 .. n - 1)
             \/ n > 1 /\ i = 3 + r + n /\ s[i] = Add("retx", 32, "mcast")
  BY <1>3 DEF RetxCall
<1> HIDE DEF r, q
<1>5. ASSUME NEW i \in 1 .. Len(s)
      PROVE  /\ s[i].op \in {"add", "delete", "clear"}
             /\ s[i].op = "add" => i \in 2 + r .. Len(s)
             /\ s[i].op = "delete" => c > 1 /\ i \in 2 .. c + 2 /\ i <= 1 + r
             /\ s[i].op = "clear" => i = 1 /\ s[i].key = RetxKey
             /\ Adds(s[i], GroupKey) => n > 1 /\ s[i].data = 0 .. n - 1
             /\ Adds(s[i], RetxKey) =>
                    i = Len(s) /\ s[i].data = IF n = 1 THEN "ucast" ELSE "mcast"
             /\ \A k \in Nat : Adds(s[i], NodeKey(k)) => n > 1 /\ k \in 0 .. n - 1
  <2>1. CASE i = 1 /\ s[i] = Clear("retx", 32)
    BY <2>1 DEF Clear, Adds, RetxKey
  <2>2. CASE c > 1 /\ i \in 2 .. c + 1 /\ s[i] = Delete("node", i - 2)
    BY <2>2, <1>1 DEF Delete, Adds
  <2>3. CASE c > 1 /\ i = c + 2 /\ s[i] = Delete("group", 1)
    BY <2>3, <1>1 DEF Delete, Adds
  <2>4. CASE n = 1 /\ i = 2 + r /\ s[i] = Add("retx", 32, "ucast")
    BY <2>4, <1>1, <1>2, <1>3 DEF Add, Adds, RetxKey, GroupKey, NodeKey
  <2>5. CASE n > 1 /\ i \in 2 + r .. 1 + r + n /\ s[i] = Add("node", i - 2 - r, 32)
    BY <2>5, <1>1, <1>2, <1>3 DEF Add, Adds, RetxKey, GroupKey, NodeKey
  <2>6. CASE n > 1 /\ i = 2 + r + n /\ s[i] = Add("group", 1, 0 .. n - 1)
    BY <2>6, <1>1, <1>2, <1>3 DEF Add, Adds, RetxKey, GroupKey, NodeKey
  <2>7. CASE n > 1 /\ i = 3 + r + n /\ s[i] = Add("retx", 32, "mcast")
    BY <2>7, <1>1, <1>2, <1>3 DEF Add, Adds, RetxKey, GroupKey, NodeKey
  <2>8. QED BY <1>4, <2>1, <2>2, <2>3, <2>4, <2>5, <2>6, <2>7
<1>6. QED BY <1>1, <1>2, <1>3, <1>5 DEF r, q

\* Where a call for each entry is.
LEMMA RecopiesPlaces ==
    ASSUME NEW c \in Nat, NEW n \in Nat, NEW s, Recopies(s, c, n)
    PROVE  /\ 1 \in 1 .. Len(s) /\ s[1] = Clear("retx", 32)
           /\ c > 1 => /\ \A k \in 0 .. c - 1 :
                            k + 2 \in 1 .. 1 + Removed(c) /\ s[k + 2] = Delete("node", k)
                       /\ c + 2 \in 1 .. 1 + Removed(c) /\ s[c + 2] = Delete("group", 1)
           /\ n = 1 => Len(s) = 2 + Removed(c) /\ s[Len(s)] = Add("retx", 32, "ucast")
           /\ n > 1 => /\ \A k \in 0 .. n - 1 :
                            /\ 2 + Removed(c) + k \in 1 .. Len(s) - 2
                            /\ s[2 + Removed(c) + k] = Add("node", k, 32)
                       /\ s[Len(s) - 1] = Add("group", 1, 0 .. n - 1)
                       /\ Len(s) - 1 \in 1 .. Len(s) - 1
                       /\ s[Len(s)] = Add("retx", 32, "mcast")
<1> DEFINE r == Removed(c)
           q == Provided(n)
<1>1. r \in Nat /\ (c > 1 => r = c + 1) /\ (c <= 1 => r = 0)
  BY DEF Removed
<1>2. q \in Nat /\ (n > 1 => q = n + 2) /\ (n <= 1 => q = n)
  BY DEF Provided
<1>3. Len(s) = 1 + r + q /\ \A i \in 1 .. Len(s) : RetxCall(c, n, i, s[i])
  BY DEF Recopies
<1>4. ASSUME NEW i \in 1 .. Len(s)
      PROVE  \/ i = 1 /\ s[i] = Clear("retx", 32)
             \/ c > 1 /\ i \in 2 .. c + 1 /\ s[i] = Delete("node", i - 2)
             \/ c > 1 /\ i = c + 2 /\ s[i] = Delete("group", 1)
             \/ n = 1 /\ i = 2 + r /\ s[i] = Add("retx", 32, "ucast")
             \/ n > 1 /\ i \in 2 + r .. 1 + r + n /\ s[i] = Add("node", i - 2 - r, 32)
             \/ n > 1 /\ i = 2 + r + n /\ s[i] = Add("group", 1, 0 .. n - 1)
             \/ n > 1 /\ i = 3 + r + n /\ s[i] = Add("retx", 32, "mcast")
  BY <1>3 DEF RetxCall
<1> HIDE DEF r, q
<1>5. 1 \in 1 .. Len(s) /\ s[1] = Clear("retx", 32)
  <2>1. 1 \in 1 .. Len(s)
    BY <1>1, <1>2, <1>3
  <2>2. QED BY <2>1, <1>1, <1>4
<1>6. ASSUME c > 1, NEW k \in 0 .. c - 1
      PROVE  k + 2 \in 1 .. 1 + r /\ s[k + 2] = Delete("node", k)
  <2>1. k + 2 \in 1 .. 1 + r /\ k + 2 \in 1 .. Len(s) /\ k + 2 <= c + 1 /\ (k + 2) - 2 = k
    BY <1>1, <1>2, <1>3, <1>6
  <2>2. k + 2 # 1 /\ k + 2 # c + 2 /\ k + 2 # 2 + r /\ ~ (k + 2 >= 2 + r)
    BY <1>1, <1>6, <2>1
  <2>3. QED BY <2>1, <2>2, <1>1, <1>4
<1>7. ASSUME c > 1 PROVE c + 2 \in 1 .. 1 + r /\ s[c + 2] = Delete("group", 1)
  <2>1. c + 2 \in 1 .. 1 + r /\ c + 2 \in 1 .. Len(s)
    BY <1>1, <1>2, <1>3, <1>7
  <2>2. c + 2 # 1 /\ ~ (c + 2 <= c + 1) /\ c + 2 # 2 + r /\ ~ (c + 2 >= 2 + r)
    BY <1>1, <1>7
  <2>3. QED BY SMTT(30), <2>1, <2>2, <1>1, <1>4
<1>8. ASSUME n = 1 PROVE Len(s) = 2 + r /\ s[Len(s)] = Add("retx", 32, "ucast")
  <2>1. Len(s) = 2 + r /\ Len(s) \in 1 .. Len(s) /\ Len(s) # 1
        /\ (c > 1 => Len(s) > c + 2)
    BY <1>1, <1>2, <1>3, <1>8
  <2>2. QED BY <2>1, <1>8, <1>4
<1>9. ASSUME n > 1, NEW k \in 0 .. n - 1
      PROVE  2 + r + k \in 1 .. Len(s) - 2 /\ s[2 + r + k] = Add("node", k, 32)
  <2> DEFINE i == 2 + r + k
  <2>1. i \in 1 .. Len(s) - 2 /\ i \in 1 .. Len(s) /\ i - 2 - r = k /\ i <= 1 + r + n
        /\ i >= 2 /\ (c > 1 => i > c + 2)
    BY <1>1, <1>2, <1>3, <1>9
  <2> HIDE DEF i
  <2>2. s[i] = Add("node", i - 2 - r, 32)
    BY <2>1, <1>1, <1>9, <1>4
  <2>3. QED BY <2>1, <2>2 DEF i
<1>10. ASSUME n > 1
       PROVE  /\ s[Len(s) - 1] = Add("group", 1, 0 .. n - 1)
              /\ Len(s) - 1 \in 1 .. Len(s) - 1
              /\ s[Len(s)] = Add("retx", 32, "mcast")
  <2> DEFINE i == Len(s) - 1
             j == Len(s)
  <2>1. /\ i = 2 + r + n /\ i \in 1 .. Len(s) /\ i \in 1 .. Len(s) - 1 /\ i > 2
        /\ j = 3 + r + n /\ j \in 1 .. Len(s) /\ j > 2
        /\ c > 1 => i > c + 2 /\ j > c + 2
    BY <1>1, <1>2, <1>3, <1>10
  <2> HIDE DEF i, j
  <2>2. s[i] = Add("group", 1, 0 .. n - 1)
    BY <2>1, <1>1, <1>10, <1>4
  <2>3. s[j] = Add("retx", 32, "mcast")
    BY <2>1, <1>1, <1>10, <1>4
  <2>4. QED BY <2>1, <2>2, <2>3 DEF i, j
<1>11. QED BY <1>5, <1>6, <1>7, <1>8, <1>9, <1>10 DEF r

\* The command that changes the number of copies.

\* The entries that the calls for copies are about.
LEMMA RetxCallKeys ==
    /\ \A k : /\ Delete("node", k).op = "delete" /\ Delete("node", k).key = NodeKey(k)
            /\ \A d : /\ Add("node", k, d).op = "add" /\ Add("node", k, d).key = NodeKey(k)
                     /\ Add("node", k, d).data = d
            /\ \A m : NodeKey(k) = NodeKey(m) => k = m
    /\ Delete("group", 1).op = "delete" /\ Delete("group", 1).key = GroupKey
    /\ Clear("retx", 32).op = "clear" /\ Clear("retx", 32).key = RetxKey
    /\ \A d : /\ Add("group", 1, d).op = "add" /\ Add("group", 1, d).key = GroupKey
             /\ Add("group", 1, d).data = d
             /\ Add("retx", 32, d).op = "add" /\ Add("retx", 32, d).key = RetxKey
             /\ Add("retx", 32, d).data = d
<1>1. \A k : /\ Delete("node", k).op = "delete" /\ Delete("node", k).key = NodeKey(k)
            /\ \A d : /\ Add("node", k, d).op = "add" /\ Add("node", k, d).key = NodeKey(k)
                     /\ Add("node", k, d).data = d
  BY DEF Add, Delete, NodeKey
<1>2. \A k, m : NodeKey(k) = NodeKey(m) => k = m
  BY DEF NodeKey
<1>3. /\ Delete("group", 1).op = "delete" /\ Delete("group", 1).key = GroupKey
      /\ Clear("retx", 32).op = "clear" /\ Clear("retx", 32).key = RetxKey
  BY DEF Delete, Clear, GroupKey, RetxKey
<1>4. \A d : /\ Add("group", 1, d).op = "add" /\ Add("group", 1, d).key = GroupKey
            /\ Add("group", 1, d).data = d
            /\ Add("retx", 32, d).op = "add" /\ Add("retx", 32, d).key = RetxKey
            /\ Add("retx", 32, d).data = d
  BY DEF Add, GroupKey, RetxKey
<1>5. QED BY <1>1, <1>2, <1>3, <1>4

\* The calls for copies add an entry only after deleting it.
LEMMA CopiesSettle ==
    ASSUME NEW c \in Nat, NEW n \in Nat, NEW s, Recopies(s, c, n)
    PROVE  Settles(s)
<1>1. /\ \A i \in 1 .. Len(s) :
                /\ s[i].op \in {"add", "delete", "clear"}
                /\ s[i].op = "add" => i \in 2 + Removed(c) .. Len(s)
                /\ s[i].op = "delete" => c > 1 /\ i \in 2 .. c + 2 /\ i <= 1 + Removed(c)
                /\ s[i].op = "clear" => i = 1 /\ s[i].key = RetxKey
      /\ Len(s) = 1 + Removed(c) + Provided(n)
      /\ Removed(c) \in Nat /\ Provided(n) \in Nat
  BY RecopiesKinds
<1>2. ASSUME NEW i \in 1 .. Len(s), NEW j \in 1 .. Len(s), i < j, s[i].op = "add"
      PROVE  s[j].key # s[i].key
  <2>1. i \in 2 + Removed(c) .. Len(s) /\ s[j].op = "add"
    BY SMTT(30), <1>1, <1>2
  <2> DEFINE r == Removed(c)
             a == s[i]
             b == s[j]
  <2>2. RetxCall(c, n, i, a) /\ RetxCall(c, n, j, b)
    BY DEF Recopies
  <2>3. r = Removed(c) /\ (c > 1 => r = c + 1)
    BY DEF Removed
  <2>4. r \in Nat /\ i \in Nat /\ j \in Nat /\ i < j /\ 2 + r <= i /\ 2 + r <= j
    BY <1>1, <1>2, <2>1
  <2> HIDE DEF r, a, b
  <2>5. \/ n = 1 /\ i = 2 + r
        \/ n > 1 /\ i <= 1 + r + n /\ a = Add("node", i - 2 - r, 32)
        \/ n > 1 /\ i = 2 + r + n /\ a = Add("group", 1, 0 .. n - 1)
        \/ n > 1 /\ i = 3 + r + n
    <3>1. i # 1 /\ (c > 1 => i \notin 2 .. c + 1 /\ i # c + 2)
      BY <2>3, <2>4
    <3>2. QED BY <2>2, <2>3, <2>4, <3>1 DEF RetxCall
  <2>6. \/ n = 1 /\ j = 2 + r
        \/ n > 1 /\ j <= 1 + r + n /\ b = Add("node", j - 2 - r, 32)
        \/ n > 1 /\ j = 2 + r + n /\ b = Add("group", 1, 0 .. n - 1)
        \/ n > 1 /\ j = 3 + r + n /\ b = Add("retx", 32, "mcast")
    <3>1. j # 1 /\ (c > 1 => j \notin 2 .. c + 1 /\ j # c + 2)
      BY <2>3, <2>4
    <3>2. QED BY <2>2, <2>3, <2>4, <3>1 DEF RetxCall
  <2>7. a.key # b.key
    <3>1. CASE n > 1 /\ i <= 1 + r + n /\ a = Add("node", i - 2 - r, 32)
      <4>1. a.key = NodeKey(i - 2 - r)
        BY <3>1, RetxCallKeys
      <4>2. \/ b.key = NodeKey(j - 2 - r) \/ b.key = GroupKey \/ b.key = RetxKey
        BY <2>6, <3>1, RetxCallKeys
      <4>3. i - 2 - r # j - 2 - r
        BY <2>4
      <4>4. NodeKey(i - 2 - r) # NodeKey(j - 2 - r)
        BY <4>3, RetxCallKeys
      <4>5. QED BY <4>1, <4>2, <4>4, KeysDiffer
    <3>2. CASE n > 1 /\ i = 2 + r + n /\ a = Add("group", 1, 0 .. n - 1)
      <4>1. j = 3 + r + n /\ b = Add("retx", 32, "mcast")
        BY <2>4, <2>6, <3>2
      <4>2. QED BY <3>2, <4>1, RetxCallKeys, KeysDiffer
    <3>3. ~ (n = 1 /\ i = 2 + r) /\ ~ (n > 1 /\ i = 3 + r + n)
      BY <2>4, <2>6
    <3>4. QED BY <2>5, <3>1, <3>2, <3>3
  <2>8. QED BY <2>7 DEF a, b
<1>3. QED BY <1>1, <1>2 DEF Settles, Ops

\* The calls for copies make groups and entries of the right kind.
LEMMA CopiesData ==
    ASSUME NEW T, NEW c \in Nat, NEW n \in Nat, NEW s, Recopies(s, c, n), RetxData(T, <<>>)
    PROVE  RetxData(T, s)
<1>1. \A i \in 1 .. Len(s) :
                /\ Adds(s[i], GroupKey) => n > 1 /\ s[i].data = 0 .. n - 1
                /\ Adds(s[i], RetxKey) =>
                    i = Len(s) /\ s[i].data = IF n = 1 THEN "ucast" ELSE "mcast"
  BY RecopiesKinds
<1>2. QED BY <1>1 DEF RetxData

\* The group is dismantled after the entry is gone, and there before the entry.
LEMMA CopiesOrder ==
    ASSUME NEW T, NEW c \in Nat, NEW n \in Nat, NEW s, Recopies(s, c, n), RetxOrder(T, <<>>)
    PROVE  RetxOrder(T, s)
<1>1. /\ \A i \in 1 .. Len(s) :
                /\ s[i].op \in {"add", "delete", "clear"}
                /\ s[i].op = "add" => i \in 2 + Removed(c) .. Len(s)
                /\ s[i].op = "delete" => c > 1 /\ i \in 2 .. c + 2 /\ i <= 1 + Removed(c)
                /\ s[i].op = "clear" => i = 1 /\ s[i].key = RetxKey
                /\ Adds(s[i], RetxKey) =>
                    i = Len(s) /\ s[i].data = IF n = 1 THEN "ucast" ELSE "mcast"
      /\ Len(s) = 1 + Removed(c) + Provided(n)
      /\ Removed(c) \in Nat /\ Provided(n) \in Nat
      /\ n <= 1 => Provided(n) = n
  BY RecopiesKinds
<1>2. /\ 1 \in 1 .. Len(s) /\ s[1] = Clear("retx", 32)
      /\ n > 1 => /\ \A k \in 0 .. n - 1 :
                            /\ 2 + Removed(c) + k \in 1 .. Len(s) - 2
                            /\ s[2 + Removed(c) + k] = Add("node", k, 32)
                  /\ s[Len(s) - 1] = Add("group", 1, 0 .. n - 1)
                  /\ Len(s) - 1 \in 1 .. Len(s) - 1
                  /\ s[Len(s)] = Add("retx", 32, "mcast")
  BY RecopiesPlaces
<1>3. Multicast(T) => GroupWhole(T)
  BY DEF RetxOrder
<1>4. Deletes(s[1], RetxKey)
  BY <1>2 DEF Deletes, Clear, RetxKey
<1>5. ASSUME NEW i \in 1 .. Len(s), Dismantles(s[i])
      PROVE  \E j \in 1 .. i - 1 : Deletes(s[j], RetxKey)
  <2>1. i # 1
    <3>1. ~ Dismantles(s[1])
      BY <1>4, KeysDiffer DEF Dismantles, Deletes
    <3>2. QED BY <1>5, <3>1
  <2>2. 1 \in 1 .. i - 1
    BY <2>1
  <2>3. QED BY <2>2, <1>4
<1>6. ASSUME NEW i \in 1 .. Len(s), Adds(s[i], RetxKey), s[i].data = "mcast"
      PROVE  GroupReady(T, s, i) /\ \A j \in i + 1 .. Len(s) : ~ Dismantles(s[j])
  <2>1. i = Len(s) /\ n # 1
    BY <1>1, <1>6
  <2>2. n > 1
    <3>1. n # 0
      <4>1. i \in 2 + Removed(c) .. Len(s)
        BY <1>1, <1>6 DEF Adds
      <4>2. QED BY <4>1, <1>1
    <3>2. QED BY <2>1, <3>1
  <2>3. Holds(T, s, i, GroupKey, 0 .. n - 1)
    <3>1. Adds(s[Len(s) - 1], GroupKey) /\ s[Len(s) - 1].data = 0 .. n - 1
      BY <1>2, <2>2 DEF Add, Adds, GroupKey
    <3>2. QED BY <3>1, <2>1, <2>2, <1>2 DEF Holds
  <2>4. ASSUME NEW k \in 0 .. n - 1 PROVE Holds(T, s, i, NodeKey(k), 32)
    <3> DEFINE a == 2 + Removed(c) + k
    <3>0. a \in 1 .. Len(s) - 2 /\ s[a] = Add("node", k, 32)
      BY <2>2, <1>2
    <3>1. a \in 1 .. i - 1 /\ s[a] = Add("node", k, 32)
      <4> HIDE DEF a
      <4>1. QED BY <3>0, <2>1, <1>1
    <3> HIDE DEF a
    <3>2. Adds(s[a], NodeKey(k)) /\ s[a].data = 32
      BY <3>1 DEF Add, Adds, NodeKey
    <3>3. QED BY <3>1, <3>2 DEF Holds
  <2>5. \A j \in i + 1 .. Len(s) : FALSE
    BY <2>1
  <2>6. GroupReady(T, s, i)
    BY <2>3, <2>4 DEF GroupReady
  <2>7. QED BY <2>5, <2>6
<1>7. QED BY <1>3, <1>5, <1>6 DEF RetxOrder

\* Nothing else is touched.
LEMMA CopiesElsewhere ==
    ASSUME NEW c \in Nat, NEW n \in Nat, NEW s, Recopies(s, c, n)
    PROVE  \A i \in 1 .. Len(s) :
              /\ s[i].op # "inject"
              /\ \A p : ~ Adds(s[i], PortKey(p)) /\ ~ Deletes(s[i], PortKey(p))
<1>1. ASSUME NEW i \in 1 .. Len(s)
      PROVE  s[i].op # "inject" /\ \A p : s[i].key # PortKey(p)
  <2>1. RetxCall(c, n, i, s[i])
    BY DEF Recopies
  <2>2. \/ s[i] = Clear("retx", 32)
        \/ \E k : s[i] = Delete("node", k)
        \/ s[i] = Delete("group", 1)
        \/ \E k, d : s[i] = Add("node", k, d)
        \/ \E d : s[i] = Add("group", 1, d)
        \/ \E d : s[i] = Add("retx", 32, d)
    BY <2>1 DEF RetxCall
  <2>3. QED BY <2>2, RetxCallKeys, KeysDiffer
<1>2. QED BY <1>1 DEF Adds, Deletes

\* From c copies to n, no call is refused.
LEMMA CopiesAccepted ==
    ASSUME NEW T, NEW c \in Nat, NEW n \in Nat, NEW s, Recopies(s, c, n), Copied(T, <<>>, c)
    PROVE  Accepted(T, s) /\ Copied(T, s, n)
<1>1. /\ \A i \in 1 .. Len(s) :
                /\ s[i].op \in {"add", "delete", "clear"}
                /\ s[i].op = "add" => i \in 2 + Removed(c) .. Len(s)
                /\ s[i].op = "delete" => c > 1 /\ i \in 2 .. c + 2 /\ i <= 1 + Removed(c)
                /\ s[i].op = "clear" => i = 1 /\ s[i].key = RetxKey
                /\ Adds(s[i], GroupKey) => n > 1 /\ s[i].data = 0 .. n - 1
                /\ Adds(s[i], RetxKey) =>
                    i = Len(s) /\ s[i].data = IF n = 1 THEN "ucast" ELSE "mcast"
                /\ \A k \in Nat : Adds(s[i], NodeKey(k)) => n > 1 /\ k \in 0 .. n - 1
      /\ Len(s) = 1 + Removed(c) + Provided(n)
      /\ Removed(c) \in Nat /\ (c > 1 => Removed(c) = c + 1) /\ (c <= 1 => Removed(c) = 0)
      /\ Provided(n) \in Nat /\ (n > 1 => Provided(n) = n + 2)
      /\ n <= 1 => Provided(n) = n
  BY RecopiesKinds
<1>2. /\ 1 \in 1 .. Len(s) /\ s[1] = Clear("retx", 32)
      /\ c > 1 => /\ \A k \in 0 .. c - 1 :
                            k + 2 \in 1 .. 1 + Removed(c) /\ s[k + 2] = Delete("node", k)
                  /\ c + 2 \in 1 .. 1 + Removed(c) /\ s[c + 2] = Delete("group", 1)
      /\ n = 1 => Len(s) = 2 + Removed(c) /\ s[Len(s)] = Add("retx", 32, "ucast")
      /\ n > 1 => /\ \A k \in 0 .. n - 1 :
                            /\ 2 + Removed(c) + k \in 1 .. Len(s) - 2
                            /\ s[2 + Removed(c) + k] = Add("node", k, 32)
                  /\ s[Len(s) - 1] = Add("group", 1, 0 .. n - 1)
                  /\ Len(s) - 1 \in 1 .. Len(s) - 1
                  /\ s[Len(s)] = Add("retx", 32, "mcast")
  BY SMTT(30), RecopiesPlaces
<1>3. Len(<<>>) = 0
  OBVIOUS
<1>4. \A k, d : Holds(T, <<>>, Len(<<>>) + 1, k, d) => k \in DOMAIN T /\ T[k] = d
  BY <1>3 DEF Holds
<1>5. \A k : Lacks(T, <<>>, k) => k \notin DOMAIN T
  BY <1>3 DEF Lacks
<1>6. c > 1 => /\ GroupKey \in DOMAIN T
               /\ \A k \in 0 .. c - 1 : NodeKey(k) \in DOMAIN T
  BY <1>4 DEF Copied
<1>7. /\ c <= 1 => GroupKey \notin DOMAIN T
      /\ \A k \in Nat : c <= 1 \/ k >= c => NodeKey(k) \notin DOMAIN T
  BY <1>5 DEF Copied
<1>8. Deletes(s[1], RetxKey)
  BY <1>2 DEF Deletes, Clear, RetxKey
<1>9. c > 1 => /\ \A k \in 0 .. c - 1 :
                      k + 2 \in 1 .. 1 + Removed(c) /\ Deletes(s[k + 2], NodeKey(k))
               /\ c + 2 \in 1 .. 1 + Removed(c) /\ Deletes(s[c + 2], GroupKey)
  <2>1. /\ \A k : Deletes(Delete("node", k), NodeKey(k))
        /\ Deletes(Delete("group", 1), GroupKey)
    BY RetxCallKeys DEF Deletes
  <2>2. QED BY <1>2, <2>1
\* What a call adds was not there, or has been deleted.
<1>10. ASSUME NEW j \in 1 .. Len(s), s[j].op = "add"
       PROVE  s[j].key \notin DOMAIN T \/ \E i \in 1 .. j - 1 : Deletes(s[i], s[j].key)
  <2>1. RetxCall(c, n, j, s[j]) /\ j \in 2 + Removed(c) .. Len(s)
    BY <1>1, <1>10 DEF Recopies
  <2>2. 1 .. 1 + Removed(c) \subseteq 1 .. j - 1 /\ 1 \in 1 .. j - 1
    BY <2>1, <1>1
  <2>3. \/ s[j].key = RetxKey \/ s[j].key = GroupKey \/ \E k \in Nat : s[j].key = NodeKey(k)
    <3>1. \/ s[j].key = RetxKey \/ s[j].key = GroupKey
          \/ j \in 2 + Removed(c) .. 1 + Removed(c) + n /\ s[j].key = NodeKey(j - 2 - Removed(c))
      <4> DEFINE r == Removed(c)
                 a == s[j]
      <4>1. r \in Nat /\ j \in Nat /\ 2 + r <= j /\ (c > 1 => r = c + 1)
        BY <2>1, <1>1
      <4>2. \/ n = 1 /\ a = Add("retx", 32, "ucast")
            \/ n > 1 /\ j \in 2 + r .. 1 + r + n /\ a = Add("node", j - 2 - r, 32)
            \/ n > 1 /\ a = Add("group", 1, 0 .. n - 1)
            \/ n > 1 /\ a = Add("retx", 32, "mcast")
        BY <2>1, <4>1 DEF RetxCall
      <4> HIDE DEF r, a
      <4>3. \/ a.key = RetxKey \/ a.key = GroupKey
            \/ j \in 2 + r .. 1 + r + n /\ a.key = NodeKey(j - 2 - r)
        BY <4>2, RetxCallKeys
      <4>4. QED BY <4>3 DEF r, a
    <3>2. QED BY <3>1, <1>1
  <2>4. CASE s[j].key = RetxKey
    BY <2>4, <2>2, <1>8
  <2>5. CASE s[j].key = GroupKey
    BY <2>5, <2>2, <1>7, <1>9
  <2>6. ASSUME NEW k \in Nat, s[j].key = NodeKey(k)
        PROVE  s[j].key \notin DOMAIN T \/ \E i \in 1 .. j - 1 : Deletes(s[i], s[j].key)
    <3>1. CASE c <= 1 \/ k >= c
      BY <3>1, <2>6, <1>7
    <3>2. CASE c > 1 /\ k < c
      <4>1. k \in 0 .. c - 1
        BY <3>2
      <4>2. k + 2 \in 1 .. j - 1 /\ Deletes(s[k + 2], NodeKey(k))
        BY <4>1, <3>2, <2>2, <1>9
      <4>3. QED BY <4>2, <2>6
    <3>3. QED BY <3>1, <3>2
  <2>7. QED BY <2>3, <2>4, <2>5, <2>6
\* What a call deletes is there.
<1>11. ASSUME NEW j \in 1 .. Len(s), s[j].op = "delete"
       PROVE  s[j].key \in DOMAIN T /\ \A i \in 1 .. j - 1 : ~ Deletes(s[i], s[j].key)
  <2>1. c > 1 /\ j \in 2 .. c + 2
    BY <1>1, <1>11
  <2>2. \A k \in 2 .. c + 1 : s[k] = Delete("node", k - 2)
    <3>1. ASSUME NEW k \in 2 .. c + 1 PROVE s[k] = Delete("node", k - 2)
      <4>1. k - 2 \in 0 .. c - 1 /\ (k - 2) + 2 = k
        BY <2>1
      <4>2. QED BY <4>1, <2>1, <1>2
    <3>2. QED BY <3>1
  <2>3. s[c + 2] = Delete("group", 1) /\ s[1] = Clear("retx", 32)
    BY <2>1, <1>2
  <2>4. CASE j = c + 2
    <3>1. s[j].key = GroupKey
      BY <2>3, <2>4 DEF Delete, GroupKey
    <3>2. ASSUME NEW i \in 1 .. j - 1 PROVE s[i].key # GroupKey
      <4>1. i = 1 \/ i \in 2 .. c + 1
        BY <2>4
      <4>2. QED BY <4>1, <2>2, <2>3, RetxCallKeys, KeysDiffer
    <3>3. QED BY <3>1, <3>2, <2>1, <1>6 DEF Deletes
  <2>5. CASE j # c + 2
    <3>1. j \in 2 .. c + 1 /\ j - 2 \in 0 .. c - 1
      BY <2>1, <2>5
    <3>2. s[j].key = NodeKey(j - 2)
      BY <3>1, <2>2, RetxCallKeys
    <3>3. ASSUME NEW i \in 1 .. j - 1 PROVE s[i].key # NodeKey(j - 2)
      <4>1. i = 1 \/ (i \in 2 .. c + 1 /\ i - 2 # j - 2)
        BY <3>1
      <4>2. QED BY <4>1, <2>2, <2>3, RetxCallKeys, KeysDiffer
    <3>4. QED BY <3>1, <3>2, <3>3, <2>1, <1>6 DEF Deletes
  <2>6. QED BY <2>4, <2>5
<1>12. Accepted(T, s)
  BY <1>10, <1>11 DEF Accepted
\* The entry, group and nodes of n copies.
<1>13. ASSUME NEW k, NEW d, NEW i \in 1 .. Len(s), Adds(s[i], k), s[i].data = d
       PROVE  Holds(T, s, Len(s) + 1, k, d)
  <2>1. i \in 1 .. (Len(s) + 1) - 1
    BY <1>1
  <2>2. QED BY <2>1, <1>13 DEF Holds
<1>14. n = 1 => Holds(T, s, Len(s) + 1, RetxKey, "ucast")
  <2>1. n = 1 => Len(s) \in 1 .. Len(s) /\ Adds(s[Len(s)], RetxKey) /\ s[Len(s)].data = "ucast"
    BY <1>1, <1>2 DEF Add, Adds, RetxKey
  <2>2. QED BY <2>1, <1>13
<1>15. n > 1 => /\ Holds(T, s, Len(s) + 1, RetxKey, "mcast")
                /\ Holds(T, s, Len(s) + 1, GroupKey, 0 .. n - 1)
  <2>1. n > 1 => /\ Len(s) \in 1 .. Len(s) /\ Adds(s[Len(s)], RetxKey)
                 /\ s[Len(s)].data = "mcast"
                 /\ Len(s) - 1 \in 1 .. Len(s) /\ Adds(s[Len(s) - 1], GroupKey)
                 /\ s[Len(s) - 1].data = 0 .. n - 1
    BY <1>1, <1>2 DEF Add, Adds, RetxKey, GroupKey
  <2>2. QED BY <2>1, <1>13
<1>16. ASSUME n > 1, NEW k \in 0 .. n - 1 PROVE Holds(T, s, Len(s) + 1, NodeKey(k), 32)
  <2> DEFINE a == 2 + Removed(c) + k
  <2>1. a \in 1 .. Len(s) - 2 /\ s[a] = Add("node", k, 32)
    BY <1>2, <1>16
  <2> HIDE DEF a
  <2>2. a \in 1 .. Len(s) /\ Adds(s[a], NodeKey(k)) /\ s[a].data = 32
    BY <2>1, <1>1 DEF Add, Adds, NodeKey
  <2>3. QED BY <2>2, <1>13
<1>17. n = 0 => Lacks(T, s, RetxKey)
  <2>1. n = 0 => \A i \in 1 .. Len(s) : ~ Adds(s[i], RetxKey)
    <3>1. ASSUME n = 0, NEW i \in 1 .. Len(s), Adds(s[i], RetxKey) PROVE FALSE
      <4>1. i \in 2 + Removed(c) .. Len(s)
        BY <1>1, <3>1 DEF Adds
      <4>2. QED BY <4>1, <3>1, <1>1
    <3>2. QED BY <3>1
  <2>2. QED BY <2>1, <1>2, <1>8 DEF Lacks
<1>18. n <= 1 => Lacks(T, s, GroupKey)
  <2>1. n <= 1 => \A i \in 1 .. Len(s) : ~ Adds(s[i], GroupKey)
    BY <1>1
  <2>2. GroupKey \notin DOMAIN T \/ \E i \in 1 .. Len(s) : Deletes(s[i], GroupKey)
    <3>1. CASE c <= 1
      BY <3>1, <1>7
    <3>2. CASE c > 1
      <4>1. c + 2 \in 1 .. Len(s)
        BY <3>2, <1>1, <1>9
      <4>2. QED BY <4>1, <3>2, <1>9
    <3>3. QED BY <3>1, <3>2
  <2>3. QED BY <2>1, <2>2 DEF Lacks
<1>19. ASSUME NEW k \in Nat, n <= 1 \/ k >= n PROVE Lacks(T, s, NodeKey(k))
  <2>1. \A i \in 1 .. Len(s) : ~ Adds(s[i], NodeKey(k))
    BY <1>1, <1>19
  <2>2. NodeKey(k) \notin DOMAIN T \/ \E i \in 1 .. Len(s) : Deletes(s[i], NodeKey(k))
    <3>1. CASE c <= 1 \/ k >= c
      BY <3>1, <1>7
    <3>2. CASE c > 1 /\ k < c
      <4>1. k \in 0 .. c - 1
        BY <3>2
      <4>2. k + 2 \in 1 .. Len(s) /\ Deletes(s[k + 2], NodeKey(k))
        BY <4>1, <3>2, <1>1, <1>9
      <4>3. QED BY <4>2
    <3>3. QED BY <3>1, <3>2
  <2>3. QED BY <2>1, <2>2 DEF Lacks
<1>20. Copied(T, s, n)
  BY <1>14, <1>15, <1>16, <1>17, <1>18, <1>19 DEF Copied
<1>21. QED BY <1>12, <1>20

\* A set 0 .. n - 1 has n elements.
LEMMA CountFrom0 ==
    ASSUME NEW m \in Nat
    PROVE  Cardinality(0 .. m - 1) = m
<1>1. Cardinality(0 .. m - 1) = IF 0 > m - 1 THEN 0 ELSE (m - 1) - 0 + 1
  BY FS_Interval
<1>2. QED BY <1>1

\* What the tables say about the number of copies.
LEMMA CopiesCounted ==
    ASSUME RetxInv, todo["sender"] = <<>>
    PROVE  /\ RetxCopies \in Nat
           /\ \A c \in Nat : Copied(entries["sender"], <<>>, c) => c = RetxCopies
<1> DEFINE T == entries["sender"]
<1>1. RetxData(T, <<>>) /\ RetxOrder(T, <<>>)
  BY DEF RetxInv
<1>2. RetxCopies = IF RetxKey \notin DOMAIN T THEN 0
                   ELSE IF T[RetxKey] = "ucast" THEN 1
                   ELSE Cardinality(T[GroupKey])
  BY DEF RetxCopies, Has, Get, RetxKey, GroupKey
<1>3. Len(<<>>) = 0
  OBVIOUS
<1>4. \A k, d : Holds(T, <<>>, Len(<<>>) + 1, k, d) => k \in DOMAIN T /\ T[k] = d
  BY <1>3 DEF Holds
<1>5. \A k : Lacks(T, <<>>, k) => k \notin DOMAIN T
  BY <1>3 DEF Lacks
<1> HIDE DEF T
<1>6. RetxCopies \in Nat
  <2>1. CASE RetxKey \in DOMAIN T /\ T[RetxKey] # "ucast"
    <3>1. T[RetxKey] = "mcast"
      BY <2>1, <1>1 DEF RetxData
    <3>2. GroupWhole(T)
      BY <3>1, <2>1, <1>1 DEF RetxOrder, Multicast
    <3>3. PICK m \in Nat : T[GroupKey] = 0 .. m - 1
      BY <3>2 DEF GroupWhole
    <3>4. RetxCopies = m
      BY <3>3, <2>1, <1>2, CountFrom0
    <3>5. QED BY <3>4
  <2>2. QED BY <2>1, <1>2
<1>7. ASSUME NEW c \in Nat, Copied(T, <<>>, c) PROVE c = RetxCopies
  <2>1. CASE c = 0
    BY <2>1, <1>7, <1>5, <1>2 DEF Copied
  <2>2. CASE c = 1
    BY <2>2, <1>7, <1>4, <1>2 DEF Copied
  <2>3. CASE c > 1
    <3>1. RetxKey \in DOMAIN T /\ T[RetxKey] = "mcast" /\ T[GroupKey] = 0 .. c - 1
      BY <2>3, <1>7, <1>4 DEF Copied
    <3>2. QED BY <3>1, <1>2, CountFrom0
  <2>4. QED BY <2>1, <2>2, <2>3
<1>8. QED BY <1>6, <1>7 DEF T

-----------------------------------------------------------------------------
\* A shell that has nothing to do any more.
LEMMA Idle ==
    ASSUME NEW s, s = <<>>
    PROVE  /\ Script(s) /\ Settles(s)
           /\ \A T : Accepted(T, s)
           /\ \A sw, speed : Speeds(sw, s, speed)
           /\ \A sw, T, speed, early : PortsStay(sw, T, s, speed, early)
           /\ \A sw, T : SeedReady(sw, T, s)
<1>1. Script(s) /\ Len(s) = 0
  BY NoCalls
<1>2. \A i \in 1 .. Len(s) : FALSE
  BY <1>1
<1>3. Settles(s) /\ \A T : Accepted(T, s)
  BY <1>2 DEF Settles, Accepted
<1>4. \A sw, speed : Speeds(sw, s, speed)
  BY <1>2 DEF Speeds
<1>5. \A sw, T, speed, early : PortsStay(sw, T, s, speed, early)
  BY <1>2 DEF PortsStay
<1>6. \A sw, T : SeedReady(sw, T, s)
  BY <1>2 DEF SeedReady
<1>7. QED BY <1>1, <1>3, <1>4, <1>5, <1>6

\* An idle shell leaves groups and entries in order.
LEMMA IdleRetx ==
    ASSUME NEW T, NEW s
    PROVE  /\ RetxData(T, s) => RetxData(T, <<>>)
           /\ RetxOrder(T, s) => RetxOrder(T, <<>>)
<1>1. \A i \in 1 .. Len(<<>>) : FALSE
  OBVIOUS
<1>2. QED BY <1>1 DEF RetxData, RetxOrder

\* A script that leaves the entry, group and nodes of the copies alone.
LEMMA RetxUntouched ==
    ASSUME NEW T, NEW s, RetxData(T, <<>>), RetxOrder(T, <<>>),
           \A i \in 1 .. Len(s) : \E p : s[i].key = PortKey(p)
    PROVE  RetxData(T, s) /\ RetxOrder(T, s)
<1>1. \A i \in 1 .. Len(s) : /\ ~ Adds(s[i], GroupKey) /\ ~ Adds(s[i], RetxKey)
                             /\ ~ Dismantles(s[i])
  BY KeysDiffer DEF Adds, Deletes, Dismantles
<1>2. QED BY <1>1 DEF RetxData, RetxOrder

-----------------------------------------------------------------------------
\* Another speed.

\* The ports whose speed is set are different ports.
LEMMA SpeedPortsAre ==
    ASSUME NEW sw \in Switches
    PROVE  \E n \in {2, 6} :
              /\ Script(SpeedPorts(sw)) /\ Len(SpeedPorts(sw)) = n
              /\ \A i, j \in 1 .. n : SpeedPorts(sw)[i] = SpeedPorts(sw)[j] => i = j
<1> DEFINE p == SpeedPorts(sw)
<1>1. CASE sw \in {"sender", "receiver"}
  <2>1. p = [i \in 1 .. 2 |-> p[i]] /\ \A i, j \in 1 .. 2 : p[i] = p[j] => i = j
    BY <1>1 DEF SpeedPorts
  <2> HIDE DEF p
  <2>2. Script(p) /\ Len(p) = 2
    BY <2>1, IndexedIsScript
  <2>3. QED BY <2>1, <2>2 DEF p
<1>2. CASE sw = "topo"
  <2>1. p = [i \in 1 .. 6 |-> p[i]] /\ \A i, j \in 1 .. 6 : p[i] = p[j] => i = j
    BY <1>2 DEF SpeedPorts
  <2> HIDE DEF p
  <2>2. Script(p) /\ Len(p) = 6
    BY <2>1, IndexedIsScript
  <2>3. QED BY <2>1, <2>2 DEF p
<1>3. QED BY <1>1, <1>2 DEF Switches

\* change_link_speeds deletes ports and adds them with the new speed.
LEMMA PortsModified ==
    ASSUME NEW sw \in Switches, NEW speed, NEW s, s = ModifyPorts(SpeedPorts(sw), speed)
    PROVE  /\ Script(s) /\ Settles(s)
           /\ \A i \in 1 .. Len(s) :
                /\ s[i].op \in {"add", "delete"}
                /\ \E p : s[i].key = PortKey(p)
                /\ s[i].op = "add" => s[i].data = speed
<1> DEFINE q == SpeedPorts(sw)
<1>1. PICK n \in {2, 6} : /\ Script(q) /\ Len(q) = n
                          /\ \A i, j \in 1 .. n : q[i] = q[j] => i = j
  BY SpeedPortsAre
<1> HIDE DEF q
<1>2. s = [i \in 1 .. 2 * n |-> IF i % 2 = 1 THEN Delete("port", q[(i + 1) \div 2])
                                ELSE Add("port", q[i \div 2], speed)]
  BY <1>1 DEF ModifyPorts, q
<1>3. 2 * n \in Nat /\ s = [i \in 1 .. 2 * n |-> s[i]]
  BY <1>2
<1>4. Script(s) /\ Len(s) = 2 * n
  BY <1>3, IndexedIsScript
<1>5. ASSUME NEW i \in 1 .. Len(s)
      PROVE  \/ i % 2 = 1 /\ s[i] = Delete("port", q[(i + 1) \div 2])
             \/ i % 2 = 0 /\ s[i] = Add("port", q[i \div 2], speed)
  <2>1. i % 2 \in {0, 1}
    BY <1>4
  <2>2. QED BY <2>1, <1>2, <1>4
<1>6. /\ \A p : /\ Delete("port", p).op = "delete" /\ Delete("port", p).key = PortKey(p)
                /\ Add("port", p, speed).op = "add" /\ Add("port", p, speed).key = PortKey(p)
                /\ Add("port", p, speed).data = speed
  BY DEF Delete, Add, PortKey
<1>7. \A o, p : PortKey(o) = PortKey(p) => o = p
  BY DEF PortKey
<1>8. ASSUME NEW i \in 1 .. Len(s), NEW j \in 1 .. Len(s), i < j, s[i].op = "add"
      PROVE  s[j].key # s[i].key
  <2>1. i % 2 = 0 /\ s[i].key = PortKey(q[i \div 2])
    BY <1>5, <1>6, <1>8
  <2>2. CASE j % 2 = 0
    <3>1. s[j].key = PortKey(q[j \div 2])
      BY <2>2, <1>5, <1>6
    <3>2. i \div 2 \in 1 .. n /\ j \div 2 \in 1 .. n /\ i \div 2 # j \div 2
      BY <2>1, <2>2, <1>4, <1>8
    <3>3. QED BY <3>1, <3>2, <2>1, <1>1, <1>7
  <2>3. CASE j % 2 = 1
    <3>1. s[j].key = PortKey(q[(j + 1) \div 2])
      BY <2>3, <1>5, <1>6
    <3>2. i \div 2 \in 1 .. n /\ (j + 1) \div 2 \in 1 .. n /\ i \div 2 # (j + 1) \div 2
      BY <2>1, <2>3, <1>4, <1>8
    <3>3. QED BY <3>1, <3>2, <2>1, <1>1, <1>7
  <2>4. QED BY <2>2, <2>3, <1>5
<1>9. ASSUME NEW i \in 1 .. Len(s)
      PROVE  /\ s[i].op \in {"add", "delete"}
             /\ \E p : s[i].key = PortKey(p)
             /\ s[i].op = "add" => s[i].data = speed
  BY <1>5, <1>6
<1>10. Settles(s)
  BY <1>8, <1>9 DEF Settles, Ops
<1>11. QED BY <1>4, <1>9, <1>10

\* The invariant's parts of one switch, before the first call of its set-up.
SetsUp(sw, s, speed) ==
    /\ Script(s) /\ Settles(s) /\ Accepted(<<>>, s)
    /\ Speeds(sw, s, speed)
    /\ SeedReady(sw, <<>>, s)
    /\ sw # "topo" => \E i \in 1 .. Len(s) : s[i].op = "inject"
    /\ \A i \in 1 .. Len(s) : s[i].op \in {"delete", "clear"} => s[i].key = RetxKey

\* The set-up of the sender satisfies the invariant's parts.
LEMMA SenderSetsUp ==
    ASSUME NEW speed, NEW s, s = Setup("sender", speed)
    PROVE  /\ SetsUp("sender", s, speed)
           /\ RetxData(<<>>, s) /\ RetxOrder(<<>>, s) /\ Copied(<<>>, s, 2)
<1>1. s = SenderCalls(speed)
  BY SenderListed DEF Setup, SenderSetup10g
<1>2. Script(s) /\ Len(s) = 20 /\ Fresh(s)
  BY <1>1, SenderFresh
<1>3. Settles(s) /\ Accepted(<<>>, s)
  BY <1>2, FreshIsAccepted
<1>4. Speeds("sender", s, speed)
  BY <1>1, SenderCallsSpeeds
<1>5. SeedReady("sender", <<>>, s) /\ 15 \in 1 .. Len(s) /\ s[15].op = "inject"
  BY <1>1, SenderCallsSeed
<1>6. \A i \in 1 .. 20 : s[i].op \in {"delete", "clear"} => s[i].key = RetxKey
  BY <1>1 DEF SenderCalls, Add, Clear, Inject, RetxKey
<1>7. RetxData(<<>>, s) /\ RetxOrder(<<>>, s) /\ Copied(<<>>, s, 2)
  BY <1>1, SenderCallsRetx
<1>8. QED BY <1>2, <1>3, <1>4, <1>5, <1>6, <1>7 DEF SetsUp

\* The set-up of the receiver satisfies the invariant's parts.
LEMMA ReceiverSetsUp ==
    ASSUME NEW speed, NEW s, s = Setup("receiver", speed)
    PROVE  SetsUp("receiver", s, speed)
<1>1. s = ReceiverCalls(speed)
  BY ReceiverListed DEF Setup, ReceiverSetup10g
<1>2. Script(s) /\ Len(s) = 22 /\ Fresh(s)
  BY <1>1, ReceiverFresh
<1>3. Settles(s) /\ Accepted(<<>>, s)
  BY <1>2, FreshIsAccepted
<1>4. Speeds("receiver", s, speed)
  BY <1>1, ReceiverCallsSpeeds
<1>5. SeedReady("receiver", <<>>, s) /\ 22 \in 1 .. Len(s) /\ s[22].op = "inject"
  BY <1>1, ReceiverCallsSeed
<1>6. \A i \in 1 .. 22 : s[i].op \notin {"delete", "clear"}
  BY <1>1 DEF ReceiverCalls, Add, Inject
<1>7. QED BY <1>2, <1>3, <1>4, <1>5, <1>6 DEF SetsUp

\* The set-up of the topology switch satisfies the invariant's parts.
LEMMA TopoSetsUp ==
    ASSUME NEW speed, NEW s, s = Setup("topo", speed)
    PROVE  SetsUp("topo", s, speed)
<1>1. s = TopoCalls(speed)
  BY TopoListed DEF Setup, TopoSetup10g
<1>2. Script(s) /\ Len(s) = 21 /\ Fresh(s)
  BY <1>1, TopoFresh
<1>3. Settles(s) /\ Accepted(<<>>, s)
  BY <1>2, FreshIsAccepted
<1>4. Speeds("topo", s, speed)
  BY <1>1, TopoCallsSpeeds
<1>5. SeedReady("topo", <<>>, s)
  BY <1>1, TopoCallsSeed
<1>6. \A i \in 1 .. 21 : s[i].op \notin {"delete", "clear"}
  BY <1>1 DEF TopoCalls, Add
<1>7. QED BY <1>2, <1>3, <1>4, <1>5, <1>6 DEF SetsUp

-----------------------------------------------------------------------------
\* The cables.

\* The other end of a cable, when there is only one.
LEMMA PeerIs ==
    ASSUME NEW a, NEW b, a # b, {a, b} \in Cables,
           \A c : {a, c} \in Cables => c = b
    PROVE  a \in DOMAIN PeerOf /\ PeerOf[a] = b
<1>1. a \in UNION Cables /\ b \in UNION Cables
  OBVIOUS
<1>2. PeerOf[a] = CHOOSE peer \in UNION Cables : peer # a /\ {a, peer} \in Cables
  BY <1>1 DEF PeerOf
<1>3. \A peer \in UNION Cables : peer # a /\ {a, peer} \in Cables <=> peer = b
  BY <1>1
<1>4. (CHOOSE peer \in UNION Cables : peer # a /\ {a, peer} \in Cables) = b
  BY <1>1, <1>3
<1>5. QED BY <1>1, <1>2, <1>4 DEF PeerOf

\* The other ends of all cables.
LEMMA PeersAre ==
    /\ DOMAIN PeerOf = {<<"sender", 32>>, <<"receiver", 36>>, <<"sender", 36>>, <<"topo", 36>>,
                        <<"receiver", 52>>, <<"topo", 56>>, <<"topo", 128>>, <<"topo", 136>>}
    /\ PeerOf[<<"sender", 32>>] = <<"receiver", 36>>
    /\ PeerOf[<<"receiver", 36>>] = <<"sender", 32>>
    /\ PeerOf[<<"sender", 36>>] = <<"topo", 36>>
    /\ PeerOf[<<"topo", 36>>] = <<"sender", 36>>
    /\ PeerOf[<<"receiver", 52>>] = <<"topo", 56>>
    /\ PeerOf[<<"topo", 56>>] = <<"receiver", 52>>
    /\ PeerOf[<<"topo", 128>>] = <<"topo", 136>>
    /\ PeerOf[<<"topo", 136>>] = <<"topo", 128>>
<1> DEFINE s1 == <<"sender", 32>>
           r1 == <<"receiver", 36>>
           s2 == <<"sender", 36>>
           t2 == <<"topo", 36>>
           r3 == <<"receiver", 52>>
           t3 == <<"topo", 56>>
           t4 == <<"topo", 128>>
           u4 == <<"topo", 136>>
<1>1. /\ s1 \notin {r1, s2, t2, r3, t3, t4, u4} /\ r1 \notin {s2, t2, r3, t3, t4, u4}
      /\ s2 \notin {t2, r3, t3, t4, u4} /\ t2 \notin {r3, t3, t4, u4}
      /\ r3 \notin {t3, t4, u4} /\ t3 \notin {t4, u4} /\ t4 # u4
  OBVIOUS
<1>2. Cables = {{s1, r1}, {s2, t2}, {r3, t3}, {t4, u4}}
  BY DEF Cables
<1>3. DOMAIN PeerOf = UNION Cables
  BY DEF PeerOf
<1> HIDE DEF s1, r1, s2, t2, r3, t3, t4, u4
<1>4. /\ \A c : {s1, c} \in Cables => c = r1
      /\ \A c : {r1, c} \in Cables => c = s1
      /\ \A c : {s2, c} \in Cables => c = t2
      /\ \A c : {t2, c} \in Cables => c = s2
  <2>1. \A c : {s1, c} \in Cables => c = r1
    BY <1>1, <1>2
  <2>2. \A c : {r1, c} \in Cables => c = s1
    BY <1>1, <1>2
  <2>3. \A c : {s2, c} \in Cables => c = t2
    BY <1>1, <1>2
  <2>4. \A c : {t2, c} \in Cables => c = s2
    BY <1>1, <1>2
  <2>5. QED BY <2>1, <2>2, <2>3, <2>4
<1>5. /\ \A c : {r3, c} \in Cables => c = t3
      /\ \A c : {t3, c} \in Cables => c = r3
      /\ \A c : {t4, c} \in Cables => c = u4
      /\ \A c : {u4, c} \in Cables => c = t4
  <2>1. \A c : {r3, c} \in Cables => c = t3
    BY <1>1, <1>2
  <2>2. \A c : {t3, c} \in Cables => c = r3
    BY <1>1, <1>2
  <2>3. \A c : {t4, c} \in Cables => c = u4
    BY <1>1, <1>2
  <2>4. \A c : {u4, c} \in Cables => c = t4
    BY <1>1, <1>2
  <2>5. QED BY <2>1, <2>2, <2>3, <2>4
<1>6. /\ {s1, r1} \in Cables /\ {r1, s1} \in Cables /\ {s2, t2} \in Cables /\ {t2, s2} \in Cables
      /\ {r3, t3} \in Cables /\ {t3, r3} \in Cables /\ {t4, u4} \in Cables /\ {u4, t4} \in Cables
  <2>1. {r1, s1} = {s1, r1} /\ {t2, s2} = {s2, t2} /\ {t3, r3} = {r3, t3} /\ {u4, t4} = {t4, u4}
    OBVIOUS
  <2>2. QED BY <1>2, <2>1
<1>7. PeerOf[s1] = r1 /\ PeerOf[r1] = s1 /\ PeerOf[s2] = t2 /\ PeerOf[t2] = s2
  BY <1>1, <1>4, <1>6, PeerIs
<1>8. PeerOf[r3] = t3 /\ PeerOf[t3] = r3 /\ PeerOf[t4] = u4 /\ PeerOf[u4] = t4
  BY <1>1, <1>5, <1>6, PeerIs
<1>9. UNION Cables = {s1, r1, s2, t2, r3, t3, t4, u4}
  BY <1>2
<1>10. QED BY <1>3, <1>7, <1>8, <1>9 DEF s1, r1, s2, t2, r3, t3, t4, u4

\* The ports of the hosts.
LEMMA HostsAre ==
    /\ DOMAIN HostAt = {<<"topo", 160>>, <<"topo", 168>>}
    /\ HostAt[<<"topo", 160>>] = <<"host", "lumos">>
    /\ HostAt[<<"topo", 168>>] = <<"host", "caelus">>
BY DEF HostAt

\* The ends of the links are ports that are checked; an end of a cable has
\* its peer as the only other end.
LEMMA EndsAreChecked ==
    ASSUME NEW link \in CheckedLinks, NEW end \in link
    PROVE  /\ end[1] \in Switches /\ end[2] \in CheckedPorts(end[1])
           /\ end = <<end[1], end[2]>>
           /\ end \in DOMAIN PeerOf => PeerOf[end] \in link
           /\ \A e \in link : e = end \/ (end \in DOMAIN PeerOf /\ e = PeerOf[end])
<1>1. CASE link \in Cables
  <2>1. \/ link = {<<"sender", 32>>, <<"receiver", 36>>}
        \/ link = {<<"sender", 36>>, <<"topo", 36>>}
        \/ link = {<<"receiver", 52>>, <<"topo", 56>>}
        \/ link = {<<"topo", 128>>, <<"topo", 136>>}
    BY <1>1 DEF Cables
  <2>2. CASE link = {<<"sender", 32>>, <<"receiver", 36>>}
    BY <2>2, PeersAre DEF Switches, CheckedPorts
  <2>3. CASE link = {<<"sender", 36>>, <<"topo", 36>>}
    BY <2>3, PeersAre DEF Switches, CheckedPorts
  <2>4. CASE link = {<<"receiver", 52>>, <<"topo", 56>>}
    BY <2>4, PeersAre DEF Switches, CheckedPorts
  <2>5. CASE link = {<<"topo", 128>>, <<"topo", 136>>}
    BY <2>5, PeersAre DEF Switches, CheckedPorts
  <2>6. QED BY <2>1, <2>2, <2>3, <2>4, <2>5
<1>2. CASE link \notin Cables
  <2>1. link = {<<"topo", 160>>} \/ link = {<<"topo", 168>>}
    BY <1>2, HostsAre DEF CheckedLinks
  <2>2. end \notin DOMAIN PeerOf
    BY <2>1, PeersAre
  <2>3. QED BY <2>1, <2>2 DEF Switches, CheckedPorts
<1>3. QED BY <1>1, <1>2

-----------------------------------------------------------------------------
\* The invariant holds before the first call.
LEMMA TestbedInvInit ==
    TestbedInit => TestbedInv
<1> SUFFICES ASSUME TestbedInit PROVE TestbedInv
  OBVIOUS
<1>1. PICK speed \in SetupSpeeds :
        /\ todo = [sw \in Switches |-> Setup(sw, speed)]
        /\ entries = [sw \in Switches |-> <<>>]
        /\ seed = [sw \in {"sender", "receiver"} |-> "none"]
        /\ operator = [speed |-> speed, asked |-> 0, answers |-> NoAnswers,
                       allUp |-> FALSE, early |-> {}]
        /\ failed = {} /\ disturbed = {}
  BY DEF TestbedInit
<1>2. ASSUME NEW sw \in Switches PROVE SetsUp(sw, todo[sw], speed)
  <2>1. todo[sw] = Setup(sw, speed)
    BY <1>1
  <2>2. QED BY <2>1, SenderSetsUp, ReceiverSetsUp, TopoSetsUp DEF Switches
<1>3. \A sw \in Switches : entries[sw] = <<>>
  BY <1>1
<1>4. \A k : k \notin DOMAIN <<>>
  OBVIOUS
<1>5. /\ operator.speed = speed /\ operator.asked = 0 /\ operator.answers = NoAnswers
      /\ operator.allUp = FALSE
  BY <1>1
<1>6. ShellsInv
  <2>1. /\ todo = [sw \in Switches |-> todo[sw]]
        /\ entries = [sw \in Switches |-> entries[sw]]
        /\ seed = [sw \in {"sender", "receiver"} |-> seed[sw]]
    BY <1>1
  <2>2. \A sw \in Switches : Script(todo[sw]) /\ Settles(todo[sw])
    BY <1>2 DEF SetsUp
  <2>3. QED BY <2>1, <2>2 DEF ShellsInv
<1>7. SpeedInv
  BY <1>2, <1>3, <1>4, <1>5 DEF SpeedInv, SetsUp, PortsStay
<1>8. AskedInv
  <2>1. operator = [speed |-> operator.speed, asked |-> operator.asked,
                   answers |-> operator.answers, allUp |-> operator.allUp,
                   early |-> operator.early]
    BY <1>1
  <2>2. operator.asked \in 0 .. 3
    BY <1>5
  <2>3. /\ operator.answers = [sw \in Switches |-> operator.answers[sw]]
        /\ \A sw \in Switches : operator.answers[sw] = "nothing"
    BY <1>5 DEF NoAnswers
  <2>4. QED BY <2>1, <2>2, <2>3, <1>5 DEF AskedInv
<1>9. RetxData(entries["sender"], todo["sender"]) /\ RetxOrder(entries["sender"], todo["sender"])
      /\ Copied(entries["sender"], todo["sender"], 2)
  <2>1. "sender" \in Switches
    BY DEF Switches
  <2>2. todo["sender"] = Setup("sender", speed) /\ entries["sender"] = <<>>
    BY <2>1, <1>1
  <2>3. QED BY <2>2, SenderSetsUp
<1>10. UndisturbedInv
  <2>1. \A sw \in Switches : Accepted(entries[sw], todo[sw])
    BY <1>2, <1>3 DEF SetsUp
  <2>2. 2 \in Nat
    OBVIOUS
  <2>3. QED BY <2>1, <2>2, <1>1, <1>9 DEF UndisturbedInv
<1>11. SeedInv
  <2>1. \A sw \in Switches : SeedReady(sw, entries[sw], todo[sw])
    BY <1>2, <1>3 DEF SetsUp
  <2>2. ASSUME NEW sw \in {"sender", "receiver"} PROVE SeedComes(sw)
    <3>1. sw \in Switches /\ sw # "topo"
      BY DEF Switches
    <3>2. RetxKey \notin SeedPorts(sw)
      BY DEF RetxKey, SeedPorts
    <3>3. QED BY <3>1, <3>2, <1>2 DEF SetsUp, SeedComes
  <2>3. QED BY <2>1, <2>2 DEF SeedInv
<1>12. QED BY <1>6, <1>7, <1>8, <1>9, <1>10, <1>11 DEF TestbedInv, RetxInv

\* The shells of all switches but sw, and what they have made, stay.
OthersStay(sw) ==
    \A x \in Switches \ {sw} :
        todo'[x] = todo[x] /\ entries'[x] = entries[x]

\* The switches that are asked.
LEMMA Answered ==
    \A i \in 1 .. 3 : CheckOrder[i] \in Switches
BY DEF CheckOrder, Switches

\* A shell stops before the end of its script or command.
LEMMA Abandoned ==
    ASSUME TestbedInv, NEW sw \in Switches,
           todo' = [todo EXCEPT ![sw] = <<>>],
           UNCHANGED <<entries, seed, operator>>,
           sw \in disturbed', disturbed \subseteq disturbed', failed' \subseteq disturbed'
    PROVE  TestbedInv'
<1>1. ShellsInv /\ SpeedInv /\ AskedInv /\ RetxInv /\ UndisturbedInv /\ SeedInv
  BY DEF TestbedInv
<1>2. /\ todo'[sw] = <<>> /\ entries' = entries /\ operator' = operator /\ seed' = seed
      /\ \A x \in Switches \ {sw} : todo'[x] = todo[x]
      /\ todo' = [x \in Switches |-> todo'[x]]
  BY <1>1 DEF ShellsInv
<1>3. ShellsInv'
  <2>1. \A x \in Switches : Script(todo'[x]) /\ Settles(todo'[x])
    BY <1>1, <1>2, Idle DEF ShellsInv
  <2>2. QED BY <2>1, <1>1, <1>2 DEF ShellsInv
<1>4. SpeedInv'
  <2>1. ASSUME NEW x \in Switches
        PROVE  /\ Speeds(x, todo'[x], operator.speed)
               /\ PortsStay(x, entries[x], todo'[x], operator.speed, operator.early)
    <3>1. CASE x = sw
      BY <3>1, <1>2, Idle
    <3>2. CASE x # sw
      BY <3>2, <1>1, <1>2 DEF SpeedInv
    <3>3. QED BY <3>1, <3>2
  <2>2. QED BY <2>1, <1>2 DEF SpeedInv
<1>5. AskedInv'
  BY <1>1, <1>2 DEF AskedInv, LinksDone, EndDone
<1>6. RetxInv'
  <2>1. CASE sw = "sender"
    BY <2>1, <1>1, <1>2, IdleRetx DEF RetxInv
  <2>2. CASE sw # "sender"
    BY <2>2, <1>1, <1>2 DEF RetxInv, Switches
  <2>3. QED BY <2>1, <2>2
<1>7. UndisturbedInv'
  <2>1. \A x \in Switches \ disturbed' : x # sw /\ x \notin disturbed
    OBVIOUS
  <2>2. \A x \in Switches \ disturbed' : Accepted(entries'[x], todo'[x])
    BY <2>1, <1>1, <1>2 DEF UndisturbedInv
  <2>3. "sender" \notin disturbed' => \E c \in Nat : Copied(entries'["sender"], todo'["sender"], c)
    BY <2>1, <1>1, <1>2 DEF UndisturbedInv, Switches
  <2>4. QED BY <2>2, <2>3 DEF UndisturbedInv
<1>8. SeedInv'
  <2>1. \A x \in Switches : SeedReady(x, entries'[x], todo'[x])
    BY <1>1, <1>2, Idle DEF SeedInv
  <2>2. ASSUME NEW x \in {"sender", "receiver"} \ disturbed' PROVE SeedComes(x)'
    <3>1. x \notin disturbed /\ x \in Switches \ {sw}
      BY DEF Switches
    <3>2. SeedComes(x) /\ todo'[x] = todo[x]
      BY <3>1, <1>1, <1>2 DEF SeedInv
    <3>3. QED BY <3>2, <1>2 DEF SeedComes
  <2>3. QED BY <2>1, <2>2 DEF SeedInv
<1>9. QED BY <1>3, <1>4, <1>5, <1>6, <1>7, <1>8 DEF TestbedInv

-----------------------------------------------------------------------------
(***************************************************************************)
(* A call that is not refused.                                             *)
(***************************************************************************)

\* What one call of a shell does, seen from the tables and the script.
LEMMA CallMade ==
    ASSUME TestbedInv, NEW sw \in Switches, Call(sw)
    PROVE  \/ /\ Refused(sw, todo[sw][1])
              /\ failed' = failed \cup {sw} /\ todo' = [todo EXCEPT ![sw] = <<>>]
              /\ UNCHANGED <<entries, seed>>
           \/ /\ Proceeds(entries[sw], todo[sw], entries'[sw], todo'[sw])
              /\ OthersStay(sw) /\ failed' = failed
              /\ todo' = [x \in Switches |-> todo'[x]]
              /\ entries' = [x \in Switches |-> entries'[x]]
              /\ seed' = [x \in {"sender", "receiver"} |-> seed'[x]]
              /\ \A x \in {"sender", "receiver"} \ {sw} : seed'[x] = seed[x]
              /\ \/ todo[sw][1].op # "inject" /\ seed' = seed
                 \/ /\ todo[sw][1].op \in {"delete", "clear"}
                    /\ todo[sw][1].key \in SeedPorts(sw)
                 \/ /\ todo[sw][1].op = "inject"
                    /\ seed' = [seed EXCEPT ![sw] = SeedSent(sw, todo[sw][1].key[2])]
<1> DEFINE s == todo[sw]
<1>1. ShellsInv
  BY DEF TestbedInv
<1>2. Script(s) /\ Settles(s) /\ s # <<>> /\ Head(s) = s[1]
  <2>1. Script(s) /\ Settles(s)
    BY <1>1 DEF ShellsInv
  <2>2. s # <<>>
    BY DEF Call
  <2> HIDE DEF s
  <2>3. Head(s) = s[1]
    BY <2>1, <2>2, ScriptTail
  <2>4. QED BY <2>1, <2>2, <2>3
<1>3. \/ /\ Refused(sw, s[1])
         /\ failed' = failed \cup {sw} /\ todo' = [todo EXCEPT ![sw] = <<>>]
         /\ UNCHANGED <<entries, seed>>
      \/ /\ ~ Refused(sw, s[1])
         /\ todo' = [todo EXCEPT ![sw] = Tail(s)]
         /\ entries' = [entries EXCEPT ![sw] = Applied(entries[sw], s[1])]
         /\ \/ s[1].op # "inject" /\ seed' = seed
            \/ /\ s[1].op \in {"delete", "clear"} /\ s[1].key \in SeedPorts(sw)
               /\ seed' = [seed EXCEPT ![sw] = "lost"]
            \/ /\ s[1].op = "inject"
               /\ seed' = [seed EXCEPT ![sw] = SeedSent(sw, s[1].key[2])]
         /\ failed' = failed
  BY <1>2 DEF Call
<1>4. ASSUME ~ Refused(sw, s[1]) PROVE ~ Declined(entries[sw], s[1])
  BY <1>4 DEF Refused, Declined
<1>5. CASE /\ ~ Refused(sw, s[1])
           /\ todo' = [todo EXCEPT ![sw] = Tail(s)]
           /\ entries' = [entries EXCEPT ![sw] = Applied(entries[sw], s[1])]
           /\ \/ s[1].op # "inject" /\ seed' = seed
              \/ /\ s[1].op \in {"delete", "clear"} /\ s[1].key \in SeedPorts(sw)
                 /\ seed' = [seed EXCEPT ![sw] = "lost"]
              \/ /\ s[1].op = "inject"
                 /\ seed' = [seed EXCEPT ![sw] = SeedSent(sw, s[1].key[2])]
           /\ failed' = failed
  <2> HIDE DEF s
  <2>1. todo'[sw] = Tail(s) /\ entries'[sw] = Applied(entries[sw], s[1])
    BY <1>5, <1>1 DEF ShellsInv
  <2>2. Proceeds(entries[sw], s, entries'[sw], todo'[sw])
    BY <2>1, <1>2, <1>4, <1>5 DEF Proceeds
  <2>3. OthersStay(sw)
    BY <1>5, <1>1 DEF OthersStay, ShellsInv
  <2>4. /\ todo' = [x \in Switches |-> todo'[x]]
        /\ entries' = [x \in Switches |-> entries'[x]]
    BY <1>5, <1>1 DEF ShellsInv
  <2>5. /\ seed' = [x \in {"sender", "receiver"} |-> seed'[x]]
        /\ \A x \in {"sender", "receiver"} \ {sw} : seed'[x] = seed[x]
    BY <1>5, <1>1 DEF ShellsInv
  <2>6. QED BY <2>2, <2>3, <2>4, <2>5, <1>5 DEF s
<1>6. QED BY <1>3, <1>5

\* Everything is in place when the seed is injected.
LEMMA SeedKeepsGoing ==
    ASSUME NEW sw \in Switches, NEW s, s = todo[sw], Len(s) \in Nat \ {0},
           SeedReady(sw, entries[sw], s), s[1].op = "inject"
    PROVE  sw # "topo" /\ SeedSent(sw, s[1].key[2]) = "circulates"
<1> DEFINE T == entries[sw]
<1>1. 1 \in 1 .. Len(s) /\ \A i \in 1 .. 1 - 1 : FALSE
  OBVIOUS
<1>2. \A k, d : Holds(T, s, 1, k, d) => k \in DOMAIN T /\ T[k] = d
  BY <1>1 DEF Holds
<1>3. /\ sw # "topo" /\ s[1].key = SeedKey(sw)
      /\ Holds(T, s, 1, SeedKey(sw), SeedPort(sw))
      /\ Holds(T, s, 1, <<SeedTable(sw), SeedPort(sw)>>, SeedSession(sw))
      /\ Holds(T, s, 1, <<"mirror", SeedSession(sw)>>, <<SeedPort(sw), 1>>)
  BY <1>1 DEF SeedReady
<1>4. /\ SeedKey(sw) \in DOMAIN T /\ T[SeedKey(sw)] = SeedPort(sw)
      /\ <<SeedTable(sw), SeedPort(sw)>> \in DOMAIN T
      /\ T[<<SeedTable(sw), SeedPort(sw)>>] = SeedSession(sw)
      /\ <<"mirror", SeedSession(sw)>> \in DOMAIN T
      /\ T[<<"mirror", SeedSession(sw)>>] = <<SeedPort(sw), 1>>
  BY <1>2, <1>3
<1>5. s[1].key[2] = SeedRoute(SeedPort(sw), 1)
  BY <1>3 DEF SeedKey
<1>6. MirroredInto(sw, SeedPort(sw), SeedTable(sw)) = SeedPort(sw)
  BY <1>4 DEF MirroredInto, Has, Get
<1>7. SeedPort(sw) # 0
  BY DEF SeedPort
<1>8. SeedSent(sw, SeedRoute(SeedPort(sw), 1)) = "circulates"
  BY <1>4, <1>6, <1>7 DEF SeedSent, SeedKey
<1>9. QED BY <1>3, <1>5, <1>8

\* Every call preserves the invariant.
LEMMA CallPreserves ==
    ASSUME TestbedInv, NEW sw \in Switches, Call(sw)
    PROVE  TestbedInv'
<1> DEFINE T == entries[sw]
           s == todo[sw]
<1>1. ShellsInv /\ SpeedInv /\ AskedInv /\ RetxInv /\ UndisturbedInv /\ SeedInv
  BY DEF TestbedInv
<1>2. operator' = operator /\ disturbed' = disturbed
  BY DEF Call
<1>3. Script(s) /\ Settles(s) /\ s # <<>>
  BY <1>1 DEF ShellsInv, Call
<1>4. CASE /\ Refused(sw, s[1])
           /\ failed' = failed \cup {sw} /\ todo' = [todo EXCEPT ![sw] = <<>>]
           /\ UNCHANGED <<entries, seed>>
  \* Only a disturbed shell makes calls that are refused.
  <2>1. sw \in disturbed
    <3>1. Declined(T, s[1])
      BY <1>4 DEF Refused, Declined
    <3>2. Accepted(T, s) => ~ Declined(T, s[1])
      <4> HIDE DEF s, T
      <4>1. QED BY <1>3, AcceptedTail
    <3>3. QED BY <3>1, <3>2, <1>1 DEF UndisturbedInv
  <2>2. failed' \subseteq disturbed'
    BY <2>1, <1>1, <1>2, <1>4 DEF UndisturbedInv
  <2>3. QED BY <2>1, <2>2, <1>2, <1>4, Abandoned
<1>5. CASE /\ Proceeds(T, s, entries'[sw], todo'[sw])
           /\ OthersStay(sw) /\ failed' = failed
           /\ todo' = [x \in Switches |-> todo'[x]]
           /\ entries' = [x \in Switches |-> entries'[x]]
           /\ seed' = [x \in {"sender", "receiver"} |-> seed'[x]]
           /\ \A x \in {"sender", "receiver"} \ {sw} : seed'[x] = seed[x]
           /\ \/ s[1].op # "inject" /\ seed' = seed
              \/ s[1].op \in {"delete", "clear"} /\ s[1].key \in SeedPorts(sw)
              \/ /\ s[1].op = "inject"
                 /\ seed' = [seed EXCEPT ![sw] = SeedSent(sw, s[1].key[2])]
  <2> DEFINE T2 == entries'[sw]
             R == todo'[sw]
  <2>0. /\ Proceeds(T, s, T2, R)
        /\ \A x \in Switches \ {sw} : todo'[x] = todo[x] /\ entries'[x] = entries[x]
    BY <1>5 DEF OthersStay
  <2> HIDE DEF T, s, T2, R
  <2>1. /\ Len(s) \in Nat \ {0} /\ Len(R) = Len(s) - 1 /\ Script(R) /\ Settles(R)
        /\ \A i \in 1 .. Len(R) : R[i] = s[i + 1] /\ i + 1 \in 2 .. Len(s)
        /\ s[1].op \in Ops /\ 1 \in 1 .. Len(s)
    BY <2>0, ProceedsFacts
  <2>2. ShellsInv'
    <3>1. \A x \in Switches : Script(todo'[x]) /\ Settles(todo'[x])
      BY <1>1, <2>0, <2>1 DEF ShellsInv, R
    <3>2. QED BY <3>1, <1>5 DEF ShellsInv
  <2>3. SpeedInv'
    <3>1. Speeds(sw, R, operator.speed)
      BY <1>1, <2>0, SpeedsStep DEF SpeedInv, s
    <3>2. PortsStay(sw, T2, R, operator.speed, operator.early)
      BY <1>1, <2>0, PortsStayStep DEF SpeedInv, s, T
    <3>3. QED BY <3>1, <3>2, <2>0, <1>1, <1>2 DEF SpeedInv, R, T2
  \* What a switch was asked about stays done.
  <2>4. AskedInv'
    <3>1. ASSUME NEW link \in CheckedLinks, NEW end \in link, EndDone(end)
          PROVE  EndDone(end)'
      <4>1. end[1] \in Switches /\ end[2] \in CheckedPorts(end[1]) /\ end = <<end[1], end[2]>>
        BY EndsAreChecked
      <4>2. CASE end[1] # sw
        BY <4>1, <4>2, <3>1, <2>0, <1>2 DEF EndDone
      <4>3. CASE end[1] = sw
        <5> DEFINE k == PortKey(end[2])
        <5>1. /\ k \in DOMAIN T => T[k] = operator.speed
              /\ k \notin DOMAIN T => end \in operator.early
          BY <4>3, <3>1 DEF EndDone, T
        <5>2. end \notin operator.early => \A i \in 1 .. Len(s) : ~ Deletes(s[i], k)
          BY <5>1, <4>1, <4>3, <1>1 DEF SpeedInv, PortsStay, T, s
        <5>3. Adds(s[1], k) => s[1].data = operator.speed
          BY <4>1, <4>3, <2>1, <1>1 DEF SpeedInv, Speeds, s
        <5>4. /\ k \in DOMAIN T2 => T2[k] = operator.speed
              /\ k \notin DOMAIN T2 => end \in operator.early
          <6> HIDE DEF k
          <6>1. CASE Adds(s[1], k)
            BY <6>1, <5>3, <2>0, ProceedsKey
          <6>2. CASE ~ Adds(s[1], k)
            BY <6>2, <5>1, <5>2, <2>0, <2>1, ProceedsKey
          <6>3. QED BY <6>1, <6>2
        <5>5. QED BY <5>4, <4>3, <1>2 DEF EndDone, T2
      <4>4. QED BY <4>2, <4>3
    <3>2. \A x \in Switches : LinksDone(x) => LinksDone(x)'
      BY <3>1 DEF LinksDone
    <3>3. QED BY <3>2, <1>1, <1>2 DEF AskedInv
  <2>5. RetxInv'
    <3>1. CASE sw = "sender"
      <4>1. RetxData(T, s) /\ RetxOrder(T, s)
        BY <3>1, <1>1 DEF RetxInv, T, s
      <4>2. RetxData(T2, R) /\ RetxOrder(T2, R)
        BY <4>1, <2>0, RetxDataStep, RetxOrderStep
      <4>3. QED BY <4>2, <3>1 DEF RetxInv, T2, R
    <3>2. CASE sw # "sender"
      BY <3>2, <2>0, <1>1 DEF RetxInv, Switches
    <3>3. QED BY <3>1, <3>2
  <2>6. UndisturbedInv'
    <3>1. ASSUME NEW x \in Switches \ disturbed PROVE Accepted(entries'[x], todo'[x])
      <4>1. Accepted(entries[x], todo[x])
        BY <1>1 DEF UndisturbedInv
      <4>2. CASE x = sw
        <5>1. Accepted(T, s)
          BY <4>1, <4>2 DEF T, s
        <5>2. T2 = Applied(T, s[1]) /\ R = Tail(s)
          BY <2>0 DEF Proceeds
        <5>3. Accepted(T2, R)
          BY <5>1, <5>2, <1>3, AcceptedTail DEF s
        <5>4. QED BY <5>3, <4>2 DEF T2, R
      <4>3. QED BY <4>1, <4>2, <2>0
    <3>2. ASSUME "sender" \notin disturbed
          PROVE  \E c \in Nat : Copied(entries'["sender"], todo'["sender"], c)
      <4>1. PICK c \in Nat : Copied(entries["sender"], todo["sender"], c)
        BY <3>2, <1>1 DEF UndisturbedInv
      <4>2. CASE sw = "sender"
        <5>1. Copied(T, s, c)
          BY <4>1, <4>2 DEF T, s
        <5>2. Copied(T2, R, c)
          BY <5>1, <2>0, CopiedStep
        <5>3. QED BY <5>2, <4>2 DEF T2, R
      <4>3. CASE sw # "sender"
        BY <4>3, <4>1, <2>0 DEF Switches
      <4>4. QED BY <4>2, <4>3
    <3>3. QED BY <3>1, <3>2, <1>1, <1>2, <1>5 DEF UndisturbedInv
  <2>7. SeedInv'
    <3>1. SeedReady(sw, T, s)
      BY <1>1 DEF SeedInv, T, s
    <3>2. SeedReady(sw, T2, R)
      BY <3>1, <2>0, SeedReadyStep
    <3>3. ASSUME NEW x \in {"sender", "receiver"} \ disturbed PROVE SeedComes(x)'
      <4>1. SeedComes(x) /\ x \in Switches
        BY <1>1 DEF SeedInv, Switches
      <4>2. CASE x # sw
        <5>1. seed'[x] = seed[x] /\ todo'[x] = todo[x]
          BY <4>1, <4>2, <2>0, <1>5
        <5>2. QED BY <5>1, <4>1 DEF SeedComes
      <4>3. CASE x = sw
        <5>1. /\ seed[sw] = "circulates" \/ \E i \in 1 .. Len(s) : s[i].op = "inject"
              /\ \A i \in 1 .. Len(s) : s[i].op \in {"delete", "clear"} =>
                    s[i].key \notin SeedPorts(sw)
          BY <4>1, <4>3 DEF SeedComes, s
        <5>2. \A i \in 1 .. Len(R) : R[i].op \in {"delete", "clear"} =>
                    R[i].key \notin SeedPorts(sw)
          BY <5>1, <2>1
        <5>3. seed'[sw] = "circulates" \/ \E i \in 1 .. Len(R) : R[i].op = "inject"
          <6>1. CASE s[1].op = "inject"
            <7>1. SeedSent(sw, s[1].key[2]) = "circulates" /\ sw # "topo"
              BY <6>1, <3>1, <2>1, SeedKeepsGoing DEF s, T
            <7>2. seed' = [seed EXCEPT ![sw] = SeedSent(sw, s[1].key[2])]
              BY <6>1, <1>5
            <7>3. sw \in DOMAIN seed
              BY <4>3, <1>1 DEF ShellsInv
            <7>4. QED BY <7>1, <7>2, <7>3
          <6>2. CASE s[1].op # "inject"
            <7>1. seed' = seed
              BY <6>2, <5>1, <2>1, <1>5
            <7>2. ASSUME NEW i \in 1 .. Len(s), s[i].op = "inject"
                  PROVE  \E j \in 1 .. Len(R) : R[j].op = "inject"
              <8>1. i - 1 \in 1 .. Len(R) /\ (i - 1) + 1 = i
                BY <7>2, <6>2, <2>1
              <8>2. R[i - 1] = s[i]
                BY <8>1, <2>1
              <8>3. QED BY <8>1, <8>2, <7>2
            <7>3. QED BY <7>1, <7>2, <5>1
          <6>3. QED BY <6>1, <6>2
        <5>4. QED BY <5>2, <5>3, <4>3 DEF SeedComes, R
      <4>4. QED BY <4>2, <4>3
    <3>4. ASSUME NEW x \in Switches PROVE SeedReady(x, entries'[x], todo'[x])
      <4>1. CASE x = sw
        BY <4>1, <3>2 DEF T2, R
      <4>2. CASE x # sw
        BY <4>2, <2>0, <1>1 DEF SeedInv
      <4>3. QED BY <4>1, <4>2
    <3>5. QED BY <3>3, <3>4, <1>2 DEF SeedInv
  <2>8. QED BY <2>2, <2>3, <2>4, <2>5, <2>6, <2>7 DEF TestbedInv
<1>6. QED BY <1>4, <1>5, CallMade

\* Frames only read the tables.
LEMMA TablesOnlyRead ==
    ASSUME TestbedInv, UNCHANGED <<todo, entries, seed, operator, failed, disturbed>>
    PROVE  TestbedInv'
<1>1. /\ ShellsInv' /\ SpeedInv' /\ RetxInv' /\ UndisturbedInv'
  BY DEF TestbedInv, ShellsInv, SpeedInv, RetxInv, UndisturbedInv
<1>2. AskedInv'
  BY DEF TestbedInv, AskedInv, LinksDone, EndDone
<1>3. SeedInv'
  BY DEF TestbedInv, SeedInv, SeedComes
<1>4. QED BY <1>1, <1>2, <1>3 DEF TestbedInv

\* So do the checks.
LEMMA ChecksOnlyRead ==
    ASSUME TestbedInv, UNCHANGED <<todo, entries, seed, failed, disturbed>>,
           operator'.speed = operator.speed, operator'.early = operator.early, AskedInv'
    PROVE  TestbedInv'
<1>1. ShellsInv' /\ SpeedInv' /\ RetxInv' /\ UndisturbedInv'
  BY DEF TestbedInv, ShellsInv, SpeedInv, RetxInv, UndisturbedInv
<1>2. SeedInv'
  BY DEF TestbedInv, SeedInv, SeedComes
<1>3. QED BY <1>1, <1>2 DEF TestbedInv

\* Asking one switch preserves the invariant.
LEMMA CheckLinksPreserves ==
    ASSUME TestbedInv, CheckLinks
    PROVE  TestbedInv'
<1>1. AskedInv
  BY DEF TestbedInv
<1>2. /\ operator = [speed |-> operator.speed, asked |-> operator.asked,
                     answers |-> operator.answers, allUp |-> operator.allUp,
                     early |-> operator.early]
      /\ operator.asked \in 0 .. 3 /\ operator.asked < 3 /\ ~ operator.allUp
      /\ operator.answers = [sw \in Switches |-> operator.answers[sw]]
  BY <1>1 DEF AskedInv, CheckLinks, CheckOrder
<1> DEFINE x == CheckOrder[operator.asked + 1]
<1>3. /\ operator'.speed = operator.speed /\ operator'.early = operator.early
      /\ operator'.asked = operator.asked + 1 /\ operator'.allUp = operator.allUp
      /\ operator'.answers = [operator.answers EXCEPT ![x] = Answer(x)]
      /\ operator' = [speed |-> operator'.speed, asked |-> operator'.asked,
                      answers |-> operator'.answers, allUp |-> operator'.allUp,
                      early |-> operator'.early]
  BY <1>2 DEF CheckLinks
<1>4. UNCHANGED <<todo, entries, seed, failed, disturbed>>
  BY DEF CheckLinks
<1>5. x \in Switches
  BY <1>2, Answered
<1> HIDE DEF x
\* The answer 1 means that the links of this switch have the speed.
<1>6. Answer(x) \in {"0", "1", "nothing"} /\ (Answer(x) = "1" => LinksDone(x))
  <2>1. Answer(x) \in {"0", "1", "nothing"}
    BY DEF Answer
  <2>2. ASSUME Answer(x) = "1", NEW link \in CheckedLinks, NEW end \in link, end[1] = x,
               NEW e \in link
        PROVE  EndDone(e)
    <3>1. end[2] \in CheckedPorts(x) /\ end = <<x, end[2]>>
          /\ (e = end \/ (end \in DOMAIN PeerOf /\ e = PeerOf[end]))
      BY <2>2, EndsAreChecked
    <3>2. Has(x, "port", end[2]) /\ Get(x, "port", end[2]) = operator.speed
          /\ PortUp(x, end[2])
      BY <2>2, <3>1 DEF Answer, AllGood
    <3>3. CASE e = end
      BY <3>3, <3>1, <3>2 DEF EndDone, Has, Get, PortKey
    <3>4. CASE end \in DOMAIN PeerOf /\ e = PeerOf[end]
      <4>1. Has(e[1], "port", e[2]) /\ Get(e[1], "port", e[2]) = operator.speed
        BY <3>1, <3>2, <3>4 DEF PortUp
      <4>2. QED BY <4>1 DEF EndDone, Has, Get, PortKey
    <3>5. QED BY <3>1, <3>3, <3>4
  <2>3. QED BY <2>1, <2>2 DEF LinksDone
<1>7. \A y : LinksDone(y) => LinksDone(y)'
  BY <1>3, <1>4 DEF LinksDone, EndDone
<1>8. AskedInv'
  <2>1. operator'.asked \in 0 .. 3
    BY <1>2, <1>3
  <2>2. operator'.answers = [sw \in Switches |-> operator'.answers[sw]]
    BY <1>2, <1>3
  <2>3. ASSUME NEW sw \in Switches
        PROVE  /\ operator'.answers[sw] \in {"0", "1", "nothing"}
               /\ operator'.answers[sw] = "1" => LinksDone(sw)'
    <3>1. CASE sw = x
      BY <3>1, <1>2, <1>3, <1>6, <1>7
    <3>2. CASE sw # x
      BY <3>2, <1>1, <1>2, <1>3, <1>7 DEF AskedInv
    <3>3. QED BY <3>1, <3>2
  <2>4. QED BY <2>1, <2>2, <2>3, <1>2, <1>3 DEF AskedInv
<1>9. QED BY <1>3, <1>4, <1>8, ChecksOnlyRead

\* The end of a round preserves the invariant.
LEMMA EndOfRoundPreserves ==
    ASSUME TestbedInv, EndOfRound
    PROVE  TestbedInv'
<1>1. AskedInv
  BY DEF TestbedInv
<1>2. /\ operator = [speed |-> operator.speed, asked |-> operator.asked,
                     answers |-> operator.answers, allUp |-> operator.allUp,
                     early |-> operator.early]
      /\ operator.asked = 3 /\ ~ operator.allUp
  BY <1>1 DEF AskedInv, EndOfRound, CheckOrder
<1>3. UNCHANGED <<todo, entries, seed, failed, disturbed>>
  BY DEF EndOfRound
<1>4. CASE \E sw \in Switches : operator.answers[sw] = "0"
  <2>1. /\ operator'.speed = operator.speed /\ operator'.early = operator.early
        /\ operator'.asked = 0 /\ operator'.allUp = operator.allUp
        /\ operator'.answers = NoAnswers
        /\ operator' = [speed |-> operator'.speed, asked |-> operator'.asked,
                        answers |-> operator'.answers, allUp |-> operator'.allUp,
                        early |-> operator'.early]
    BY <1>2, <1>4 DEF EndOfRound
  <2>2. /\ operator'.answers = [sw \in Switches |-> operator'.answers[sw]]
        /\ \A sw \in Switches : operator'.answers[sw] = "nothing"
    BY <2>1 DEF NoAnswers
  <2>3. operator'.asked \in 0 .. 3
    BY <2>1
  <2>4. AskedInv'
    BY <2>1, <2>2, <2>3 DEF AskedInv
  <2>5. QED BY <2>1, <2>4, <1>3, ChecksOnlyRead
<1>5. CASE ~ \E sw \in Switches : operator.answers[sw] = "0"
  <2>1. /\ operator'.speed = operator.speed /\ operator'.early = operator.early
        /\ operator'.asked = operator.asked /\ operator'.answers = operator.answers
        /\ operator' = [speed |-> operator'.speed, asked |-> operator'.asked,
                        answers |-> operator'.answers, allUp |-> operator'.allUp,
                        early |-> operator'.early]
    BY <1>2, <1>5 DEF EndOfRound
  <2>2. \A y : LinksDone(y) => LinksDone(y)'
    BY <2>1, <1>3 DEF LinksDone, EndDone
  <2>3. AskedInv'
    BY <2>1, <2>2, <1>1, <1>5 DEF AskedInv
  <2>4. QED BY <2>1, <2>3, <1>3, ChecksOnlyRead
<1>6. QED BY <1>4, <1>5

\* Typing set_number_of_retx_copies preserves the invariant.
LEMMA SetCopiesPreserves ==
    ASSUME TestbedInv, SetNumberOfRetxCopies
    PROVE  TestbedInv'
<1> DEFINE T == entries["sender"]
<1>1. ShellsInv /\ SpeedInv /\ AskedInv /\ RetxInv /\ UndisturbedInv /\ SeedInv
  BY DEF TestbedInv
<1>2. PICK n \in Copies : /\ SetUp
                          /\ todo' = [todo EXCEPT !["sender"] = RetxCalls(RetxCopies, n)]
                          /\ UNCHANGED <<entries, seed, operator, failed, disturbed>>
  BY DEF SetNumberOfRetxCopies
<1>3. n \in Nat
  BY TestbedAssumption
<1>4. "sender" \in Switches /\ "topo" \in Switches /\ "receiver" \in Switches
  BY DEF Switches
<1>5. \A x \in Switches : todo[x] = <<>>
  BY <1>2 DEF SetUp
<1> DEFINE c == RetxCopies
           s == todo'["sender"]
<1>6. c \in Nat /\ \A k \in Nat : Copied(T, <<>>, k) => k = c
  BY <1>1, <1>4, <1>5, CopiesCounted
<1>7. /\ s = RetxCalls(c, n) /\ \A x \in Switches \ {"sender"} : todo'[x] = todo[x]
      /\ todo' = [x \in Switches |-> todo'[x]]
  BY <1>1, <1>2, <1>4 DEF ShellsInv
<1>8. RetxData(T, <<>>) /\ RetxOrder(T, <<>>)
  BY <1>1, <1>4, <1>5, IdleRetx DEF RetxInv
<1>9. "sender" \notin disturbed => Copied(T, <<>>, c)
  BY <1>1, <1>4, <1>5, <1>6 DEF UndisturbedInv
<1>10. "sender" \notin disturbed => seed["sender"] = "circulates"
  <2>1. \A i \in 1 .. Len(<<>>) : FALSE
    OBVIOUS
  <2>2. QED BY <2>1, <1>1, <1>4, <1>5 DEF SeedInv, SeedComes
<1> HIDE DEF T, c, s
<1>11. /\ Script(s) /\ Settles(s) /\ RetxData(T, s) /\ RetxOrder(T, s)
       /\ \A i \in 1 .. Len(s) :
              /\ s[i].op # "inject"
              /\ \A p : ~ Adds(s[i], PortKey(p)) /\ ~ Deletes(s[i], PortKey(p))
       /\ Copied(T, <<>>, c) => Accepted(T, s) /\ Copied(T, s, n)
  <2>1. CASE n = c
    <3>1. s = <<>>
      BY <2>1, <1>7 DEF RetxCalls
    <3>2. \A i \in 1 .. Len(s) : FALSE
      BY <3>1
    <3>3. Script(s) /\ Settles(s) /\ Accepted(T, s)
      BY <3>1, Idle
    <3>4. QED BY <3>1, <3>2, <3>3, <2>1, <1>8
  <2>2. CASE n # c
    <3>1. Recopies(s, c, n)
      BY <2>2, <1>3, <1>6, <1>7, RetxRecopies
    <3>2. Script(s)
      BY <3>1 DEF Recopies
    <3>3. Settles(s) /\ RetxData(T, s) /\ RetxOrder(T, s)
      BY <3>1, <1>3, <1>6, <1>8, CopiesSettle, CopiesData, CopiesOrder
    <3>4. \A i \in 1 .. Len(s) :
              /\ s[i].op # "inject"
              /\ \A p : ~ Adds(s[i], PortKey(p)) /\ ~ Deletes(s[i], PortKey(p))
      BY <3>1, <1>3, <1>6, CopiesElsewhere
    <3>5. Copied(T, <<>>, c) => Accepted(T, s) /\ Copied(T, s, n)
      BY <3>1, <1>3, <1>6, CopiesAccepted
    <3>6. QED BY <3>2, <3>3, <3>4, <3>5
  <2>3. QED BY <2>1, <2>2
<1>12. ShellsInv'
  <2>1. \A x \in Switches : Script(todo'[x]) /\ Settles(todo'[x])
    BY <1>1, <1>7, <1>11 DEF ShellsInv, s
  <2>2. QED BY <2>1, <1>1, <1>2, <1>7 DEF ShellsInv
<1>13. SpeedInv'
  <2>1. Speeds("sender", s, operator.speed)
        /\ PortsStay("sender", T, s, operator.speed, operator.early)
    BY <1>11 DEF Speeds, PortsStay
  <2>2. QED BY <2>1, <1>1, <1>2, <1>7 DEF SpeedInv, s, T
<1>14. AskedInv'
  BY <1>1, <1>2 DEF AskedInv, LinksDone, EndDone
<1>15. RetxInv'
  BY <1>2, <1>11 DEF RetxInv, T, s
<1>16. UndisturbedInv'
  <2>1. ASSUME NEW x \in Switches \ disturbed PROVE Accepted(entries[x], todo'[x])
    <3>1. CASE x = "sender"
      BY <3>1, <1>9, <1>11 DEF s, T
    <3>2. CASE x # "sender"
      BY <3>2, <1>1, <1>7 DEF UndisturbedInv
    <3>3. QED BY <3>1, <3>2
  <2>2. "sender" \notin disturbed => Copied(T, s, n)
    BY <1>9, <1>11
  <2>3. QED BY <2>1, <2>2, <1>1, <1>2, <1>3 DEF UndisturbedInv, s, T
<1>17. SeedInv'
  <2>1. ASSUME NEW x \in Switches PROVE SeedReady(x, entries[x], todo'[x])
    <3>1. CASE x = "sender"
      BY <3>1, <1>11 DEF SeedReady, s
    <3>2. CASE x # "sender"
      BY <3>2, <1>1, <1>7 DEF SeedInv
    <3>3. QED BY <3>1, <3>2
  <2>2. ASSUME NEW x \in {"sender", "receiver"} \ disturbed PROVE SeedComes(x)'
    <3>1. SeedComes(x)
      BY <1>1 DEF SeedInv
    <3>2. CASE x = "sender"
      <4>1. \A i \in 1 .. Len(s) : s[i].op \in {"delete", "clear"} =>
                s[i].key \notin SeedPorts("sender")
        BY <1>11 DEF Deletes, SeedPorts, PortKey
      <4>2. QED BY <4>1, <3>2, <1>2, <1>10 DEF SeedComes, s
    <3>3. CASE x = "receiver"
      <4>1. todo'[x] = todo[x]
        BY <3>3, <1>4, <1>7
      <4>2. QED BY <4>1, <3>1, <1>2 DEF SeedComes
    <3>4. QED BY <3>2, <3>3
  <2>3. QED BY <2>1, <2>2, <1>2 DEF SeedInv
<1>18. QED BY <1>12, <1>13, <1>14, <1>15, <1>16, <1>17 DEF TestbedInv

\* Typing change_link_speeds preserves the invariant.
LEMMA ChangeSpeedsPreserves ==
    ASSUME TestbedInv, ChangeLinkSpeeds
    PROVE  TestbedInv'
<1>1. ShellsInv /\ RetxInv /\ UndisturbedInv
  BY DEF TestbedInv
<1>2. PICK speed \in NewSpeeds :
        /\ SetUp
        /\ todo' = [sw \in Switches |-> ModifyPorts(SpeedPorts(sw), speed)]
        /\ operator' = [speed |-> speed, asked |-> 0, answers |-> NoAnswers,
                        allUp |-> FALSE,
                        early |-> {end \in CheckedEnds : HasSpeed(end, speed)}]
        /\ disturbed' = disturbed \cup Switches
        /\ UNCHANGED <<entries, seed, failed>>
  BY DEF ChangeLinkSpeeds
<1>3. /\ operator'.speed = speed /\ operator'.asked = 0 /\ operator'.allUp = FALSE
      /\ operator'.answers = NoAnswers
      /\ operator'.early = {end \in CheckedEnds : HasSpeed(end, speed)}
      /\ operator' = [speed |-> operator'.speed, asked |-> operator'.asked,
                      answers |-> operator'.answers, allUp |-> operator'.allUp,
                      early |-> operator'.early]
  BY <1>2
<1>4. ASSUME NEW sw \in Switches
      PROVE  /\ Script(todo'[sw]) /\ Settles(todo'[sw])
             /\ \A i \in 1 .. Len(todo'[sw]) :
                  /\ todo'[sw][i].op \in {"add", "delete"}
                  /\ \E p : todo'[sw][i].key = PortKey(p)
                  /\ todo'[sw][i].op = "add" => todo'[sw][i].data = speed
  <2> DEFINE s == todo'[sw]
  <2>1. s = ModifyPorts(SpeedPorts(sw), speed)
    BY <1>2
  <2> HIDE DEF s
  <2>2. /\ Script(s) /\ Settles(s)
        /\ \A i \in 1 .. Len(s) :
                /\ s[i].op \in {"add", "delete"}
                /\ \E p : s[i].key = PortKey(p)
                /\ s[i].op = "add" => s[i].data = speed
    BY <2>1, PortsModified
  <2>3. QED BY <2>2 DEF s
<1>5. ShellsInv'
  <2>1. todo' = [sw \in Switches |-> todo'[sw]]
    BY <1>2
  <2>2. QED BY <2>1, <1>1, <1>2, <1>4 DEF ShellsInv
\* The ports that had the speed beforehand are early.
<1>6. SpeedInv'
  <2>1. \A sw \in Switches : Speeds(sw, todo'[sw], speed)
    BY <1>4 DEF Speeds, Adds
  <2>2. ASSUME NEW sw \in Switches
        PROVE  PortsStay(sw, entries[sw], todo'[sw], speed, operator'.early)
    <3>1. ASSUME NEW p \in CheckedPorts(sw), PortKey(p) \in DOMAIN entries[sw],
                 entries[sw][PortKey(p)] = speed
          PROVE  <<sw, p>> \in operator'.early
      <4>1. <<sw, p>> \in CheckedEnds
        BY DEF CheckedEnds
      <4>2. HasSpeed(<<sw, p>>, speed)
        BY <3>1 DEF HasSpeed, Has, Get, PortKey
      <4>3. QED BY <4>1, <4>2, <1>3
    <3>2. QED BY <3>1 DEF PortsStay
  <2>3. QED BY <2>1, <2>2, <1>2, <1>3 DEF SpeedInv
<1>7. AskedInv'
  <2>1. /\ operator'.answers = [sw \in Switches |-> operator'.answers[sw]]
        /\ \A sw \in Switches : operator'.answers[sw] = "nothing"
    BY <1>3 DEF NoAnswers
  <2>2. operator'.asked \in 0 .. 3
    BY <1>3
  <2>3. QED BY <2>1, <2>2, <1>3 DEF AskedInv
<1>8. RetxInv'
  <2>1. "sender" \in Switches
    BY DEF Switches
  <2>2. RetxData(entries["sender"], <<>>) /\ RetxOrder(entries["sender"], <<>>)
    BY <1>1, IdleRetx DEF RetxInv
  <2>3. \A i \in 1 .. Len(todo'["sender"]) : \E p : todo'["sender"][i].key = PortKey(p)
    BY <2>1, <1>4
  <2>4. RetxData(entries["sender"], todo'["sender"]) /\ RetxOrder(entries["sender"], todo'["sender"])
    BY <2>2, <2>3, RetxUntouched
  <2>5. QED BY <2>4, <1>2 DEF RetxInv
<1>9. UndisturbedInv'
  <2>1. failed' \subseteq disturbed' /\ Switches \subseteq disturbed' /\ "sender" \in disturbed'
    BY <1>1, <1>2 DEF UndisturbedInv, Switches
  <2>2. QED BY <2>1 DEF UndisturbedInv
<1>10. SeedInv'
  <2>1. \A sw \in Switches : SeedReady(sw, entries'[sw], todo'[sw])
    BY <1>4 DEF SeedReady
  <2>2. {"sender", "receiver"} \ disturbed' = {}
    BY <1>2 DEF Switches
  <2>3. QED BY <2>1, <2>2 DEF SeedInv
<1>11. QED BY <1>5, <1>6, <1>7, <1>8, <1>9, <1>10 DEF TestbedInv

\* Interrupting a command preserves the invariant.
LEMMA InterruptPreserves ==
    ASSUME TestbedInv, NEW sw \in Switches, Interrupt(sw)
    PROVE  TestbedInv'
<1>1. failed' \subseteq disturbed' /\ sw \in disturbed' /\ disturbed \subseteq disturbed'
  BY DEF TestbedInv, UndisturbedInv, Interrupt
<1>2. todo' = [todo EXCEPT ![sw] = <<>>] /\ UNCHANGED <<entries, seed, operator>>
  BY DEF Interrupt
<1>3. QED BY <1>1, <1>2, Abandoned

\* In every reachable state of the testbed, the shells, the speeds of the
\* ports, the answers of the checks, the copies and the seeds are as
\* TestbedInv says.
THEOREM TestbedInvariant == TestbedSpec => []TestbedInv
<1>1. TestbedInit => TestbedInv
  BY TestbedInvInit
<1>2. TestbedInv /\ [TestbedNext]_testbedVars => TestbedInv'
  <2> SUFFICES ASSUME TestbedInv, [TestbedNext]_testbedVars PROVE TestbedInv'
    OBVIOUS
  <2>1. ASSUME NEW sw \in Switches, Call(sw) PROVE TestbedInv'
    BY <2>1, CallPreserves
  <2>2. ASSUME NEW sw \in Switches, Interrupt(sw) PROVE TestbedInv'
    BY <2>2, InterruptPreserves
  <2>3. CASE SetNumberOfRetxCopies
    BY <2>3, SetCopiesPreserves
  <2>4. CASE ChangeLinkSpeeds
    BY <2>4, ChangeSpeedsPreserves
  <2>5. CASE CheckLinks
    BY <2>5, CheckLinksPreserves
  <2>6. CASE EndOfRound
    BY <2>6, EndOfRoundPreserves
  <2>7. CASE SendFrame
    BY <2>7, TablesOnlyRead DEF SendFrame
  <2>8. CASE Forward
    BY <2>8, TablesOnlyRead DEF Forward
  <2>9. CASE UNCHANGED testbedVars
    BY <2>9, TablesOnlyRead DEF testbedVars
  <2>10. QED BY <2>1, <2>2, <2>3, <2>4, <2>5, <2>6, <2>7, <2>8, <2>9 DEF TestbedNext
<1>3. QED BY <1>1, <1>2, PTL DEF TestbedSpec

\* The sender never hands a retransmission to a multicast group that is not
\* whole, and no call of a shell is refused unless one was interrupted
\* (RetxGroupWhole).
THEOREM RetxGroupIsWhole == TestbedSpec => []RetxGroupWhole
<1>1. TestbedInv => RetxGroupWhole
  <2> SUFFICES ASSUME TestbedInv PROVE RetxGroupWhole
    OBVIOUS
  <2>1. failed \subseteq disturbed
    BY DEF TestbedInv, UndisturbedInv
  <2>2. Multicast(entries["sender"]) => GroupWhole(entries["sender"])
    BY DEF TestbedInv, RetxInv, RetxOrder
  <2>3. QED BY <2>1, <2>2 DEF RetxGroupWhole, Multicast, GroupWhole, Has, Get,
                              RetxKey, GroupKey, NodeKey
<1>2. QED BY <1>1, TestbedInvariant, PTL

\* The first dummy and courier packet circulate once the scripts are
\* through, unless their ports are deleted (SeedsCirculate).
THEOREM SeedsKeepCirculating == TestbedSpec => []SeedsCirculate
<1>1. TestbedInv => SeedsCirculate
  <2> SUFFICES ASSUME TestbedInv, NEW sw \in DOMAIN seed \ disturbed, todo[sw] = <<>>
               PROVE  seed[sw] = "circulates"
    BY DEF SeedsCirculate
  <2>1. sw \in {"sender", "receiver"} \ disturbed
    BY DEF TestbedInv, ShellsInv
  <2>2. SeedComes(sw)
    BY <2>1 DEF TestbedInv, SeedInv
  <2>3. \A i \in 1 .. Len(<<>>) : FALSE
    OBVIOUS
  <2>4. QED BY <2>2, <2>3 DEF SeedComes
<1>2. QED BY <1>1, TestbedInvariant, PTL

\* A link is up at the new speed when "All links are up" is reported, unless
\* no check at its ends printed an answer, or one of its ports had the speed
\* beforehand and has been deleted since (AllUpMeansUp).  No proviso: silent
\* checks, interrupted commands and changes to the present speed included.
THEOREM LinksAreUp == TestbedSpec => []AllUpMeansUp
<1>1. TestbedInv => AllUpMeansUp
  <2> SUFFICES ASSUME TestbedInv, operator.allUp, NEW link \in CheckedLinks,
                      ~ \A end \in link : operator.answers[end[1]] = "nothing",
                      ~ \E end \in link \cap operator.early : ~ Has(end[1], "port", end[2])
               PROVE  Up(link)
    BY DEF AllUpMeansUp
  <2>1. PICK asked \in link : operator.answers[asked[1]] # "nothing"
    OBVIOUS
  <2>2. asked[1] \in Switches
    BY EndsAreChecked
  <2>3. LinksDone(asked[1])
    BY <2>1, <2>2 DEF TestbedInv, AskedInv
  <2>4. ASSUME NEW end \in link
        PROVE  Has(end[1], "port", end[2]) /\ Get(end[1], "port", end[2]) = operator.speed
    <3>1. EndDone(end)
      BY <2>3 DEF LinksDone
    <3>2. end \in operator.early => Has(end[1], "port", end[2])
      OBVIOUS
    <3>3. QED BY <3>1, <3>2 DEF EndDone, Has, Get, PortKey
  <2>5. ASSUME NEW end \in link PROVE PortUp(end[1], end[2])
    <3>1. end = <<end[1], end[2]>> /\ (end \in DOMAIN PeerOf => PeerOf[end] \in link)
      BY EndsAreChecked
    <3>2. QED BY <3>1, <2>4 DEF PortUp
  <2>6. QED BY <2>4, <2>5 DEF Up, HasSpeed
<1>2. QED BY <1>1, TestbedInvariant, PTL
-----------------------------------------------------------------------------
(***************************************************************************)
(* Frames: which way they can only go, also while the tables are filled,   *)
(* and that they get to its end when the tables are complete.              *)
(***************************************************************************)

L2Key(route) == <<"l2", route>>
MdKey(p) == <<"port_md", p>>

\* The tables a switch forwards frames by.
RouteTables(sw) ==
    {"l2", "port_md", "loopback"} \cup (IF sw = "topo" THEN {"node", "group"} ELSE {})

\* What an entry of them is: whenever there is one for a frame, it leads on.
SenderRoute(key, data) ==
    /\ key \notin {<<"loopback", 32>>, <<"loopback", 36>>}
    /\ key = L2Key(To("lumos")) => data = 36
    /\ key = L2Key(To("caelus")) => data = 32
    /\ key = L2Key(To("receiver")) => data = 32

ReceiverRoute(key, data) ==
    /\ key \notin {<<"loopback", 36>>, <<"loopback", 52>>, MdKey(52)}
    /\ key = MdKey(36) => data = PortMd(TRUE, FALSE)
    /\ key = MdKey(44) => data = PortMd(FALSE, TRUE)
    /\ key = L2Key(To("lumos")) => data = 36
    /\ key = L2Key(To("caelus")) => data = 52
    /\ key = L2Key(To("receiver")) => data = 52

TopoRoute(key, data) ==
    /\ \A p \in {36, 56, 128, 136, 160, 168} : key # <<"loopback", p>>
    /\ key \in {MdKey(128), MdKey(160)} => data = 0
    /\ key \in {MdKey(36), MdKey(136)} => data = 1
    /\ key \in {MdKey(56), MdKey(168)} => data = 2
    /\ key = L2Key(<<0, "lumos">>) => data = 160
    /\ key = L2Key(<<1, "lumos">>) => data = 136
    /\ key = L2Key(<<2, "lumos">>) => data = 56
    /\ key = L2Key(<<0, "caelus">>) => data = 128
    /\ key = L2Key(<<1, "caelus">>) => data = 36
    /\ key = L2Key(<<2, "caelus">>) => data = 168
    /\ key = L2Key(<<2, "receiver">>) => data = 168
    /\ key # L2Key(<<0, "receiver">>)
    /\ key = GroupKey => data = {0}
    /\ key = NodeKey(0) => data = {160, 168}

Route(sw, key, data) ==
    /\ sw = "sender" => SenderRoute(key, data)
    /\ sw = "receiver" => ReceiverRoute(key, data)
    /\ sw = "topo" => TopoRoute(key, data)

\* Entries of which the second is there whenever the first is.
Behind(sw) ==
    CASE sw = "sender"   -> {}
      [] sw = "receiver" -> {L2Key(To("caelus")), L2Key(To("receiver"))} \X {MdKey(36)}
      [] sw = "topo"     ->
            ({L2Key(<<0, "lumos">>), L2Key(<<0, "caelus">>)}
                \X {MdKey(36), MdKey(56), MdKey(136), MdKey(168)})
            \cup {<<GroupKey, NodeKey(0)>>}

\* Entries without which a frame is gone.
Required(sw) ==
    {PortKey(p) : p \in CheckedPorts(sw)} \cup
    CASE sw = "sender"   -> {L2Key(To("lumos")), L2Key(To("caelus")), L2Key(To("receiver"))}
      [] sw = "receiver" ->
            {PortKey(44), <<"loopback", 44>>, MdKey(36),
             L2Key(To("lumos")), L2Key(To("caelus")), L2Key(To("receiver"))}
      [] sw = "topo"     ->
            {MdKey(36), MdKey(56), MdKey(136), MdKey(168),
             L2Key(<<0, "lumos">>), L2Key(<<1, "lumos">>), L2Key(<<2, "lumos">>),
             L2Key(<<0, "caelus">>), L2Key(<<1, "caelus">>), L2Key(<<2, "caelus">>),
             L2Key(<<2, "receiver">>), GroupKey, NodeKey(0)}

\* Routes are only ever added, and in this order.
RoutesOf(sw, T, s) ==
    /\ \A key \in DOMAIN T : Route(sw, key, T[key])
    /\ \A i \in 1 .. Len(s) :
        /\ s[i].op = "add" => Route(sw, s[i].key, s[i].data)
        /\ s[i].op \in {"delete", "clear"} => s[i].key[1] \notin RouteTables(sw)
    /\ \A b \in Behind(sw) :
        /\ b[1] \in DOMAIN T => b[2] \in DOMAIN T
        /\ \A i \in 1 .. Len(s) : Adds(s[i], b[1]) =>
            b[2] \in DOMAIN T \/ \E j \in 1 .. i - 1 : Adds(s[j], b[2])

\* What is needed is there, or still to come, and it stays.
Completes(sw, T, s, speed) ==
    /\ \A key \in Required(sw) : key \in DOMAIN T \/ \E i \in 1 .. Len(s) : Adds(s[i], key)
    /\ \A p \in CheckedPorts(sw) : PortKey(p) \in DOMAIN T => T[PortKey(p)] = speed
    /\ \A i \in 1 .. Len(s) : s[i].op \in {"delete", "clear"} => s[i].key \notin Required(sw)

RouteInv ==
    /\ \A sw \in Switches : RoutesOf(sw, entries[sw], todo[sw])
    /\ \A sw \in Switches \ disturbed :
        Completes(sw, entries[sw], todo[sw], operator.speed)

\* The ways through the testbed.
ToCaelus ==
    <<<<"topo", 160>>, <<"topo", 136>>, <<"sender", 36>>, <<"receiver", 36>>,
      <<"receiver", 44>>, <<"topo", 56>>, <<"host", "caelus">>>>
ToLumos ==
    <<<<"topo", 168>>, <<"receiver", 52>>, <<"sender", 32>>, <<"topo", 36>>,
      <<"topo", 128>>, <<"host", "lumos">>>>
ToReceiver ==
    <<<<"sender", 68>>, <<"receiver", 36>>, <<"receiver", 44>>, <<"topo", 56>>,
      <<"host", "caelus">>>>
ToAll(source, host) == <<<<"topo", source>>, <<"host", host>>>>

Ways(to) ==
    CASE to = "caelus"   -> {ToCaelus}
      [] to = "lumos"    -> {ToLumos}
      [] to = "receiver" -> {ToReceiver}
      [] to = "all"      -> {ToAll(source, host) : source \in {160, 168}, host \in Hosts}
      [] OTHER           -> {}

\* The path of the frame is the beginning of a way, of length n.
OnWay(way, n) ==
    /\ Begins(tracked.path, n, way) /\ tracked.place = way[n]

\* The frame was lost on its way, behind the first n places.
Strayed(way, n) ==
    /\ Script(tracked.path) /\ Len(tracked.path) = n + 1
    /\ \A i \in 1 .. n : tracked.path[i] = way[i]
    /\ tracked.path[n + 1] = Gone /\ tracked.place = Gone
    /\ ~ (tracked.ready /\ disturbed = {})

FrameInv ==
    \/ tracked = NoFrame
    \/ /\ tracked = [to |-> tracked.to, path |-> tracked.path,
                     place |-> tracked.place, ready |-> tracked.ready]
       /\ tracked.ready /\ disturbed = {} =>
            \A sw \in Switches : Required(sw) \subseteq DOMAIN entries[sw]
       /\ \E way \in Ways(tracked.to) : \E n \in 1 .. Len(way) :
            OnWay(way, n) \/ Strayed(way, n)

\* What becomes of routes when a call is made.
LEMMA RoutesStep ==
    ASSUME NEW sw \in Switches, NEW T, NEW s, NEW T2, NEW R, Proceeds(T, s, T2, R),
           RoutesOf(sw, T, s)
    PROVE  RoutesOf(sw, T2, R)
<1>1. /\ Len(s) \in Nat \ {0} /\ Len(R) = Len(s) - 1 /\ 1 \in 1 .. Len(s)
      /\ \A i \in 1 .. Len(R) : R[i] = s[i + 1] /\ i + 1 \in 2 .. Len(s)
      /\ s[1].op \in Ops
  BY ProceedsFacts
<1>2. ASSUME NEW key \in DOMAIN T2 PROVE Route(sw, key, T2[key])
  <2>1. CASE Adds(s[1], key)
    <3>1. T2[key] = s[1].data /\ s[1].op = "add" /\ s[1].key = key
      BY <2>1, ProceedsKey DEF Adds
    <3>2. QED BY <3>1, <1>1 DEF RoutesOf
  <2>2. CASE key \in DOMAIN T /\ ~ Deletes(s[1], key)
    <3>1. T2[key] = T[key]
      BY <2>2, ProceedsKey
    <3>2. QED BY <3>1, <2>2 DEF RoutesOf
  <2>3. QED BY <2>1, <2>2, ProceedsKey
<1>3. ASSUME NEW i \in 1 .. Len(R)
      PROVE  /\ R[i].op = "add" => Route(sw, R[i].key, R[i].data)
             /\ R[i].op \in {"delete", "clear"} => R[i].key[1] \notin RouteTables(sw)
  <2>1. R[i] = s[i + 1] /\ i + 1 \in 1 .. Len(s)
    BY <1>1
  <2>2. QED BY <2>1 DEF RoutesOf
<1>4. ASSUME NEW b \in Behind(sw)
      PROVE  /\ b[1] \in DOMAIN T2 => b[2] \in DOMAIN T2
             /\ \A i \in 1 .. Len(R) : Adds(R[i], b[1]) =>
                  b[2] \in DOMAIN T2 \/ \E j \in 1 .. i - 1 : Adds(R[j], b[2])
  <2>1. ~ Deletes(s[1], b[2])
    <3>1. b[2][1] \in RouteTables(sw)
      BY <1>4 DEF Behind, RouteTables, Switches, MdKey, NodeKey
    <3>2. QED BY <3>1, <1>1 DEF RoutesOf, Deletes
  <2>2. b[2] \in DOMAIN T \/ Adds(s[1], b[2]) => b[2] \in DOMAIN T2
    BY <2>1, ProceedsKey
  <2>3. ASSUME b[1] \in DOMAIN T2 PROVE b[2] \in DOMAIN T2
    <3>1. CASE b[1] \in DOMAIN T
      BY <3>1, <2>2 DEF RoutesOf
    <3>2. CASE Adds(s[1], b[1])
      <4>1. \A j \in 1 .. 1 - 1 : FALSE
        OBVIOUS
      <4>2. b[2] \in DOMAIN T
        BY <4>1, <3>2, <1>1 DEF RoutesOf
      <4>3. QED BY <4>2, <2>2
    <3>3. QED BY <2>3, <3>1, <3>2, ProceedsKey
  <2>4. ASSUME NEW i \in 1 .. Len(R), Adds(R[i], b[1]), b[2] \notin DOMAIN T2
        PROVE  \E j \in 1 .. i - 1 : Adds(R[j], b[2])
    <3>1. R[i] = s[i + 1] /\ i + 1 \in 1 .. Len(s)
      BY <1>1
    <3>2. b[2] \notin DOMAIN T /\ ~ Adds(s[1], b[2])
      BY <2>2, <2>4
    <3>3. PICK j \in 1 .. (i + 1) - 1 : Adds(s[j], b[2])
      BY <3>1, <3>2, <2>4 DEF RoutesOf
    <3>4. j # 1
      BY <3>2, <3>3
    <3>5. j - 1 \in 1 .. i - 1 /\ j - 1 \in 1 .. Len(R) /\ (j - 1) + 1 = j
      BY <3>3, <3>4, <1>1
    <3>6. R[j - 1] = s[j]
      BY <3>5, <1>1
    <3>7. QED BY <3>3, <3>5, <3>6
  <2>5. QED BY <2>3, <2>4
<1>5. QED BY <1>2, <1>3, <1>4 DEF RoutesOf

\* An entry that is there is one of what is needed only as it was added.
LEMMA CompletesStep ==
    ASSUME NEW sw \in Switches, NEW T, NEW s, NEW T2, NEW R, Proceeds(T, s, T2, R),
           NEW speed, Speeds(sw, s, speed), Completes(sw, T, s, speed)
    PROVE  /\ Completes(sw, T2, R, speed)
           /\ Required(sw) \cap DOMAIN T \subseteq DOMAIN T2
<1>1. /\ Len(s) \in Nat \ {0} /\ Len(R) = Len(s) - 1 /\ 1 \in 1 .. Len(s)
      /\ \A i \in 1 .. Len(R) : R[i] = s[i + 1] /\ i + 1 \in 2 .. Len(s)
  BY ProceedsFacts
<1>2. ASSUME NEW key \in Required(sw)
      PROVE  /\ ~ Deletes(s[1], key)
             /\ key \in DOMAIN T \/ Adds(s[1], key) => key \in DOMAIN T2
  <2>1. ~ Deletes(s[1], key)
    BY <1>1 DEF Completes, Deletes
  <2>2. QED BY <2>1, ProceedsKey
<1>3. ASSUME NEW key \in Required(sw), key \notin DOMAIN T2
      PROVE  \E i \in 1 .. Len(R) : Adds(R[i], key)
  <2>1. key \notin DOMAIN T /\ ~ Adds(s[1], key)
    BY <1>2, <1>3
  <2>2. PICK j \in 1 .. Len(s) : Adds(s[j], key)
    BY <2>1 DEF Completes
  <2>3. j - 1 \in 1 .. Len(R) /\ (j - 1) + 1 = j
    BY <2>1, <2>2, <1>1
  <2>4. R[j - 1] = s[j]
    BY <2>3, <1>1
  <2>5. QED BY <2>2, <2>3, <2>4
<1>4. ASSUME NEW p \in CheckedPorts(sw), PortKey(p) \in DOMAIN T2 PROVE T2[PortKey(p)] = speed
  <2>1. CASE Adds(s[1], PortKey(p))
    BY <2>1, <1>1, ProceedsKey DEF Speeds
  <2>2. CASE PortKey(p) \in DOMAIN T /\ ~ Deletes(s[1], PortKey(p))
    <3>1. T2[PortKey(p)] = T[PortKey(p)]
      BY <2>2, ProceedsKey
    <3>2. QED BY <3>1, <2>2 DEF Completes
  <2>3. QED BY <1>4, <2>1, <2>2, ProceedsKey
<1>5. ASSUME NEW i \in 1 .. Len(R), R[i].op \in {"delete", "clear"}
      PROVE  R[i].key \notin Required(sw)
  <2>1. R[i] = s[i + 1] /\ i + 1 \in 1 .. Len(s)
    BY <1>1
  <2>2. QED BY <2>1, <1>5 DEF Completes
<1>6. QED BY <1>2, <1>3, <1>4, <1>5 DEF Completes

\* A shell that has nothing to do any more.
LEMMA IdleRoutes ==
    ASSUME NEW sw, NEW T, NEW s, RoutesOf(sw, T, s)
    PROVE  RoutesOf(sw, T, <<>>)
<1>1. \A i \in 1 .. Len(<<>>) : FALSE
  OBVIOUS
<1>2. QED BY <1>1 DEF RoutesOf

\* A script that leaves the tables a switch forwards by alone.
LEMMA RoutesUntouched ==
    ASSUME NEW sw \in Switches, NEW T, NEW s, RoutesOf(sw, T, <<>>),
           \A i \in 1 .. Len(s) :
                s[i].key[1] \in {"port"} \cup
                    (IF sw = "sender" THEN {"retx", "node", "group"} ELSE {})
    PROVE  RoutesOf(sw, T, s)
<1>1. ASSUME NEW i \in 1 .. Len(s)
      PROVE  s[i].key[1] \notin RouteTables(sw)
  BY <1>1 DEF RouteTables, Switches
<1>2. ASSUME NEW key, NEW data, key[1] \notin RouteTables(sw) PROVE Route(sw, key, data)
  <2>0. /\ \A x : /\ L2Key(x)[1] = "l2" /\ MdKey(x)[1] = "port_md"
                 /\ <<"loopback", x>>[1] = "loopback"
        /\ GroupKey[1] = "group" /\ NodeKey(0)[1] = "node"
    BY DEF L2Key, MdKey, GroupKey, NodeKey
  <2>1. CASE sw = "sender"
    <3>1. SenderRoute(key, data)
      BY <1>2, <2>0 DEF RouteTables, SenderRoute
    <3>2. QED BY <2>1, <3>1 DEF Route
  <2>2. CASE sw = "receiver"
    <3>1. ReceiverRoute(key, data)
      BY <1>2, <2>0 DEF RouteTables, ReceiverRoute
    <3>2. QED BY <2>2, <3>1 DEF Route
  <2>3. CASE sw = "topo"
    <3>1. key[1] \notin {"l2", "port_md", "loopback", "node", "group"}
      BY <1>2, <2>3 DEF RouteTables
    <3>2. TopoRoute(key, data)
      BY <3>1, <2>0 DEF TopoRoute
    <3>3. QED BY <2>3, <3>2 DEF Route
  <2>4. QED BY <2>1, <2>2, <2>3 DEF Switches
<1>3. ASSUME NEW i \in 1 .. Len(s), NEW b \in Behind(sw) PROVE ~ Adds(s[i], b[1])
  <2>1. b[1][1] \in RouteTables(sw)
    BY <1>3 DEF Behind, RouteTables, Switches, L2Key, GroupKey
  <2>2. QED BY <2>1, <1>1 DEF Adds
<1>4. /\ \A key \in DOMAIN T : Route(sw, key, T[key])
      /\ \A b \in Behind(sw) : b[1] \in DOMAIN T => b[2] \in DOMAIN T
  BY DEF RoutesOf
<1>5. QED BY <1>1, <1>2, <1>3, <1>4 DEF RoutesOf

\* The set-up adds what is needed, in order.
LEMMA SenderRoutes ==
    ASSUME NEW speed, NEW s, s = SenderCalls(speed)
    PROVE  RoutesOf("sender", <<>>, s) /\ Completes("sender", <<>>, s, speed)
<1>1. Len(s) = 20
  BY SenderFresh
<1>2. \A i \in 1 .. 20 :
        /\ s[i].op = "add" => SenderRoute(s[i].key, s[i].data)
        /\ s[i].op \in {"delete", "clear"} => s[i].key = RetxKey
  BY SMTT(30) DEF SenderCalls, Add, Clear, Inject, SenderRoute, L2Key, To, SeedRoute, RetxKey
<1>3. /\ Adds(s[1], PortKey(32)) /\ Adds(s[2], PortKey(36))
      /\ Adds(s[5], L2Key(To("receiver"))) /\ Adds(s[6], L2Key(To("lumos")))
      /\ Adds(s[7], L2Key(To("caelus")))
  BY DEF SenderCalls, Add, Adds, PortKey, L2Key
<1>4. \A k : k \notin DOMAIN <<>>
  OBVIOUS
<1>5. RetxKey[1] \notin RouteTables("sender") /\ RetxKey \notin Required("sender")
  BY DEF RetxKey, RouteTables, Required, PortKey, L2Key, CheckedPorts
<1>6. Behind("sender") = {}
  BY DEF Behind
<1>7. RoutesOf("sender", <<>>, s)
  BY <1>1, <1>2, <1>4, <1>5, <1>6 DEF RoutesOf, Route
<1>8. \A key \in Required("sender") : \E i \in 1 .. 20 : Adds(s[i], key)
  <2>1. Required("sender") = {PortKey(32), PortKey(36), L2Key(To("lumos")), L2Key(To("caelus")),
                            L2Key(To("receiver"))}
    BY DEF Required, CheckedPorts
  <2>2. QED BY <2>1, <1>3
<1>9. Completes("sender", <<>>, s, speed)
  BY <1>1, <1>2, <1>4, <1>5, <1>8 DEF Completes
<1>10. QED BY <1>7, <1>9

\* A key that a fresh script adds, it adds once.
LEMMA FreshOnce ==
    ASSUME NEW s, Len(s) \in Nat, Fresh(s)
    PROVE  \A i, j \in 1 .. Len(s) : \A key : Adds(s[i], key) /\ Adds(s[j], key) => i = j
<1>1. ASSUME NEW i \in 1 .. Len(s), NEW j \in 1 .. Len(s),
             NEW key, Adds(s[i], key), Adds(s[j], key)
      PROVE  i = j
  <2>1. ~ i < j /\ ~ j < i
    BY <1>1 DEF Fresh, Adds
  <2>2. QED BY <2>1
<1>2. QED BY <1>1

\* So does the set-up of the receiver.
LEMMA ReceiverRoutes ==
    ASSUME NEW speed, NEW s, s = ReceiverCalls(speed)
    PROVE  RoutesOf("receiver", <<>>, s) /\ Completes("receiver", <<>>, s, speed)
<1>1. Len(s) = 22 /\ Fresh(s)
  BY ReceiverFresh
<1>0. \A i, j \in 1 .. 22 : \A key : Adds(s[i], key) /\ Adds(s[j], key) => i = j
  <2>1. Len(s) \in Nat
    BY <1>1
  <2>2. \A i, j \in 1 .. Len(s) : \A key : Adds(s[i], key) /\ Adds(s[j], key) => i = j
    BY ZenonT(40), <1>1, <2>1, FreshOnce
  <2>3. QED BY <1>1, <2>2
<1>2. \A i \in 1 .. 22 : s[i].op \in {"add", "inject"}
  BY DEF ReceiverCalls, Add, Inject
<1>3. /\ Adds(s[1], PortKey(36)) /\ Adds(s[2], PortKey(44)) /\ Adds(s[3], PortKey(52))
      /\ Adds(s[5], <<"loopback", 44>>) /\ Adds(s[7], MdKey(36))
      /\ Adds(s[11], L2Key(To("receiver"))) /\ Adds(s[12], L2Key(To("lumos")))
      /\ Adds(s[13], L2Key(To("caelus")))
  BY DEF ReceiverCalls, Add, Adds, PortKey, MdKey, L2Key
<1>4. \A k : k \notin DOMAIN <<>>
  OBVIOUS
<1>5. \A b \in Behind("receiver") : \A i \in 1 .. 22 : Adds(s[i], b[1]) =>
        \E j \in 1 .. i - 1 : Adds(s[j], b[2])
  <2>1. \A i \in 1 .. 22 : Adds(s[i], L2Key(To("caelus"))) \/ Adds(s[i], L2Key(To("receiver")))
            => i \in {11, 13}
    BY SMTT(30), <1>0, <1>3
  <2>2. 7 \in 1 .. 11 - 1 /\ 7 \in 1 .. 13 - 1
    OBVIOUS
  <2>3. ASSUME NEW b \in Behind("receiver")
        PROVE  b[1] \in {L2Key(To("caelus")), L2Key(To("receiver"))} /\ b[2] = MdKey(36)
    BY <2>3 DEF Behind
  <2>4. QED BY <2>1, <2>2, <2>3, <1>3
<1>6. ASSUME NEW i \in 1 .. 22, s[i].op = "add" PROVE ReceiverRoute(s[i].key, s[i].data)
  <2>1. s[i].key \notin {<<"loopback", 36>>, <<"loopback", 52>>, <<"port_md", 52>>}
    BY <1>6 DEF ReceiverCalls, Add, Inject
  <2>2. /\ Adds(s[8], MdKey(44))
        /\ s[7].data = PortMd(TRUE, FALSE) /\ s[8].data = PortMd(FALSE, TRUE)
        /\ s[11].data = 52 /\ s[12].data = 36 /\ s[13].data = 52
    BY DEF ReceiverCalls, Add, Adds, MdKey
  <2>3. \A j \in 1 .. 22 : \A key : s[i].key = key /\ Adds(s[j], key) => i = j
    BY <1>0, <1>6 DEF Adds
  <2>4. /\ s[i].key = MdKey(36) => i = 7
        /\ s[i].key = MdKey(44) => i = 8
        /\ s[i].key = L2Key(To("receiver")) => i = 11
        /\ s[i].key = L2Key(To("lumos")) => i = 12
        /\ s[i].key = L2Key(To("caelus")) => i = 13
    BY <2>2, <2>3, <1>3
  <2>5. QED BY <2>1, <2>2, <2>4 DEF ReceiverRoute, MdKey
<1>7. RoutesOf("receiver", <<>>, s)
  BY <1>1, <1>2, <1>4, <1>5, <1>6 DEF RoutesOf, Route
<1>8. \A key \in Required("receiver") : \E i \in 1 .. 22 : Adds(s[i], key)
  <2>1. Required("receiver") = {PortKey(36), PortKey(52), PortKey(44), <<"loopback", 44>>,
                              MdKey(36), L2Key(To("lumos")), L2Key(To("caelus")),
                              L2Key(To("receiver"))}
    BY DEF Required, CheckedPorts
  <2>2. QED BY <2>1, <1>3
<1>9. Completes("receiver", <<>>, s, speed)
  BY <1>1, <1>2, <1>4, <1>8 DEF Completes
<1>10. QED BY <1>7, <1>9

\* So does the set-up of the topology switch.
LEMMA TopoRoutes ==
    ASSUME NEW speed, NEW s, s = TopoCalls(speed)
    PROVE  RoutesOf("topo", <<>>, s) /\ Completes("topo", <<>>, s, speed)
<1>1. Len(s) = 21 /\ Fresh(s)
  BY TopoFresh
<1>0. \A i, j \in 1 .. 21 : \A key : Adds(s[i], key) /\ Adds(s[j], key) => i = j
  <2>1. Len(s) \in Nat
    BY <1>1
  <2>2. \A i, j \in 1 .. Len(s) : \A key : Adds(s[i], key) /\ Adds(s[j], key) => i = j
    BY ZenonT(40), <1>1, <2>1, FreshOnce
  <2>3. QED BY <1>1, <2>2
<1>2. \A i \in 1 .. 21 : s[i].op = "add"
  BY DEF TopoCalls, Add
<1>3. /\ Adds(s[1], PortKey(160)) /\ Adds(s[2], PortKey(168)) /\ Adds(s[3], PortKey(128))
      /\ Adds(s[4], PortKey(136)) /\ Adds(s[5], PortKey(36)) /\ Adds(s[6], PortKey(56))
      /\ Adds(s[9], MdKey(136)) /\ Adds(s[10], MdKey(36)) /\ Adds(s[11], MdKey(56))
      /\ Adds(s[12], MdKey(168))
      /\ Adds(s[13], L2Key(<<0, "lumos">>)) /\ Adds(s[14], L2Key(<<1, "lumos">>))
      /\ Adds(s[15], L2Key(<<2, "lumos">>)) /\ Adds(s[16], L2Key(<<0, "caelus">>))
      /\ Adds(s[17], L2Key(<<1, "caelus">>)) /\ Adds(s[18], L2Key(<<2, "caelus">>))
      /\ Adds(s[19], L2Key(<<2, "receiver">>)) /\ Adds(s[20], NodeKey(0))
      /\ Adds(s[21], GroupKey)
  BY DEF TopoCalls, Add, Adds, PortKey, MdKey, L2Key, NodeKey, GroupKey
<1>4. \A k : k \notin DOMAIN <<>>
  OBVIOUS
<1>5. \A b \in Behind("topo") : \A i \in 1 .. 21 : Adds(s[i], b[1]) =>
        \E j \in 1 .. i - 1 : Adds(s[j], b[2])
  <2>1. \A i \in 1 .. 21 :
            /\ Adds(s[i], L2Key(<<0, "lumos">>)) => i = 13
            /\ Adds(s[i], L2Key(<<0, "caelus">>)) => i = 16
            /\ Adds(s[i], GroupKey) => i = 21
    <3>1. 13 \in 1 .. 21 /\ 16 \in 1 .. 21 /\ 21 \in 1 .. 21
      OBVIOUS
    <3>2. /\ Adds(s[13], L2Key(<<0, "lumos">>)) /\ Adds(s[16], L2Key(<<0, "caelus">>))
          /\ Adds(s[21], GroupKey)
      BY <1>3
    <3>3. QED BY <1>0, <3>1, <3>2
  <2>2. /\ 9 \in 1 .. 13 - 1 /\ 10 \in 1 .. 13 - 1 /\ 11 \in 1 .. 13 - 1 /\ 12 \in 1 .. 13 - 1
        /\ 9 \in 1 .. 16 - 1 /\ 10 \in 1 .. 16 - 1 /\ 11 \in 1 .. 16 - 1 /\ 12 \in 1 .. 16 - 1
        /\ 20 \in 1 .. 21 - 1
    OBVIOUS
  <2>3. ASSUME NEW b \in Behind("topo")
        PROVE  \/ /\ b[1] \in {L2Key(<<0, "lumos">>), L2Key(<<0, "caelus">>)}
                  /\ b[2] \in {MdKey(36), MdKey(56), MdKey(136), MdKey(168)}
               \/ b[1] = GroupKey /\ b[2] = NodeKey(0)
    BY <2>3 DEF Behind
  <2>4. ASSUME NEW b \in Behind("topo"), NEW i \in 1 .. 21, Adds(s[i], b[1])
        PROVE  \E j \in 1 .. i - 1 : Adds(s[j], b[2])
    <3>1. CASE b[1] = GroupKey /\ b[2] = NodeKey(0)
      BY <3>1, <2>1, <2>2, <2>4, <1>3
    <3>2. CASE /\ b[1] \in {L2Key(<<0, "lumos">>), L2Key(<<0, "caelus">>)}
               /\ b[2] \in {MdKey(36), MdKey(56), MdKey(136), MdKey(168)}
      <4>1. i \in {13, 16}
        BY <3>2, <2>1, <2>4
      <4>2. \E j \in {9, 10, 11, 12} : Adds(s[j], b[2])
        BY <3>2, <1>3
      <4>3. QED BY <4>1, <4>2, <2>2
    <3>3. QED BY <2>3, <3>1, <3>2
  <2>5. QED BY <2>4
<1>6. ASSUME NEW i \in 1 .. 21 PROVE TopoRoute(s[i].key, s[i].data)
  <2>1. s[i].key[1] # "loopback" /\ s[i].key # <<"l2", <<0, "receiver">>>>
    BY <1>6 DEF TopoCalls, Add
  <2>2. /\ Adds(s[7], MdKey(128)) /\ Adds(s[8], MdKey(160))
        /\ s[7].data = 0 /\ s[8].data = 0 /\ s[9].data = 1 /\ s[10].data = 1
        /\ s[11].data = 2 /\ s[12].data = 2
        /\ s[13].data = 160 /\ s[14].data = 136 /\ s[15].data = 56
        /\ s[16].data = 128 /\ s[17].data = 36 /\ s[18].data = 168 /\ s[19].data = 168
        /\ s[20].data = {160, 168} /\ s[21].data = {0}
    BY DEF TopoCalls, Add, Adds, MdKey
  <2>3. \A j \in 1 .. 21 : \A key : s[i].key = key /\ Adds(s[j], key) => i = j
    BY <1>0, <1>2, <1>6 DEF Adds
  <2>4. \A p : s[i].key # <<"loopback", p>>
    BY <2>1
  <2>5. /\ s[i].key = MdKey(128) => i = 7
        /\ s[i].key = MdKey(160) => i = 8
        /\ s[i].key = MdKey(136) => i = 9
        /\ s[i].key = MdKey(36) => i = 10
        /\ s[i].key = MdKey(56) => i = 11
        /\ s[i].key = MdKey(168) => i = 12
    <3>1. /\ Adds(s[7], MdKey(128)) /\ Adds(s[8], MdKey(160))
          /\ Adds(s[9], MdKey(136)) /\ Adds(s[10], MdKey(36))
          /\ Adds(s[11], MdKey(56)) /\ Adds(s[12], MdKey(168))
      BY <2>2, <1>3
    <3>2. /\ 7 \in 1 .. 21 /\ 8 \in 1 .. 21 /\ 9 \in 1 .. 21
          /\ 10 \in 1 .. 21 /\ 11 \in 1 .. 21 /\ 12 \in 1 .. 21
      OBVIOUS
    <3>3. QED BY <2>3, <3>1, <3>2
  <2>6. /\ s[i].key = L2Key(<<0, "lumos">>) => i = 13
        /\ s[i].key = L2Key(<<1, "lumos">>) => i = 14
        /\ s[i].key = L2Key(<<2, "lumos">>) => i = 15
    <3>1. /\ Adds(s[13], L2Key(<<0, "lumos">>)) /\ Adds(s[14], L2Key(<<1, "lumos">>))
          /\ Adds(s[15], L2Key(<<2, "lumos">>))
      BY <1>3
    <3>2. 13 \in 1 .. 21 /\ 14 \in 1 .. 21 /\ 15 \in 1 .. 21
      OBVIOUS
    <3>3. QED BY <2>3, <3>1, <3>2
  <2>7. /\ s[i].key = L2Key(<<0, "caelus">>) => i = 16
        /\ s[i].key = L2Key(<<1, "caelus">>) => i = 17
        /\ s[i].key = L2Key(<<2, "caelus">>) => i = 18
        /\ s[i].key = L2Key(<<2, "receiver">>) => i = 19
    <3>1. /\ Adds(s[16], L2Key(<<0, "caelus">>)) /\ Adds(s[17], L2Key(<<1, "caelus">>))
          /\ Adds(s[18], L2Key(<<2, "caelus">>)) /\ Adds(s[19], L2Key(<<2, "receiver">>))
      BY <1>3
    <3>2. 16 \in 1 .. 21 /\ 17 \in 1 .. 21 /\ 18 \in 1 .. 21 /\ 19 \in 1 .. 21
      OBVIOUS
    <3>3. QED BY <2>3, <3>1, <3>2
  <2>8. /\ s[i].key = NodeKey(0) => i = 20
        /\ s[i].key = GroupKey => i = 21
    BY <2>3, <1>3
  <2>9. s[i].key # L2Key(<<0, "receiver">>)
    BY <2>1 DEF L2Key
  <2>10. QED BY <2>2, <2>4, <2>5, <2>6, <2>7, <2>8, <2>9 DEF TopoRoute
<1>7. RoutesOf("topo", <<>>, s)
  BY <1>1, <1>2, <1>4, <1>5, <1>6 DEF RoutesOf, Route
<1>8. \A key \in Required("topo") : \E i \in 1 .. 21 : Adds(s[i], key)
  <2>1. Required("topo") = {PortKey(36), PortKey(56), PortKey(128), PortKey(136), PortKey(160),
            PortKey(168), MdKey(36), MdKey(56), MdKey(136), MdKey(168),
            L2Key(<<0, "lumos">>), L2Key(<<1, "lumos">>), L2Key(<<2, "lumos">>),
            L2Key(<<0, "caelus">>), L2Key(<<1, "caelus">>), L2Key(<<2, "caelus">>),
            L2Key(<<2, "receiver">>), GroupKey, NodeKey(0)}
    BY DEF Required, CheckedPorts
  <2>2. QED BY <2>1, <1>3
<1>9. Completes("topo", <<>>, s, speed)
  BY <1>1, <1>2, <1>4, <1>8 DEF Completes
<1>10. QED BY <1>7, <1>9

-----------------------------------------------------------------------------
\* The routes of the switches, and what is still to be added to them.

\* Before the first call, all routes are still to be added.
LEMMA RouteInvInit ==
    TestbedInit => RouteInv
<1> SUFFICES ASSUME TestbedInit PROVE RouteInv
  OBVIOUS
<1>1. PICK speed \in SetupSpeeds :
        /\ todo = [sw \in Switches |-> Setup(sw, speed)]
        /\ entries = [sw \in Switches |-> <<>>]
        /\ operator = [speed |-> speed, asked |-> 0, answers |-> NoAnswers,
                       allUp |-> FALSE, early |-> {}]
  BY DEF TestbedInit
<1>2. operator.speed = speed
  BY <1>1
<1>3. ASSUME NEW sw \in Switches
      PROVE  RoutesOf(sw, entries[sw], todo[sw]) /\ Completes(sw, entries[sw], todo[sw], speed)
  <2>1. todo[sw] = Setup(sw, speed) /\ entries[sw] = <<>>
    BY <1>1
  <2>2. CASE sw = "sender"
    <3>1. todo[sw] = SenderCalls(speed)
      BY <2>1, <2>2, SenderListed DEF Setup, SenderSetup10g
    <3>2. QED BY <3>1, <2>1, <2>2, SenderRoutes
  <2>3. CASE sw = "receiver"
    <3>1. todo[sw] = ReceiverCalls(speed)
      BY <2>1, <2>3, ReceiverListed DEF Setup, ReceiverSetup10g
    <3>2. QED BY <3>1, <2>1, <2>3, ReceiverRoutes
  <2>4. CASE sw = "topo"
    <3>1. todo[sw] = TopoCalls(speed)
      BY <2>1, <2>4, TopoListed DEF Setup, TopoSetup10g
    <3>2. QED BY <3>1, <2>1, <2>4, TopoRoutes
  <2>5. QED BY <2>2, <2>3, <2>4 DEF Switches
<1>4. QED BY <1>2, <1>3 DEF RouteInv

\* Entries that a frame needs, of a switch that is not disturbed, stay.
NeededStay ==
    \A sw \in Switches \ disturbed : Required(sw) \cap DOMAIN entries[sw] \subseteq DOMAIN entries'[sw]

\* A shell that stops leaves the routes it has added.
LEMMA StoppedRoutes ==
    ASSUME RouteInv, ShellsInv, NEW sw \in Switches, todo' = [todo EXCEPT ![sw] = <<>>],
           entries' = entries, operator' = operator,
           sw \in disturbed', disturbed \subseteq disturbed'
    PROVE  RouteInv' /\ NeededStay
<1>1. todo'[sw] = <<>> /\ \A x \in Switches \ {sw} : todo'[x] = todo[x]
  BY DEF ShellsInv
<1>2. ASSUME NEW x \in Switches PROVE RoutesOf(x, entries[x], todo'[x])
  BY <1>1, IdleRoutes DEF RouteInv
<1>3. ASSUME NEW x \in Switches \ disturbed'
      PROVE  Completes(x, entries[x], todo'[x], operator.speed)
  BY <1>1 DEF RouteInv
<1>4. QED BY <1>2, <1>3 DEF RouteInv, NeededStay

\* A call adds a route in its order, or is about something else.
LEMMA CallRoutes ==
    ASSUME TestbedInv, RouteInv, NEW sw \in Switches, Call(sw)
    PROVE  RouteInv' /\ NeededStay
<1> DEFINE T == entries[sw]
           s == todo[sw]
<1>1. ShellsInv /\ SpeedInv /\ UndisturbedInv
  BY DEF TestbedInv
<1>2. operator' = operator /\ disturbed' = disturbed
  BY DEF Call
<1>3. Script(s) /\ Settles(s) /\ s # <<>>
  BY <1>1 DEF ShellsInv, Call
<1>4. CASE /\ Refused(sw, s[1])
           /\ todo' = [todo EXCEPT ![sw] = <<>>]
           /\ entries' = entries
  <2>1. sw \in disturbed
    <3>1. Declined(T, s[1])
      BY <1>4 DEF Refused, Declined
    <3>2. Accepted(T, s) => ~ Declined(T, s[1])
      <4> HIDE DEF s, T
      <4>1. QED BY <1>3, AcceptedTail
    <3>3. QED BY <3>1, <3>2, <1>1 DEF UndisturbedInv
  <2>2. QED BY <2>1, <1>1, <1>2, <1>4, StoppedRoutes
<1>5. CASE Proceeds(T, s, entries'[sw], todo'[sw]) /\ OthersStay(sw)
  <2> DEFINE T2 == entries'[sw]
             R == todo'[sw]
  <2>0. /\ Proceeds(T, s, T2, R)
        /\ \A x \in Switches \ {sw} : todo'[x] = todo[x] /\ entries'[x] = entries[x]
    BY <1>5 DEF OthersStay
  <2>1. RoutesOf(sw, T, s) /\ Speeds(sw, s, operator.speed)
    BY <1>1 DEF RouteInv, SpeedInv
  <2>2. sw \notin disturbed => Completes(sw, T, s, operator.speed)
    BY DEF RouteInv
  <2>3. RoutesOf(sw, T2, R)
    <3> HIDE DEF T, s, T2, R
    <3>1. QED BY <2>0, <2>1, RoutesStep
  <2>4. sw \notin disturbed =>
            Completes(sw, T2, R, operator.speed) /\ Required(sw) \cap DOMAIN T \subseteq DOMAIN T2
    <3> HIDE DEF T, s, T2, R
    <3>1. QED BY <2>0, <2>1, <2>2, CompletesStep
  <2>5. \A x \in Switches : RoutesOf(x, entries'[x], todo'[x])
    BY <2>0, <2>3 DEF RouteInv
  <2>6. \A x \in Switches \ disturbed : Completes(x, entries'[x], todo'[x], operator.speed)
    BY <2>0, <2>4 DEF RouteInv
  <2>7. NeededStay
    BY <2>0, <2>4 DEF NeededStay
  <2>8. QED BY <2>5, <2>6, <2>7, <1>2 DEF RouteInv
<1>6. \/ Refused(sw, s[1]) /\ todo' = [todo EXCEPT ![sw] = <<>>] /\ entries' = entries
      \/ Proceeds(T, s, entries'[sw], todo'[sw]) /\ OthersStay(sw)
  BY CallMade
<1>7. QED BY <1>4, <1>5, <1>6

\* The calls for another number of copies are not about routes.
LEMMA CopiesRoutes ==
    ASSUME TestbedInv, RouteInv, SetNumberOfRetxCopies
    PROVE  RouteInv' /\ NeededStay
<1> DEFINE T == entries["sender"]
<1>1. ShellsInv
  BY DEF TestbedInv
<1>2. PICK n \in Copies : /\ SetUp
                          /\ todo' = [todo EXCEPT !["sender"] = RetxCalls(RetxCopies, n)]
                          /\ UNCHANGED <<entries, operator, disturbed>>
  BY DEF SetNumberOfRetxCopies
<1>3. n \in Nat
  BY TestbedAssumption
<1>4. "sender" \in Switches
  BY DEF Switches
<1>5. \A x \in Switches : todo[x] = <<>>
  BY <1>2 DEF SetUp
<1> DEFINE c == RetxCopies
           s == todo'["sender"]
<1>6. c \in Nat
  <2>1. RetxInv /\ UndisturbedInv
    BY DEF TestbedInv
  <2>2. QED BY <2>1, <1>1, <1>4, <1>5, CopiesCounted
<1>7. s = RetxCalls(c, n) /\ \A x \in Switches \ {"sender"} : todo'[x] = todo[x]
  BY <1>1, <1>2, <1>4 DEF ShellsInv
<1>8. RoutesOf("sender", T, <<>>)
  BY <1>4, <1>5 DEF RouteInv
<1>9. "sender" \notin disturbed => Completes("sender", T, <<>>, operator.speed)
  BY <1>4, <1>5 DEF RouteInv
<1> HIDE DEF T, c, s
<1>10. ASSUME NEW i \in 1 .. Len(s) PROVE s[i].key[1] \in {"retx", "node", "group"}
  <2>1. CASE n = c
    <3>1. s = <<>>
      BY <2>1, <1>7 DEF RetxCalls
    <3>2. \A j \in 1 .. Len(<<>>) : FALSE
      OBVIOUS
    <3>3. QED BY <3>1, <3>2, <1>10
  <2>2. CASE n # c
    <3>1. Recopies(s, c, n)
      BY <2>2, <1>3, <1>6, <1>7, RetxRecopies
    <3>2. \/ s[i] = Clear("retx", 32)
          \/ \E k : s[i] = Delete("node", k)
          \/ s[i] = Delete("group", 1)
          \/ \E k, d : s[i] = Add("node", k, d)
          \/ \E d : s[i] = Add("group", 1, d)
          \/ \E d : s[i] = Add("retx", 32, d)
      BY <3>1, <1>10 DEF Recopies, RetxCall
    <3>3. s[i].key = RetxKey \/ s[i].key = GroupKey \/ \E k : s[i].key = NodeKey(k)
      BY <3>2, RetxCallKeys
    <3>4. QED BY <3>3 DEF RetxKey, GroupKey, NodeKey
  <2>3. QED BY <2>1, <2>2
<1>11. RoutesOf("sender", T, s)
  BY <1>4, <1>8, <1>10, RoutesUntouched
<1>12. "sender" \notin disturbed => Completes("sender", T, s, operator.speed)
  <2>1. ASSUME NEW key \in Required("sender") PROVE key[1] \in {"port", "l2"}
    BY <2>1 DEF Required, PortKey, L2Key
  <2>2. \A i \in 1 .. Len(s) : s[i].key \notin Required("sender")
    BY <2>1, <1>10
  <2>3. \A i \in 1 .. Len(<<>>) : FALSE
    OBVIOUS
  <2>4. QED BY <2>2, <2>3, <1>9 DEF Completes
<1>13. \A x \in Switches : RoutesOf(x, entries[x], todo'[x])
  BY <1>7, <1>11 DEF RouteInv, T, s
<1>14. \A x \in Switches \ disturbed : Completes(x, entries[x], todo'[x], operator.speed)
  BY <1>7, <1>12 DEF RouteInv, T, s
<1>15. QED BY <1>2, <1>13, <1>14 DEF RouteInv, NeededStay

\* Neither are those for another speed; while they are made, nothing is sure.
LEMMA SpeedsRoutes ==
    ASSUME RouteInv, ChangeLinkSpeeds
    PROVE  RouteInv' /\ disturbed' # {}
<1>1. PICK speed \in NewSpeeds :
        /\ SetUp
        /\ todo' = [sw \in Switches |-> ModifyPorts(SpeedPorts(sw), speed)]
        /\ disturbed' = disturbed \cup Switches
        /\ entries' = entries
  BY DEF ChangeLinkSpeeds
<1>2. ASSUME NEW sw \in Switches PROVE RoutesOf(sw, entries[sw], todo'[sw])
  <2> DEFINE s == todo'[sw]
  <2>1. s = ModifyPorts(SpeedPorts(sw), speed)
    BY <1>1
  <2> HIDE DEF s
  <2>2. \A i \in 1 .. Len(s) : \E p : s[i].key = PortKey(p)
    BY <2>1, PortsModified
  <2>3. \A i \in 1 .. Len(s) : s[i].key[1] = "port"
    BY <2>2 DEF PortKey
  <2>4. RoutesOf(sw, entries[sw], <<>>)
    BY <1>1 DEF RouteInv, SetUp
  <2>5. RoutesOf(sw, entries[sw], s)
    BY <2>3, <2>4, RoutesUntouched
  <2>6. QED BY <2>5 DEF s
<1>3. Switches \ disturbed' = {} /\ disturbed' # {}
  BY <1>1 DEF Switches
<1>4. QED BY <1>1, <1>2, <1>3 DEF RouteInv

\* Frames and checks leave the routes as they are.
LEMMA RoutesOnlyRead ==
    ASSUME RouteInv, UNCHANGED <<todo, entries, disturbed>>, operator'.speed = operator.speed
    PROVE  RouteInv' /\ NeededStay
BY DEF RouteInv, NeededStay

\* Nothing is missing that a frame needs.
AllThere ==
    /\ disturbed = {}
    /\ \A sw \in Switches : Required(sw) \subseteq DOMAIN entries[sw]

\* Where a frame comes in that leaves by a port, unless it is gone.
Onward(sw, p, next) ==
    Beyond(sw, p) \in {Gone, next} /\ (AllThere => Beyond(sw, p) = next)

\* No port that frames leave by for another switch is looped back.
LEMMA NoLoops ==
    ASSUME RouteInv
    PROVE  /\ \A p \in {32, 36} : ~ Has("sender", "loopback", p)
           /\ \A p \in {36, 52} : ~ Has("receiver", "loopback", p)
           /\ \A p \in {36, 56, 128, 136, 160, 168} : ~ Has("topo", "loopback", p)
<1>1. "sender" \in Switches /\ "receiver" \in Switches /\ "topo" \in Switches
  BY DEF Switches
<1>2. /\ \A key \in DOMAIN entries["sender"] : SenderRoute(key, entries["sender"][key])
      /\ \A key \in DOMAIN entries["receiver"] : ReceiverRoute(key, entries["receiver"][key])
      /\ \A key \in DOMAIN entries["topo"] : TopoRoute(key, entries["topo"][key])
  BY <1>1 DEF RouteInv, RoutesOf, Route
<1>3. \A p \in {32, 36} : ~ Has("sender", "loopback", p)
  BY <1>2 DEF SenderRoute, Has
<1>4. \A p \in {36, 52} : ~ Has("receiver", "loopback", p)
  BY <1>2 DEF ReceiverRoute, Has
<1>5. \A p \in {36, 56, 128, 136, 160, 168} : ~ Has("topo", "loopback", p)
  BY <1>2 DEF TopoRoute, Has
<1>6. QED BY <1>3, <1>4, <1>5

\* When nothing is missing, every port that is checked has its speed.
LEMMA PortsThere ==
    ASSUME RouteInv, AllThere, NEW sw \in Switches, NEW p \in CheckedPorts(sw)
    PROVE  Has(sw, "port", p) /\ Get(sw, "port", p) = operator.speed
<1>1. PortKey(p) \in DOMAIN entries[sw]
  BY DEF AllThere, Required
<1>2. Completes(sw, entries[sw], todo[sw], operator.speed)
  BY DEF AllThere, RouteInv
<1>3. QED BY <1>1, <1>2 DEF Completes, Has, Get, PortKey

\* A frame that leaves by a cable comes in at its other end.
LEMMA OnwardByCable ==
    ASSUME RouteInv, NEW sw \in Switches, NEW p \in CheckedPorts(sw),
           NEW sw2 \in Switches, NEW p2 \in CheckedPorts(sw2),
           <<sw, p>> \in DOMAIN PeerOf, PeerOf[<<sw, p>>] = <<sw2, p2>>,
           ~ Has(sw, "loopback", p)
    PROVE  Onward(sw, p, <<sw2, p2>>)
<1>1. Beyond(sw, p) \in {Gone, <<sw2, p2>>} /\ (PortUp(sw, p) => Beyond(sw, p) = <<sw2, p2>>)
  BY DEF Beyond
<1>2. ASSUME AllThere PROVE PortUp(sw, p)
  BY <1>2, PortsThere DEF PortUp
<1>3. QED BY <1>1, <1>2 DEF Onward

\* Where frames get from every port they are sent to.
LEMMA OnwardIs ==
    ASSUME RouteInv
    PROVE  /\ Onward("sender", 32, <<"receiver", 36>>)
           /\ Onward("sender", 36, <<"topo", 36>>)
           /\ Onward("receiver", 36, <<"sender", 32>>)
           /\ Onward("receiver", 44, <<"receiver", 44>>)
           /\ Onward("receiver", 52, <<"topo", 56>>)
           /\ Onward("topo", 36, <<"sender", 36>>)
           /\ Onward("topo", 56, <<"receiver", 52>>)
           /\ Onward("topo", 128, <<"topo", 136>>)
           /\ Onward("topo", 136, <<"topo", 128>>)
           /\ Onward("topo", 160, <<"host", "lumos">>)
           /\ Onward("topo", 168, <<"host", "caelus">>)
<1>1. "sender" \in Switches /\ "receiver" \in Switches /\ "topo" \in Switches
  BY DEF Switches
<1>2. /\ CheckedPorts("sender") = {32, 36} /\ CheckedPorts("receiver") = {36, 52}
      /\ CheckedPorts("topo") = {36, 56, 128, 136, 160, 168}
  BY DEF CheckedPorts
<1>3. /\ Onward("sender", 32, <<"receiver", 36>>) /\ Onward("sender", 36, <<"topo", 36>>)
  BY <1>1, <1>2, NoLoops, PeersAre, OnwardByCable
<1>4. /\ Onward("receiver", 36, <<"sender", 32>>) /\ Onward("receiver", 52, <<"topo", 56>>)
  BY <1>1, <1>2, NoLoops, PeersAre, OnwardByCable
<1>5. /\ Onward("topo", 36, <<"sender", 36>>) /\ Onward("topo", 56, <<"receiver", 52>>)
  BY <1>1, <1>2, NoLoops, PeersAre, OnwardByCable
<1>6. /\ Onward("topo", 128, <<"topo", 136>>) /\ Onward("topo", 136, <<"topo", 128>>)
  BY <1>1, <1>2, NoLoops, PeersAre, OnwardByCable
<1>7. Onward("receiver", 44, <<"receiver", 44>>)
  <2>1. <<"receiver", 44>> \notin DOMAIN PeerOf /\ <<"receiver", 44>> \notin DOMAIN HostAt
    BY PeersAre, HostsAre
  <2>2. Beyond("receiver", 44) \in {Gone, <<"receiver", 44>>}
    BY <2>1 DEF Beyond
  <2>3. ASSUME AllThere PROVE Has("receiver", "port", 44) /\ Has("receiver", "loopback", 44)
    <3>1. PortKey(44) \in Required("receiver") /\ <<"loopback", 44>> \in Required("receiver")
      BY DEF Required
    <3>2. QED BY <3>1, <2>3, <1>1 DEF AllThere, Has, PortKey
  <2>4. AllThere => Beyond("receiver", 44) = <<"receiver", 44>>
    BY <2>1, <2>3 DEF Beyond, PortUp
  <2>5. QED BY <2>2, <2>4 DEF Onward
<1>8. ASSUME NEW p \in {160, 168} PROVE Onward("topo", p, HostAt[<<"topo", p>>])
  <2>1. <<"topo", p>> \notin DOMAIN PeerOf /\ <<"topo", p>> \in DOMAIN HostAt
    BY PeersAre, HostsAre
  <2>2. ~ Has("topo", "loopback", p)
    BY NoLoops
  <2>3. /\ Beyond("topo", p) \in {Gone, HostAt[<<"topo", p>>]}
        /\ Has("topo", "port", p) => Beyond("topo", p) = HostAt[<<"topo", p>>]
    BY <2>1, <2>2 DEF Beyond, PortUp
  <2>4. QED BY <2>3, <1>1, <1>2, PortsThere DEF Onward
<1>9. Onward("topo", 160, <<"host", "lumos">>) /\ Onward("topo", 168, <<"host", "caelus">>)
  BY <1>8, HostsAre
<1>10. QED BY <1>3, <1>4, <1>5, <1>6, <1>7, <1>9

-----------------------------------------------------------------------------
(***************************************************************************)
(* From port to port.  A switch that does not know the emulated switch of  *)
(* a port, or the filter, has no route that would lead a frame astray.     *)
(***************************************************************************)

\* Where the copies of a frame come in that a switch forwards.
Outs(sw, port, to) == {Beyond(sw, p) : p \in EgressPorts(sw, port, to)}

Hop(sw, port, to, next) ==
    /\ Outs(sw, port, to) \subseteq {Gone, next}
    /\ AllThere => Outs(sw, port, to) = {next}

\* A switch that sends a frame to one port only.
LEMMA HopByPort ==
    ASSUME NEW sw, NEW port, NEW to, NEW q, NEW next, Onward(sw, q, next),
           EgressPorts(sw, port, to) \subseteq {q}, AllThere => q \in EgressPorts(sw, port, to)
    PROVE  Hop(sw, port, to, next)
BY DEF Hop, Outs, Onward

\* The entries for a frame lead to a port.
Leads(sw, key, q) ==
    /\ key \in DOMAIN entries[sw] => entries[sw][key] = q
    /\ AllThere => key \in DOMAIN entries[sw]

\* The sender forwards by address alone.
LEMMA HopBySender ==
    ASSUME NEW port, NEW to, NEW q, NEW next, Onward("sender", q, next),
           Leads("sender", L2Key(To(to)), q)
    PROVE  Hop("sender", port, to, next)
<1>1. EgressPorts("sender", port, to) = {Get("sender", "l2", k) : k \in
            {j \in {To(to)} : Has("sender", "l2", j)}}
  BY DEF EgressPorts
<1>2. /\ EgressPorts("sender", port, to) \subseteq {q}
      /\ AllThere => q \in EgressPorts("sender", port, to)
  BY <1>1 DEF Leads, Has, Get, L2Key
<1>3. QED BY <1>2, HopByPort

\* A port of the receiver at which frames are not filtered.
LEMMA HopByReceiver ==
    ASSUME NEW port, NEW to, NEW q, NEW next, Onward("receiver", q, next),
           Has("receiver", "port_md", port) => ~ Get("receiver", "port_md", port).filter,
           Leads("receiver", L2Key(To(to)), q)
    PROVE  Hop("receiver", port, to, next)
<1> DEFINE md == IF Has("receiver", "port_md", port) THEN Get("receiver", "port_md", port)
                 ELSE [filter |-> FALSE]
<1>1. ~ md.filter
  OBVIOUS
<1>2. EgressPorts("receiver", port, to) =
            IF md.filter THEN {md.lpbk}
            ELSE {Get("receiver", "l2", k) : k \in {j \in {To(to)} : Has("receiver", "l2", j)}}
  BY DEF EgressPorts
<1> HIDE DEF md
<1>3. EgressPorts("receiver", port, to) =
            {Get("receiver", "l2", k) : k \in {j \in {To(to)} : Has("receiver", "l2", j)}}
  BY <1>1, <1>2
<1>4. /\ EgressPorts("receiver", port, to) \subseteq {q}
      /\ AllThere => q \in EgressPorts("receiver", port, to)
  BY <1>3 DEF Leads, Has, Get, L2Key
<1>5. QED BY <1>4, HopByPort

\* The port of the protected link, whose frames are filtered first.
LEMMA HopByFilter ==
    ASSUME NEW to, NEW next, Onward("receiver", 44, next),
           LET T == entries["receiver"]
           IN  /\ MdKey(36) \in DOMAIN T => T[MdKey(36)] = PortMd(TRUE, FALSE)
               /\ L2Key(To(to)) \in DOMAIN T => MdKey(36) \in DOMAIN T,
           AllThere => MdKey(36) \in DOMAIN entries["receiver"]
    PROVE  Hop("receiver", 36, to, next)
<1>1. CASE Has("receiver", "port_md", 36)
  <2> DEFINE md == Get("receiver", "port_md", 36)
  <2>1. md = PortMd(TRUE, FALSE)
    BY <1>1 DEF Has, Get, MdKey
  <2>2. md.filter /\ md.lpbk = 44
    BY <2>1 DEF PortMd
  <2> HIDE DEF md
  <2>3. EgressPorts("receiver", 36, to) = IF md.filter THEN {md.lpbk} ELSE
            {Get("receiver", "l2", k) : k \in {j \in {To(to)} : Has("receiver", "l2", j)}}
    BY <1>1 DEF EgressPorts, md
  <2>4. EgressPorts("receiver", 36, to) = {44}
    BY <2>2, <2>3
  <2>5. QED BY <2>4, HopByPort
<1>2. CASE ~ Has("receiver", "port_md", 36)
  <2>1. ~ Has("receiver", "l2", To(to)) /\ ~ AllThere
    BY <1>2 DEF Has, MdKey, L2Key
  <2> DEFINE md == [filter |-> FALSE]
  <2>2. ~ md.filter
    OBVIOUS
  <2> HIDE DEF md
  <2>3. EgressPorts("receiver", 36, to) = IF md.filter THEN {md.lpbk} ELSE
            {Get("receiver", "l2", k) : k \in {j \in {To(to)} : Has("receiver", "l2", j)}}
    BY <1>2 DEF EgressPorts, md
  <2>4. EgressPorts("receiver", 36, to) = {}
    BY <2>1, <2>2, <2>3
  <2>5. QED BY <2>1, <2>4, HopByPort
<1>3. QED BY <1>1, <1>2

\* A port of one of the emulated switches.
LEMMA HopByTopo ==
    ASSUME NEW port, NEW to, to # "all", NEW id, NEW q, NEW next, Onward("topo", q, next),
           LET T == entries["topo"]
           IN  /\ MdKey(port) \in DOMAIN T => T[MdKey(port)] = id
               /\ id # 0 /\ L2Key(<<0, to>>) \in DOMAIN T => MdKey(port) \in DOMAIN T,
           AllThere /\ id # 0 => MdKey(port) \in DOMAIN entries["topo"],
           Leads("topo", L2Key(<<id, to>>), q)
    PROVE  Hop("topo", port, to, next)
<1> DEFINE i == IF Has("topo", "port_md", port) THEN Get("topo", "port_md", port) ELSE 0
<1>1. EgressPorts("topo", port, to) =
            {Get("topo", "l2", k) : k \in {j \in {<<i, to>>} : Has("topo", "l2", j)}}
  BY DEF EgressPorts
<1>2. CASE Has("topo", "port_md", port) \/ id = 0
  <2>1. i = id
    BY <1>2 DEF Has, Get, MdKey
  <2> HIDE DEF i
  <2>2. /\ EgressPorts("topo", port, to) \subseteq {q}
        /\ AllThere => q \in EgressPorts("topo", port, to)
    BY <1>1, <2>1 DEF Leads, Has, Get, L2Key
  <2>3. QED BY <2>2, HopByPort
<1>3. CASE ~ (Has("topo", "port_md", port) \/ id = 0)
  <2>1. i = 0 /\ ~ Has("topo", "l2", <<0, to>>) /\ ~ AllThere
    BY <1>3 DEF Has, MdKey, L2Key
  <2> HIDE DEF i
  <2>2. EgressPorts("topo", port, to) = {}
    BY <1>1, <2>1
  <2>3. QED BY <2>1, <2>2, HopByPort
<1>4. QED BY <1>2, <1>3

\* What the invariant says of the entries for frames.
LEMMA RoutesLead ==
    ASSUME RouteInv
    PROVE  /\ Leads("sender", L2Key(To("lumos")), 36)
           /\ Leads("sender", L2Key(To("caelus")), 32)
           /\ Leads("sender", L2Key(To("receiver")), 32)
           /\ Leads("receiver", L2Key(To("lumos")), 36)
           /\ Leads("receiver", L2Key(To("caelus")), 52)
           /\ Leads("receiver", L2Key(To("receiver")), 52)
           /\ Leads("receiver", MdKey(36), PortMd(TRUE, FALSE))
           /\ Leads("topo", L2Key(<<0, "lumos">>), 160)
           /\ Leads("topo", L2Key(<<1, "lumos">>), 136)
           /\ Leads("topo", L2Key(<<2, "lumos">>), 56)
           /\ Leads("topo", L2Key(<<0, "caelus">>), 128)
           /\ Leads("topo", L2Key(<<1, "caelus">>), 36)
           /\ Leads("topo", L2Key(<<2, "caelus">>), 168)
           /\ Leads("topo", L2Key(<<2, "receiver">>), 168)
           /\ Leads("topo", MdKey(36), 1) /\ Leads("topo", MdKey(136), 1)
           /\ Leads("topo", MdKey(56), 2) /\ Leads("topo", MdKey(168), 2)
           /\ Leads("topo", GroupKey, {0}) /\ Leads("topo", NodeKey(0), {160, 168})
<1>1. "sender" \in Switches /\ "receiver" \in Switches /\ "topo" \in Switches
  BY DEF Switches
<1>2. /\ \A key \in DOMAIN entries["sender"] : SenderRoute(key, entries["sender"][key])
      /\ \A key \in DOMAIN entries["receiver"] : ReceiverRoute(key, entries["receiver"][key])
      /\ \A key \in DOMAIN entries["topo"] : TopoRoute(key, entries["topo"][key])
  BY <1>1 DEF RouteInv, RoutesOf, Route
<1>3. \A sw \in Switches : \A key \in Required(sw) : AllThere => key \in DOMAIN entries[sw]
  BY DEF AllThere
<1>4. /\ {L2Key(To("lumos")), L2Key(To("caelus")), L2Key(To("receiver"))} \subseteq Required("sender")
      /\ {MdKey(36), L2Key(To("lumos")), L2Key(To("caelus")), L2Key(To("receiver"))}
            \subseteq Required("receiver")
      /\ {MdKey(36), MdKey(56), MdKey(136), MdKey(168),
          L2Key(<<0, "lumos">>), L2Key(<<1, "lumos">>), L2Key(<<2, "lumos">>),
          L2Key(<<0, "caelus">>), L2Key(<<1, "caelus">>), L2Key(<<2, "caelus">>),
          L2Key(<<2, "receiver">>), GroupKey, NodeKey(0)} \subseteq Required("topo")
  BY DEF Required
<1>5. /\ Leads("sender", L2Key(To("lumos")), 36)
      /\ Leads("sender", L2Key(To("caelus")), 32)
      /\ Leads("sender", L2Key(To("receiver")), 32)
  BY <1>1, <1>2, <1>3, <1>4 DEF Leads, SenderRoute
<1>6. /\ Leads("receiver", L2Key(To("lumos")), 36)
      /\ Leads("receiver", L2Key(To("caelus")), 52)
      /\ Leads("receiver", L2Key(To("receiver")), 52)
      /\ Leads("receiver", MdKey(36), PortMd(TRUE, FALSE))
  BY ZenonT(40), <1>1, <1>2, <1>3, <1>4 DEF Leads, ReceiverRoute
<1>7. ASSUME NEW key \in {L2Key(<<0, "lumos">>), L2Key(<<1, "lumos">>), L2Key(<<2, "lumos">>),
          L2Key(<<0, "caelus">>), L2Key(<<1, "caelus">>), L2Key(<<2, "caelus">>),
          L2Key(<<2, "receiver">>), GroupKey, NodeKey(0), MdKey(36), MdKey(56),
          MdKey(136), MdKey(168)}
      PROVE  AllThere => key \in DOMAIN entries["topo"]
  BY <1>1, <1>3, <1>4
<1>8. /\ Leads("topo", L2Key(<<0, "lumos">>), 160)
      /\ Leads("topo", L2Key(<<1, "lumos">>), 136)
      /\ Leads("topo", L2Key(<<2, "lumos">>), 56)
      /\ Leads("topo", L2Key(<<0, "caelus">>), 128)
      /\ Leads("topo", L2Key(<<1, "caelus">>), 36)
      /\ Leads("topo", L2Key(<<2, "caelus">>), 168)
      /\ Leads("topo", L2Key(<<2, "receiver">>), 168)
  BY <1>2, <1>7 DEF Leads, TopoRoute
<1>9. /\ Leads("topo", MdKey(36), 1) /\ Leads("topo", MdKey(136), 1)
      /\ Leads("topo", MdKey(56), 2) /\ Leads("topo", MdKey(168), 2)
      /\ Leads("topo", GroupKey, {0}) /\ Leads("topo", NodeKey(0), {160, 168})
  BY <1>2, <1>7 DEF Leads, TopoRoute
<1>10. QED BY <1>5, <1>6, <1>8, <1>9

\* Entries that come in order.
LEMMA RoutesBehind ==
    ASSUME RouteInv
    PROVE  LET R == entries["receiver"]
               T == entries["topo"]
           IN  /\ L2Key(To("caelus")) \in DOMAIN R => MdKey(36) \in DOMAIN R
               /\ L2Key(To("receiver")) \in DOMAIN R => MdKey(36) \in DOMAIN R
               /\ \A p \in {36, 56, 136, 168} : \A to \in Hosts :
                    L2Key(<<0, to>>) \in DOMAIN T => MdKey(p) \in DOMAIN T
               /\ L2Key(<<0, "receiver">>) \notin DOMAIN T
               /\ GroupKey \in DOMAIN T => NodeKey(0) \in DOMAIN T
               /\ \A p \in {128, 160} : MdKey(p) \in DOMAIN T => T[MdKey(p)] = 0
               /\ MdKey(44) \in DOMAIN R => R[MdKey(44)] = PortMd(FALSE, TRUE)
               /\ MdKey(52) \notin DOMAIN R
<1>1. "receiver" \in Switches /\ "topo" \in Switches
  BY DEF Switches
<1>2. /\ \A key \in DOMAIN entries["receiver"] : ReceiverRoute(key, entries["receiver"][key])
      /\ \A key \in DOMAIN entries["topo"] : TopoRoute(key, entries["topo"][key])
  BY <1>1 DEF RouteInv, RoutesOf, Route
<1>3. \A sw \in Switches : \A b \in Behind(sw) :
            b[1] \in DOMAIN entries[sw] => b[2] \in DOMAIN entries[sw]
  BY DEF RouteInv, RoutesOf
<1>4. /\ <<L2Key(To("caelus")), MdKey(36)>> \in Behind("receiver")
      /\ <<L2Key(To("receiver")), MdKey(36)>> \in Behind("receiver")
      /\ <<GroupKey, NodeKey(0)>> \in Behind("topo")
  BY DEF Behind
<1>5. ASSUME NEW p \in {36, 56, 136, 168}, NEW to \in Hosts
      PROVE  <<L2Key(<<0, to>>), MdKey(p)>> \in Behind("topo")
  BY DEF Behind, Hosts
<1>6. ASSUME NEW p \in {36, 56, 136, 168}, NEW to \in Hosts, L2Key(<<0, to>>) \in DOMAIN entries["topo"]
      PROVE  MdKey(p) \in DOMAIN entries["topo"]
  <2> DEFINE b == <<L2Key(<<0, to>>), MdKey(p)>>
  <2>1. b \in Behind("topo") /\ b[1] = L2Key(<<0, to>>) /\ b[2] = MdKey(p)
    BY <1>5
  <2> HIDE DEF b
  <2>2. QED BY <2>1, <1>1, <1>3, <1>6
<1>7. /\ L2Key(To("caelus")) \in DOMAIN entries["receiver"] => MdKey(36) \in DOMAIN entries["receiver"]
      /\ L2Key(To("receiver")) \in DOMAIN entries["receiver"] => MdKey(36) \in DOMAIN entries["receiver"]
      /\ GroupKey \in DOMAIN entries["topo"] => NodeKey(0) \in DOMAIN entries["topo"]
  BY <1>1, <1>3, <1>4
<1>8. /\ L2Key(<<0, "receiver">>) \notin DOMAIN entries["topo"]
      /\ \A p \in {128, 160} : MdKey(p) \in DOMAIN entries["topo"] => entries["topo"][MdKey(p)] = 0
  BY <1>2 DEF TopoRoute
<1>9. /\ MdKey(44) \in DOMAIN entries["receiver"] => entries["receiver"][MdKey(44)] = PortMd(FALSE, TRUE)
      /\ MdKey(52) \notin DOMAIN entries["receiver"]
  BY <1>2 DEF ReceiverRoute
<1>10. QED BY <1>6, <1>7, <1>8, <1>9

\* The hops of the ways.
LEMMA HopsAre ==
    ASSUME RouteInv
    PROVE  /\ Hop("topo", 160, "caelus", <<"topo", 136>>)
           /\ Hop("topo", 136, "caelus", <<"sender", 36>>)
           /\ Hop("sender", 36, "caelus", <<"receiver", 36>>)
           /\ Hop("receiver", 36, "caelus", <<"receiver", 44>>)
           /\ Hop("receiver", 44, "caelus", <<"topo", 56>>)
           /\ Hop("topo", 56, "caelus", <<"host", "caelus">>)
           /\ Hop("topo", 168, "lumos", <<"receiver", 52>>)
           /\ Hop("receiver", 52, "lumos", <<"sender", 32>>)
           /\ Hop("sender", 32, "lumos", <<"topo", 36>>)
           /\ Hop("topo", 36, "lumos", <<"topo", 128>>)
           /\ Hop("topo", 128, "lumos", <<"host", "lumos">>)
           /\ Hop("sender", 68, "receiver", <<"receiver", 36>>)
           /\ Hop("receiver", 36, "receiver", <<"receiver", 44>>)
           /\ Hop("receiver", 44, "receiver", <<"topo", 56>>)
           /\ Hop("topo", 56, "receiver", <<"host", "caelus">>)
<1>1. "lumos" \in Hosts /\ "caelus" \in Hosts
  BY DEF Hosts
<1>2. /\ Hop("sender", 36, "caelus", <<"receiver", 36>>)
      /\ Hop("sender", 32, "lumos", <<"topo", 36>>)
      /\ Hop("sender", 68, "receiver", <<"receiver", 36>>)
  BY OnwardIs, RoutesLead, HopBySender
<1>3. ASSUME NEW to \in {"caelus", "receiver"}
      PROVE  Hop("receiver", 36, to, <<"receiver", 44>>)
  <2>1. Leads("receiver", MdKey(36), PortMd(TRUE, FALSE))
    BY RoutesLead
  <2>2. L2Key(To(to)) \in DOMAIN entries["receiver"] => MdKey(36) \in DOMAIN entries["receiver"]
    BY <1>3, RoutesBehind
  <2>3. QED BY <2>1, <2>2, OnwardIs, HopByFilter DEF Leads
<1>4. /\ Has("receiver", "port_md", 44) => ~ Get("receiver", "port_md", 44).filter
      /\ Has("receiver", "port_md", 52) => ~ Get("receiver", "port_md", 52).filter
  BY RoutesBehind DEF Has, Get, MdKey, PortMd
<1>5. /\ Hop("receiver", 44, "caelus", <<"topo", 56>>)
      /\ Hop("receiver", 44, "receiver", <<"topo", 56>>)
      /\ Hop("receiver", 52, "lumos", <<"sender", 32>>)
  BY <1>4, OnwardIs, RoutesLead, HopByReceiver
<1>6. ASSUME NEW p \in {36, 56, 136, 168}, NEW to \in Hosts \cup {"receiver"}, NEW id \in {1, 2},
             Leads("topo", MdKey(p), id), NEW q, Leads("topo", L2Key(<<id, to>>), q),
             NEW next, Onward("topo", q, next)
      PROVE  Hop("topo", p, to, next)
  <2>1. L2Key(<<0, to>>) \in DOMAIN entries["topo"] => MdKey(p) \in DOMAIN entries["topo"]
    BY RoutesBehind
  <2>2. id # 0 /\ to # "all"
    BY DEF Hosts
  <2>3. QED BY <1>6, <2>1, <2>2, HopByTopo DEF Leads
<1>7. /\ Hop("topo", 136, "caelus", <<"sender", 36>>)
      /\ Hop("topo", 56, "caelus", <<"host", "caelus">>)
  BY <1>1, <1>6, OnwardIs, RoutesLead
<1>8. /\ Hop("topo", 168, "lumos", <<"receiver", 52>>)
      /\ Hop("topo", 36, "lumos", <<"topo", 128>>)
      /\ Hop("topo", 56, "receiver", <<"host", "caelus">>)
  <2>1. Hop("topo", 168, "lumos", <<"receiver", 52>>)
    BY <1>1, <1>6, OnwardIs, RoutesLead
  <2>2. Hop("topo", 36, "lumos", <<"topo", 128>>)
    BY <1>1, <1>6, OnwardIs, RoutesLead
  <2>3. Hop("topo", 56, "receiver", <<"host", "caelus">>)
    BY ZenonT(40), <1>6, OnwardIs, RoutesLead
  <2>4. QED BY <2>1, <2>2, <2>3
<1>9. ASSUME NEW p \in {128, 160}, NEW to \in Hosts, NEW q, Leads("topo", L2Key(<<0, to>>), q),
             NEW next, Onward("topo", q, next)
      PROVE  Hop("topo", p, to, next)
  <2>1. MdKey(p) \in DOMAIN entries["topo"] => entries["topo"][MdKey(p)] = 0
    BY RoutesBehind
  <2>2. to # "all"
    BY DEF Hosts
  <2>3. QED BY <1>9, <2>1, <2>2, HopByTopo
<1>10. /\ Hop("topo", 160, "caelus", <<"topo", 136>>)
       /\ Hop("topo", 128, "lumos", <<"host", "lumos">>)
  BY <1>1, <1>9, OnwardIs, RoutesLead
<1>11. QED BY <1>2, <1>3, <1>5, <1>7, <1>8, <1>10

\* A frame for all.
LEMMA HopsToAll ==
    ASSUME RouteInv, NEW port
    PROVE  /\ Outs("topo", port, "all") \subseteq {Gone, <<"host", "lumos">>, <<"host", "caelus">>}
           /\ AllThere => Gone \notin Outs("topo", port, "all") /\ Outs("topo", port, "all") # {}
<1> DEFINE E == EgressPorts("topo", port, "all")
<1>1. E = IF Has("topo", "group", 1)
          THEN UNION {Get("topo", "node", n) : n \in Get("topo", "group", 1)} ELSE {}
  BY DEF EgressPorts
<1>2. CASE Has("topo", "group", 1)
  <2>1. Get("topo", "group", 1) = {0}
    BY <1>2, RoutesLead DEF Leads, Has, Get, GroupKey
  <2>2. Get("topo", "node", 0) = {160, 168}
    BY <1>2, RoutesLead, RoutesBehind DEF Leads, Has, Get, GroupKey, NodeKey
  <2> HIDE DEF E
  <2>3. E = {160, 168}
    BY <1>1, <1>2, <2>1, <2>2
  <2>4. Outs("topo", port, "all") = {Beyond("topo", 160), Beyond("topo", 168)}
    BY <2>3 DEF Outs, E
  <2>5. <<"host", "lumos">> # Gone /\ <<"host", "caelus">> # Gone
    BY DEF Gone
  <2>6. QED BY <2>4, <2>5, OnwardIs DEF Onward
<1>3. CASE ~ Has("topo", "group", 1)
  <2>1. ~ AllThere
    BY <1>3, RoutesLead DEF Leads, Has, GroupKey
  <2>2. Outs("topo", port, "all") = {}
    BY <1>1, <1>3 DEF Outs
  <2>3. QED BY <2>1, <2>2
<1>4. QED BY <1>2, <1>3

-----------------------------------------------------------------------------
\* A way is a way.
Way(to, way) ==
    /\ Len(way) \in Nat \ {0, 1}
    /\ \A i, j \in 1 .. Len(way) : way[i] = way[j] => i = j
    /\ \A i \in 1 .. Len(way) :
        /\ way[i] # Gone
        /\ way[i] \in OnTheWay <=> i < Len(way)
        /\ way[i][1] = "host" => i = Len(way) /\ to \in {way[i][2], "all", "receiver"}
        /\ way[i] = <<"host", "caelus">> =>
            \A j \in 1 .. i : way[j] = <<"receiver", 36>> =>
                \E k \in 1 .. i : way[k] = <<"receiver", 44>>

\* A frame that is forwarded goes on along a way.
Trip(to, way) ==
    \A n \in 1 .. Len(way) - 1 :
        /\ Outs(way[n][1], way[n][2], to) \subseteq
              {Gone} \cup {w[n + 1] : w \in {v \in Ways(to) :
                    n < Len(v) /\ \A i \in 1 .. n : v[i] = way[i]}}
        /\ AllThere => Gone \notin Outs(way[n][1], way[n][2], to)
                       /\ Outs(way[n][1], way[n][2], to) # {}

\* The ports at which frames are still to be forwarded.
LEMMA OnTheWayIs ==
    OnTheWay = {<<"sender", 32>>, <<"receiver", 36>>, <<"sender", 36>>, <<"topo", 36>>,
                <<"receiver", 52>>, <<"topo", 56>>, <<"topo", 128>>, <<"topo", 136>>,
                <<"topo", 160>>, <<"topo", 168>>, <<"sender", 68>>, <<"receiver", 44>>}
BY PeersAre, HostsAre DEF OnTheWay

\* A frame on its way is neither gone nor at a host.
LEMMA LocatedOnTheWay ==
    \A x : x \in OnTheWay => x # Gone /\ x[1] # "host" /\ x # <<"host", "caelus">>
BY OnTheWayIs DEF Gone

\* From lumos to caelus, over the protected link.
LEMMA ToCaelusIsWay == Way("caelus", ToCaelus)
<1> DEFINE w == ToCaelus
<1>1. /\ w[1] = <<"topo", 160>> /\ w[2] = <<"topo", 136>> /\ w[3] = <<"sender", 36>>
      /\ w[4] = <<"receiver", 36>> /\ w[5] = <<"receiver", 44>> /\ w[6] = <<"topo", 56>>
      /\ w[7] = <<"host", "caelus">> /\ Len(w) = 7
  BY DEF ToCaelus
<1> HIDE DEF w
<1>2. \A i, j \in 1 .. 7 : w[i] = w[j] => i = j
  BY <1>1
<1>3. \A i \in 1 .. 6 : w[i] \in OnTheWay
  BY <1>1, OnTheWayIs
<1>4. w[7] \notin OnTheWay /\ w[7] # Gone /\ w[7][1] = "host" /\ w[7][2] = "caelus"
  BY <1>1, LocatedOnTheWay DEF Gone
<1>5. \A i \in 1 .. 6 : w[i] # Gone /\ w[i][1] # "host" /\ w[i] # <<"host", "caelus">>
  BY <1>3, LocatedOnTheWay
<1>6. \A i \in 1 .. 7 : i \in 1 .. 6 \/ i = 7
  OBVIOUS
<1>7. 5 \in 1 .. 7 /\ w[5] = <<"receiver", 44>>
  BY <1>1
<1>8. QED BY <1>1, <1>2, <1>3, <1>4, <1>5, <1>6, <1>7 DEF Way, w

\* From caelus to lumos.
LEMMA ToLumosIsWay == Way("lumos", ToLumos)
<1> DEFINE w == ToLumos
<1>1. /\ w[1] = <<"topo", 168>> /\ w[2] = <<"receiver", 52>> /\ w[3] = <<"sender", 32>>
      /\ w[4] = <<"topo", 36>> /\ w[5] = <<"topo", 128>>
      /\ w[6] = <<"host", "lumos">> /\ Len(w) = 6
  BY DEF ToLumos
<1> HIDE DEF w
<1>2. \A i, j \in 1 .. 6 : w[i] = w[j] => i = j
  BY <1>1
<1>3. \A i \in 1 .. 5 : w[i] \in OnTheWay
  BY <1>1, OnTheWayIs
<1>4. /\ w[6] \notin OnTheWay /\ w[6] # Gone /\ w[6][1] = "host" /\ w[6][2] = "lumos"
      /\ w[6] # <<"host", "caelus">>
  BY <1>1, LocatedOnTheWay DEF Gone
<1>5. \A i \in 1 .. 5 : w[i] # Gone /\ w[i][1] # "host" /\ w[i] # <<"host", "caelus">>
  BY <1>3, LocatedOnTheWay
<1>6. \A i \in 1 .. 6 : i \in 1 .. 5 \/ i = 6
  OBVIOUS
<1>7. QED BY <1>1, <1>2, <1>3, <1>4, <1>5, <1>6 DEF Way, w

\* From the packet generator of the sender.
LEMMA ToReceiverIsWay == Way("receiver", ToReceiver)
<1> DEFINE w == ToReceiver
<1>1. /\ w[1] = <<"sender", 68>> /\ w[2] = <<"receiver", 36>> /\ w[3] = <<"receiver", 44>>
      /\ w[4] = <<"topo", 56>> /\ w[5] = <<"host", "caelus">> /\ Len(w) = 5
  BY DEF ToReceiver
<1> HIDE DEF w
<1>2. \A i, j \in 1 .. 5 : w[i] = w[j] => i = j
  BY <1>1
<1>3. \A i \in 1 .. 4 : w[i] \in OnTheWay
  BY <1>1, OnTheWayIs
<1>4. w[5] \notin OnTheWay /\ w[5] # Gone /\ w[5][1] = "host"
  BY <1>1, LocatedOnTheWay DEF Gone
<1>5. \A i \in 1 .. 4 : w[i] # Gone /\ w[i][1] # "host" /\ w[i] # <<"host", "caelus">>
  BY <1>3, LocatedOnTheWay
<1>6. \A i \in 1 .. 5 : i \in 1 .. 4 \/ i = 5
  OBVIOUS
<1>7. 3 \in 1 .. 5 /\ w[3] = <<"receiver", 44>>
  BY <1>1
<1>8. QED BY <1>1, <1>2, <1>3, <1>4, <1>5, <1>6, <1>7 DEF Way, w

\* From one host to all.
LEMMA ToAllIsWay ==
    ASSUME NEW source \in {160, 168}, NEW host \in Hosts
    PROVE  Way("all", ToAll(source, host))
<1> DEFINE w == ToAll(source, host)
<1>1. w[1] = <<"topo", source>> /\ w[2] = <<"host", host>> /\ Len(w) = 2
  BY DEF ToAll
<1> HIDE DEF w
<1>2. w[1] \in OnTheWay /\ w[2][1] = "host"
  BY <1>1, OnTheWayIs
<1>3. w[2] \notin OnTheWay /\ w[2] # Gone
  BY <1>1, <1>2, LocatedOnTheWay DEF Gone
<1>4. w[1] # Gone /\ w[1][1] # "host" /\ w[1] # <<"host", "caelus">>
  BY <1>2, LocatedOnTheWay
<1>5. w[1] # <<"receiver", 36>> /\ w[2] # <<"receiver", 36>> /\ w[1] # w[2]
  BY <1>1, <1>2, <1>4
<1>6. \A i \in 1 .. 2 : i = 1 \/ i = 2
  OBVIOUS
<1>7. QED BY <1>1, <1>2, <1>3, <1>4, <1>5, <1>6 DEF Way, w

\* No way has a port twice, and each ends at the right host.
LEMMA WaysAreWays ==
    ASSUME NEW to, NEW way \in Ways(to)
    PROVE  Way(to, way)
BY ToCaelusIsWay, ToLumosIsWay, ToReceiverIsWay, ToAllIsWay DEF Ways

\* One way, when there is only one.
LEMMA OneTrip ==
    ASSUME NEW to, NEW way, Ways(to) = {way}, Len(way) \in Nat,
           \A n \in 1 .. Len(way) - 1 : Hop(way[n][1], way[n][2], to, way[n + 1]),
           \A n \in 1 .. Len(way) : way[n] # Gone
    PROVE  Trip(to, way)
<1>1. ASSUME NEW n \in 1 .. Len(way) - 1
      PROVE  /\ Outs(way[n][1], way[n][2], to) \subseteq
                  {Gone} \cup {w[n + 1] : w \in {v \in Ways(to) :
                        n < Len(v) /\ \A i \in 1 .. n : v[i] = way[i]}}
             /\ AllThere => Gone \notin Outs(way[n][1], way[n][2], to)
                            /\ Outs(way[n][1], way[n][2], to) # {}
  <2>1. n < Len(way) /\ n + 1 \in 1 .. Len(way)
    OBVIOUS
  <2>2. way \in {v \in Ways(to) : n < Len(v) /\ \A i \in 1 .. n : v[i] = way[i]}
    BY <2>1
  <2>3. Hop(way[n][1], way[n][2], to, way[n + 1]) /\ way[n + 1] # Gone
    BY <2>1
  <2>4. QED BY <2>2, <2>3 DEF Hop
<1>2. QED BY <1>1 DEF Trip

\* Every way is gone hop by hop.
LEMMA Trips ==
    ASSUME RouteInv, NEW to, NEW way \in Ways(to)
    PROVE  Trip(to, way)
<1>1. CASE to = "caelus"
  <2>1. way = ToCaelus /\ Ways(to) = {way}
    BY <1>1 DEF Ways
  <2>2. /\ way[1] = <<"topo", 160>> /\ way[2] = <<"topo", 136>> /\ way[3] = <<"sender", 36>>
        /\ way[4] = <<"receiver", 36>> /\ way[5] = <<"receiver", 44>> /\ way[6] = <<"topo", 56>>
        /\ way[7] = <<"host", "caelus">> /\ Len(way) = 7
    BY <2>1 DEF ToCaelus
  <2>3. \A n \in 1 .. 6 : Hop(way[n][1], way[n][2], to, way[n + 1])
    <3>1. /\ Hop(way[1][1], way[1][2], to, way[2]) /\ Hop(way[2][1], way[2][2], to, way[3])
          /\ Hop(way[3][1], way[3][2], to, way[4]) /\ Hop(way[4][1], way[4][2], to, way[5])
          /\ Hop(way[5][1], way[5][2], to, way[6]) /\ Hop(way[6][1], way[6][2], to, way[7])
      BY <1>1, <2>2, HopsAre
    <3>2. QED BY <3>1
  <2>4. Len(way) \in Nat /\ \A n \in 1 .. Len(way) - 1 : Hop(way[n][1], way[n][2], to, way[n + 1])
    BY <2>2, <2>3
  <2>5. \A n \in 1 .. Len(way) : way[n] # Gone
    BY WaysAreWays DEF Way
  <2>6. QED BY <2>1, <2>4, <2>5, OneTrip
<1>2. CASE to = "lumos"
  <2>1. way = ToLumos /\ Ways(to) = {way}
    BY <1>2 DEF Ways
  <2>2. /\ way[1] = <<"topo", 168>> /\ way[2] = <<"receiver", 52>> /\ way[3] = <<"sender", 32>>
        /\ way[4] = <<"topo", 36>> /\ way[5] = <<"topo", 128>>
        /\ way[6] = <<"host", "lumos">> /\ Len(way) = 6
    BY <2>1 DEF ToLumos
  <2>3. \A n \in 1 .. 5 : Hop(way[n][1], way[n][2], to, way[n + 1])
    <3>1. /\ Hop(way[1][1], way[1][2], to, way[2]) /\ Hop(way[2][1], way[2][2], to, way[3])
          /\ Hop(way[3][1], way[3][2], to, way[4]) /\ Hop(way[4][1], way[4][2], to, way[5])
          /\ Hop(way[5][1], way[5][2], to, way[6])
      BY <1>2, <2>2, HopsAre
    <3>2. QED BY <3>1
  <2>4. Len(way) \in Nat /\ \A n \in 1 .. Len(way) - 1 : Hop(way[n][1], way[n][2], to, way[n + 1])
    BY <2>2, <2>3
  <2>5. \A n \in 1 .. Len(way) : way[n] # Gone
    BY WaysAreWays DEF Way
  <2>6. QED BY <2>1, <2>4, <2>5, OneTrip
<1>3. CASE to = "receiver"
  <2>1. way = ToReceiver /\ Ways(to) = {way}
    BY <1>3 DEF Ways
  <2>2. /\ way[1] = <<"sender", 68>> /\ way[2] = <<"receiver", 36>> /\ way[3] = <<"receiver", 44>>
        /\ way[4] = <<"topo", 56>> /\ way[5] = <<"host", "caelus">> /\ Len(way) = 5
    BY <2>1 DEF ToReceiver
  <2>3. \A n \in 1 .. 4 : Hop(way[n][1], way[n][2], to, way[n + 1])
    <3>1. /\ Hop(way[1][1], way[1][2], to, way[2]) /\ Hop(way[2][1], way[2][2], to, way[3])
          /\ Hop(way[3][1], way[3][2], to, way[4]) /\ Hop(way[4][1], way[4][2], to, way[5])
      BY <1>3, <2>2, HopsAre
    <3>2. QED BY <3>1
  <2>4. Len(way) \in Nat /\ \A n \in 1 .. Len(way) - 1 : Hop(way[n][1], way[n][2], to, way[n + 1])
    BY <2>2, <2>3
  <2>5. \A n \in 1 .. Len(way) : way[n] # Gone
    BY WaysAreWays DEF Way
  <2>6. QED BY <2>1, <2>4, <2>5, OneTrip
<1>4. CASE to = "all"
  <2>1. PICK source \in {160, 168}, host \in Hosts : way = ToAll(source, host)
    BY <1>4 DEF Ways
  <2>2. way[1] = <<"topo", source>> /\ way[2] = <<"host", host>> /\ Len(way) = 2
    BY <2>1 DEF ToAll
  <2>3. ASSUME NEW n \in 1 .. Len(way) - 1
        PROVE  /\ Outs(way[n][1], way[n][2], to) \subseteq
                    {Gone} \cup {w[n + 1] : w \in {v \in Ways(to) :
                        n < Len(v) /\ \A i \in 1 .. n : v[i] = way[i]}}
               /\ AllThere => Gone \notin Outs(way[n][1], way[n][2], to)
                              /\ Outs(way[n][1], way[n][2], to) # {}
    <3>1. n = 1 /\ way[n][1] = "topo" /\ way[n][2] = source
      BY <2>2
    <3>2. ASSUME NEW h \in Hosts
          PROVE  <<"host", h>> \in {w[n + 1] : w \in {v \in Ways(to) :
                        n < Len(v) /\ \A i \in 1 .. n : v[i] = way[i]}}
      <4> DEFINE v == ToAll(source, h)
      <4>1. v \in Ways(to)
        BY <1>4 DEF Ways
      <4>2. v[1] = way[1] /\ v[2] = <<"host", h>> /\ 1 < Len(v)
        BY <2>2 DEF ToAll
      <4> HIDE DEF v
      <4>3. n < Len(v) /\ (\A i \in 1 .. n : v[i] = way[i]) /\ v[n + 1] = <<"host", h>>
        BY <3>1, <4>2
      <4>4. QED BY <4>1, <4>3
    <3>3. /\ Outs(way[n][1], way[n][2], to) \subseteq
                {Gone, <<"host", "lumos">>, <<"host", "caelus">>}
          /\ AllThere => Gone \notin Outs(way[n][1], way[n][2], to)
                         /\ Outs(way[n][1], way[n][2], to) # {}
      BY <3>1, <1>4, HopsToAll
    <3>4. QED BY SMTT(30), <3>2, <3>3 DEF Hosts
  <2>4. QED BY <2>3 DEF Trip
<1>5. QED BY <1>1, <1>2, <1>3, <1>4 DEF Ways

-----------------------------------------------------------------------------
\* The frame that is tracked.

\* z is the beginning of t, of length n, and then y.
Longer(z, n, t, y) ==
    /\ Script(z) /\ Len(z) = n + 1 /\ z[n + 1] = y
    /\ \A i \in 1 .. n : z[i] = t[i]

\* A path that has got one place longer.
LEMMA LongerPath ==
    ASSUME NEW x, NEW n \in Nat \ {0}, NEW t, Begins(x, n, t), NEW y
    PROVE  Longer(Append(x, y), n, t, y)
<1> DEFINE S == Range(x) \cup {y}
           z == Append(x, y)
<1>1. x \in Seq(S) /\ Len(x) = n
  <2>1. x \in Seq(Range(x)) /\ Range(x) \subseteq S
    BY DEF Begins, Script
  <2> HIDE DEF S
  <2>2. QED BY <2>1 DEF Begins
<1>2. y \in S
  OBVIOUS
<1> HIDE DEF S
<1>3. /\ z \in Seq(S) /\ Len(z) = n + 1 /\ z[n + 1] = y
      /\ \A i \in 1 .. n : z[i] = x[i]
  BY <1>1, <1>2
<1> HIDE DEF z
<1>4. Script(z)
  BY <1>3, SeqIsScript
<1>5. Longer(z, n, t, y)
  BY <1>3, <1>4 DEF Longer, Begins
<1>6. QED BY <1>5 DEF z

\* Whatever happens to the tables, a frame that waits is where it was.
LEMMA FrameWaits ==
    ASSUME FrameInv, tracked' = tracked \/ tracked' = NoFrame,
           disturbed' = {} => disturbed = {} /\ NeededStay
    PROVE  FrameInv'
<1>1. CASE tracked' = NoFrame
  BY <1>1 DEF FrameInv
<1>2. CASE tracked' = tracked /\ tracked # NoFrame
  <2>1. /\ tracked = [to |-> tracked.to, path |-> tracked.path,
                     place |-> tracked.place, ready |-> tracked.ready]
        /\ tracked.ready /\ disturbed = {} =>
            \A sw \in Switches : Required(sw) \subseteq DOMAIN entries[sw]
    BY <1>2 DEF FrameInv
  <2>2. PICK way \in Ways(tracked.to) : \E n \in 1 .. Len(way) : OnWay(way, n) \/ Strayed(way, n)
    BY <1>2 DEF FrameInv
  <2>3. ASSUME NEW n PROVE OnWay(way, n) \/ Strayed(way, n) => OnWay(way, n)' \/ Strayed(way, n)'
    BY <1>2 DEF OnWay, Strayed
  <2>4. ASSUME tracked.ready, disturbed' = {}
        PROVE  \A sw \in Switches : Required(sw) \subseteq DOMAIN entries'[sw]
    BY <2>1, <2>4 DEF NeededStay
  <2>5. \E n \in 1 .. Len(way) : OnWay(way, n)' \/ Strayed(way, n)'
    BY <2>2, <2>3
  <2>6. QED BY <1>2, <2>1, <2>2, <2>4, <2>5 DEF FrameInv
<1>3. QED BY <1>1, <1>2 DEF FrameInv

\* A frame that is forwarded stays on one of its ways.
LEMMA FrameGoesOn ==
    ASSUME RouteInv, FrameInv, Forward
    PROVE  FrameInv'
<1>1. PICK out : /\ out \in Outs(tracked.place[1], tracked.place[2], tracked.to)
                    \/ /\ Outs(tracked.place[1], tracked.place[2], tracked.to) = {}
                       /\ out = Gone
                 /\ tracked' = [tracked EXCEPT !.place = out, !.path = Append(@, out)]
  BY DEF Forward, Outs
<1>2. tracked.place \in OnTheWay /\ UNCHANGED <<entries, disturbed>>
  BY DEF Forward
<1>3. tracked # NoFrame
  BY <1>2, LocatedOnTheWay DEF NoFrame
<1>4. /\ tracked = [to |-> tracked.to, path |-> tracked.path,
                    place |-> tracked.place, ready |-> tracked.ready]
      /\ tracked.ready /\ disturbed = {} =>
            \A sw \in Switches : Required(sw) \subseteq DOMAIN entries[sw]
  BY <1>3 DEF FrameInv
<1>5. PICK way \in Ways(tracked.to) : \E n \in 1 .. Len(way) : OnWay(way, n) \/ Strayed(way, n)
  BY <1>3 DEF FrameInv
<1>6. PICK n \in 1 .. Len(way) : OnWay(way, n)
  BY <1>2, <1>5, LocatedOnTheWay DEF Strayed
<1>7. /\ tracked'.to = tracked.to /\ tracked'.ready = tracked.ready /\ tracked'.place = out
      /\ tracked'.path = Append(tracked.path, out)
      /\ tracked' = [to |-> tracked'.to, path |-> tracked'.path,
                     place |-> tracked'.place, ready |-> tracked'.ready]
  BY <1>1, <1>4
<1>8. Way(tracked.to, way) /\ Trip(tracked.to, way)
  BY WaysAreWays, Trips
<1>9. n \in 1 .. Len(way) - 1 /\ n \in Nat \ {0} /\ tracked.place = way[n]
  <2>1. tracked.place = way[n] /\ Len(way) \in Nat
    BY <1>6, <1>8 DEF OnWay, Way
  <2>2. n < Len(way)
    BY <2>1, <1>2, <1>8 DEF Way
  <2>3. QED BY <2>1, <2>2
<1>10. /\ Script(tracked'.path) /\ Len(tracked'.path) = n + 1
       /\ \A i \in 1 .. n : tracked'.path[i] = way[i]
       /\ tracked'.path[n + 1] = out
  <2>1. Begins(tracked.path, n, way)
    BY <1>6 DEF OnWay
  <2> DEFINE x == tracked.path
             z == Append(x, out)
  <2>2. Begins(x, n, way) /\ n \in Nat \ {0}
    BY <2>1, <1>9
  <2> HIDE DEF x
  <2>3. Longer(z, n, way, out)
    BY <2>2, LongerPath
  <2>4. tracked'.path = z
    BY <1>7 DEF x
  <2> HIDE DEF z
  <2>5. QED BY <2>3, <2>4 DEF Longer
<1>11. /\ Outs(way[n][1], way[n][2], tracked.to) \subseteq
              {Gone} \cup {w[n + 1] : w \in {v \in Ways(tracked.to) :
                    n < Len(v) /\ \A i \in 1 .. n : v[i] = way[i]}}
       /\ AllThere => Gone \notin Outs(way[n][1], way[n][2], tracked.to)
                      /\ Outs(way[n][1], way[n][2], tracked.to) # {}
  BY <1>8, <1>9 DEF Trip
<1>12. tracked'.ready /\ disturbed' = {} => AllThere
  BY <1>2, <1>4, <1>7 DEF AllThere
<1>13. CASE out = Gone
  <2>1. ~ AllThere
    BY <1>1, <1>9, <1>11, <1>13
  <2>2. ~ (tracked'.ready /\ disturbed' = {})
    BY <2>1, <1>12
  <2>3. Strayed(way, n)'
    BY <2>2, <1>7, <1>10, <1>13 DEF Strayed
  <2>4. way \in Ways(tracked'.to)
    BY <1>7
  <2>5. QED BY <2>2, <2>3, <2>4, <1>7 DEF FrameInv
<1>14. CASE out # Gone
  <2>1. PICK v \in Ways(tracked.to) : /\ n < Len(v) /\ \A i \in 1 .. n : v[i] = way[i]
                                      /\ out = v[n + 1]
    BY <1>1, <1>9, <1>11, <1>14
  <2>2. n + 1 \in 1 .. Len(v)
    <3>1. Len(v) \in Nat
      BY WaysAreWays DEF Way
    <3>2. QED BY <2>1, <3>1, <1>9
  <2>3. \A i \in 1 .. n + 1 : tracked'.path[i] = v[i]
    <3>1. \A i \in 1 .. n + 1 : i \in 1 .. n \/ i = n + 1
      BY <1>9
    <3>2. QED BY <3>1, <2>1, <1>10
  <2>4. OnWay(v, n + 1)'
    BY <2>1, <2>3, <1>7, <1>10 DEF OnWay, Begins
  <2>5. v \in Ways(tracked'.to)
    BY <1>7
  <2>6. tracked'.ready /\ disturbed' = {} =>
            \A sw \in Switches : Required(sw) \subseteq DOMAIN entries'[sw]
    BY <1>2, <1>12 DEF AllThere
  <2>7. QED BY <2>2, <2>4, <2>5, <2>6, <1>7 DEF FrameInv
<1>15. QED BY <1>13, <1>14

\* A frame is ready that is sent when all scripts have come to their end.
LEMMA FrameIsSent ==
    ASSUME RouteInv, SendFrame
    PROVE  FrameInv'
<1>1. PICK source \in {<<"topo", 160>>, <<"topo", 168>>, <<"sender", 68>>},
           to \in Hosts \cup {"all", "receiver"} :
        /\ IF source = <<"sender", 68>> THEN to = "receiver" /\ Ready
           ELSE to \in {"all"} \cup (Hosts \ {HostAt[source][2]})
        /\ tracked' = [to |-> to, path |-> <<source>>, place |-> source, ready |-> Ready]
        /\ UNCHANGED <<todo, entries, seed, operator, failed, disturbed, commands>>
  BY ZenonT(60) DEF SendFrame
<1>2. ASSUME Ready PROVE \A sw \in Switches : Required(sw) \subseteq DOMAIN entries[sw]
  <2>1. disturbed = {} /\ \A sw \in Switches : todo[sw] = <<>>
    BY <1>2 DEF Ready, SetUp
  <2>2. \A i \in 1 .. Len(<<>>) : FALSE
    OBVIOUS
  <2>3. \A sw \in Switches : Completes(sw, entries[sw], <<>>, operator.speed)
    BY <2>1 DEF RouteInv
  <2>4. QED BY <2>2, <2>3 DEF Completes
<1>3. \E way \in Ways(to) : way[1] = source
  <2>0. /\ Ways("caelus") = {ToCaelus} /\ ToCaelus[1] = <<"topo", 160>>
        /\ Ways("lumos") = {ToLumos} /\ ToLumos[1] = <<"topo", 168>>
        /\ Ways("receiver") = {ToReceiver} /\ ToReceiver[1] = <<"sender", 68>>
    BY DEF Ways, ToCaelus, ToLumos, ToReceiver
  <2>1. CASE source = <<"sender", 68>>
    BY <2>0, <2>1, <1>1
  <2>2. CASE source # <<"sender", 68>> /\ to = "all"
    <3>1. PICK s \in {160, 168} : source = <<"topo", s>>
      BY <2>2, <1>1
    <3>2. ToAll(s, "lumos") \in Ways(to) /\ ToAll(s, "lumos")[1] = source
      BY <3>1, <2>2 DEF Ways, ToAll, Hosts
    <3>3. QED BY <3>2
  <2>3. CASE source = <<"topo", 160>> /\ to # "all"
    <3>1. HostAt[source][2] = "lumos"
      BY <2>3, HostsAre
    <3>2. to = "caelus"
      BY <3>1, <2>3, <1>1 DEF Hosts
    <3>3. QED BY <3>2, <2>0, <2>3
  <2>4. CASE source = <<"topo", 168>> /\ to # "all"
    <3>1. HostAt[source][2] = "caelus"
      BY <2>4, HostsAre
    <3>2. to = "lumos"
      BY <3>1, <2>4, <1>1 DEF Hosts
    <3>3. QED BY <3>2, <2>0, <2>4
  <2>5. QED BY <2>1, <2>2, <2>3, <2>4
<1>4. PICK way \in Ways(to) : way[1] = source
  BY <1>3
<1>5. 1 \in 1 .. Len(way)
  BY WaysAreWays DEF Way
<1>6. /\ tracked'.to = to /\ tracked'.path = <<source>> /\ tracked'.place = source
      /\ tracked'.ready = Ready
      /\ tracked' = [to |-> tracked'.to, path |-> tracked'.path,
                     place |-> tracked'.place, ready |-> tracked'.ready]
  BY <1>1
<1>7. Begins(<<source>>, 1, way)
  <2> DEFINE x == <<source>>
  <2>1. x \in Seq({source}) /\ Len(x) = 1 /\ x[1] = source
    OBVIOUS
  <2> HIDE DEF x
  <2>2. Script(x)
    BY <2>1, SeqIsScript
  <2>3. \A i \in 1 .. 1 : x[i] = way[i]
    BY <2>1, <1>4
  <2>4. QED BY <2>1, <2>2, <2>3 DEF Begins, x
<1>8. OnWay(way, 1)'
  BY <1>4, <1>6, <1>7 DEF OnWay
<1>9. tracked'.ready /\ disturbed' = {} =>
        \A sw \in Switches : Required(sw) \subseteq DOMAIN entries'[sw]
  BY <1>1, <1>2, <1>6
<1>10. way \in Ways(tracked'.to)
  BY <1>6
<1>11. QED BY <1>5, <1>6, <1>8, <1>9, <1>10 DEF FrameInv

\* Where a frame is, and where it was.
LEMMA FramesAreRight ==
    ASSUME FrameInv
    PROVE  FramesOnTheirWay
<1>1. HostAt[<<"topo", 168>>] = <<"host", "caelus">>
  BY HostsAre
<1>2. CASE tracked = NoFrame
  <2>1. tracked.path = <<>> /\ tracked.place = Gone /\ tracked.ready = FALSE
    BY <1>2 DEF NoFrame
  <2>2. IsInjective(tracked.path)
    <3>1. DOMAIN <<>> = {}
      OBVIOUS
    <3>2. QED BY <3>1, <2>1 DEF IsInjective
  <2>3. Gone[1] # "host" /\ Gone # <<"host", "caelus">>
    BY DEF Gone
  <2>4. QED BY <1>1, <2>1, <2>2, <2>3 DEF FramesOnTheirWay
<1>3. CASE tracked # NoFrame
  <2>1. PICK way \in Ways(tracked.to) : \E n \in 1 .. Len(way) : OnWay(way, n) \/ Strayed(way, n)
    BY <1>3 DEF FrameInv
  <2>2. PICK n \in 1 .. Len(way) : OnWay(way, n) \/ Strayed(way, n)
    BY <2>1
  <2>3. Way(tracked.to, way) /\ Len(way) \in Nat /\ n \in Nat
    <3>1. Way(tracked.to, way)
      BY WaysAreWays
    <3>2. Len(way) \in Nat
      BY <3>1 DEF Way
    <3>3. n \in Nat
      BY <3>2
    <3>4. QED BY <3>1, <3>2, <3>3
  <2> DEFINE path == tracked.path
  <2>4. CASE OnWay(way, n)
    <3>1. /\ Script(path) /\ Len(path) = n /\ \A i \in 1 .. n : path[i] = way[i]
          /\ tracked.place = way[n]
      BY <2>4 DEF OnWay, Begins
    <3>2. DOMAIN path = 1 .. n
      BY <3>1 DEF Script
    <3>3. IsInjective(path)
      BY <3>1, <3>2, <2>3 DEF IsInjective, Way
    <3>4. /\ tracked.place # Gone
          /\ tracked.place[1] = "host" => tracked.to \in {tracked.place[2], "all", "receiver"}
      BY <3>1, <2>3 DEF Way
    <3>5. ASSUME tracked.place = <<"host", "caelus">>, <<"receiver", 36>> \in ToSet(path)
          PROVE  <<"receiver", 44>> \in ToSet(path)
      <4>1. PICK j \in 1 .. n : path[j] = <<"receiver", 36>>
        BY <3>2, <3>5 DEF ToSet
      <4>2. way[j] = <<"receiver", 36>> /\ way[n] = <<"host", "caelus">>
        BY <4>1, <3>1, <3>5
      <4>3. PICK k \in 1 .. n : way[k] = <<"receiver", 44>>
        BY <4>2, <2>3 DEF Way
      <4>4. QED BY <4>3, <3>1, <3>2 DEF ToSet
    <3>6. QED BY <3>3, <3>4, <3>5, <1>1 DEF FramesOnTheirWay
  <2>5. CASE Strayed(way, n)
    <3>1. /\ Script(path) /\ Len(path) = n + 1 /\ \A i \in 1 .. n : path[i] = way[i]
          /\ path[n + 1] = Gone /\ tracked.place = Gone /\ ~ (tracked.ready /\ disturbed = {})
      BY <2>5 DEF Strayed
    <3>2. DOMAIN path = 1 .. n + 1
      BY <3>1 DEF Script
    <3>3. ASSUME NEW i \in 1 .. n + 1, NEW j \in 1 .. n + 1, path[i] = path[j] PROVE i = j
      <4>1. \A k \in 1 .. n : path[k] = way[k] /\ path[k] # Gone
        BY <3>1, <2>3 DEF Way
      <4>2. CASE i \in 1 .. n /\ j \in 1 .. n
        BY <4>1, <4>2, <3>3, <2>3 DEF Way
      <4>3. CASE i = n + 1 \/ j = n + 1
        <5>1. path[i] = Gone /\ path[j] = Gone
          BY <4>3, <3>1, <3>3
        <5>2. i \notin 1 .. n /\ j \notin 1 .. n
          BY <5>1, <4>1
        <5>3. QED BY <5>2, <2>3
      <4>4. QED BY <4>2, <4>3, <2>3
    <3>4. IsInjective(path)
      BY <3>2, <3>3 DEF IsInjective
    <3>5. Gone[1] # "host" /\ Gone # <<"host", "caelus">>
      BY DEF Gone
    <3>6. QED BY <3>1, <3>4, <3>5, <1>1 DEF FramesOnTheirWay
  <2>6. QED BY <2>2, <2>4, <2>5
<1>4. QED BY <1>2, <1>3

\* Tables and frames together.
LEMMA FrameStep ==
    ASSUME TestbedInv, RouteInv, FrameInv, [TestbedNext]_testbedVars
    PROVE  RouteInv' /\ FrameInv'
<1>1. ASSUME NEW sw \in Switches, Call(sw) PROVE RouteInv' /\ FrameInv'
  <2>1. RouteInv' /\ NeededStay
    BY <1>1, CallRoutes
  <2>2. disturbed' = disturbed /\ (tracked' = tracked \/ tracked' = NoFrame)
    BY <1>1 DEF Call
  <2>3. QED BY <2>1, <2>2, FrameWaits
<1>2. ASSUME NEW sw \in Switches, Interrupt(sw) PROVE RouteInv' /\ FrameInv'
  <2>1. /\ todo' = [todo EXCEPT ![sw] = <<>>] /\ entries' = entries /\ operator' = operator
        /\ sw \in disturbed' /\ disturbed \subseteq disturbed' /\ tracked' = tracked
    BY <1>2 DEF Interrupt
  <2>2. RouteInv'
    BY <2>1, StoppedRoutes DEF TestbedInv
  <2>3. disturbed' # {}
    BY <2>1
  <2>4. QED BY <2>1, <2>2, <2>3, FrameWaits
<1>3. CASE SetNumberOfRetxCopies
  <2>1. RouteInv' /\ NeededStay
    BY <1>3, CopiesRoutes
  <2>2. disturbed' = disturbed /\ tracked' = tracked
    BY <1>3 DEF SetNumberOfRetxCopies
  <2>3. QED BY <2>1, <2>2, FrameWaits
<1>4. CASE ChangeLinkSpeeds
  <2>1. RouteInv' /\ disturbed' # {}
    BY <1>4, SpeedsRoutes
  <2>2. tracked' = tracked
    BY <1>4 DEF ChangeLinkSpeeds
  <2>3. QED BY <2>1, <2>2, FrameWaits
<1>5. CASE CheckLinks \/ EndOfRound \/ UNCHANGED testbedVars
  <2>1. UNCHANGED <<todo, entries, disturbed, tracked>>
    BY <1>5 DEF CheckLinks, EndOfRound, testbedVars
  <2>2. AskedInv
    BY DEF TestbedInv
  <2>3. operator'.speed = operator.speed
    BY <1>5, <2>2 DEF AskedInv, CheckLinks, EndOfRound, testbedVars
  <2>4. RouteInv' /\ NeededStay
    BY <2>1, <2>3, RoutesOnlyRead
  <2>5. QED BY <2>1, <2>4, FrameWaits
<1>6. CASE SendFrame
  <2>1. UNCHANGED <<todo, entries, disturbed, operator>>
    BY <1>6 DEF SendFrame
  <2>2. RouteInv'
    BY <2>1, RoutesOnlyRead
  <2>3. QED BY <2>2, <1>6, FrameIsSent
<1>7. CASE Forward
  <2>1. UNCHANGED <<todo, entries, disturbed, operator>>
    BY <1>7 DEF Forward
  <2>2. RouteInv'
    BY <2>1, RoutesOnlyRead
  <2>3. QED BY <2>2, <1>7, FrameGoesOn
<1>8. QED BY <1>1, <1>2, <1>3, <1>4, <1>5, <1>6, <1>7 DEF TestbedNext

\* Every frame keeps to a way that is free of loops, ends at a host it is
\* for and passes the filter before it, and arrives when it is sent on
\* complete tables (FramesOnTheirWay).
THEOREM FramesArrive == TestbedSpec => []FramesOnTheirWay
<1>1. TestbedInit => RouteInv /\ FrameInv
  <2>1. TestbedInit => FrameInv
    BY DEF TestbedInit, FrameInv
  <2>2. QED BY <2>1, RouteInvInit
<1>2. TestbedInv /\ RouteInv /\ FrameInv /\ [TestbedNext]_testbedVars => RouteInv' /\ FrameInv'
  BY FrameStep
<1>3. FrameInv => FramesOnTheirWay
  BY FramesAreRight
<1>4. QED BY <1>1, <1>2, <1>3, TestbedInvariant, PTL DEF TestbedSpec
=============================================================================
