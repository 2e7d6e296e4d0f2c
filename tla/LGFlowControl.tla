--------------------------- MODULE LGFlowControl ---------------------------
(***************************************************************************)
(* Priority flow control of a link in blocking mode.  The early packets of *)
(* the rx buffer circulate: they wait in the queue of the recirculation    *)
(* port, pass the egress, which compares the depth of that queue with two  *)
(* thresholds, and come round to the ingress.  A change between paused and *)
(* resumed is left in a one-slot register; the next timer packet takes it  *)
(* to the sender's MAC as a PFC frame, and the MAC stops the one queue     *)
(* that is mapped to the paused class.                                     *)
(*                                                                         *)
(* The module refines LinkGuardian: rxBuffer is what is in recircQueue and *)
(* recircPipe.  Depths are in packets (cells in the code).                 *)
(***************************************************************************)
EXTENDS LinkGuardian

CONSTANTS
    PauseThreshold,     \* reg_recirc_buffer_pfc_pause_threshold
    ResumeThreshold,    \* reg_recirc_buffer_pfc_resume_threshold
    MaxFrames           \* bound: PFC frames in flight

ASSUME FlowControlAssumption ==
    /\ PauseThreshold \in Nat
    /\ ResumeThreshold \in 1 .. PauseThreshold - 1
    /\ MaxFrames \in Nat \ {0}

VARIABLES
    recircQueue,    \* the queue of the recirculation port
    recircPipe,     \* dequeued packets on their way round to the ingress
    pfcState,       \* reg_pfc_curr_state
    pfcGenReq,      \* reg_pfc_gen_req
    pfcWire,        \* PFC frames on their way to the sender
    macPaused       \* the sender's MAC holds back the paused class

fcVars == <<recircQueue, recircPipe, pfcState, pfcGenReq, pfcWire, macPaused>>

loopVars == <<recircQueue, recircPipe>>
pfcVars  == <<pfcState, pfcGenReq, pfcWire, macPaused>>

Frames == {"PAUSE", "RESUME"}

FlowControlTypeOK ==
    /\ recircQueue \in Seq(Packet) /\ recircPipe \in Seq(Packet)
    /\ rxBuffer = Elements(recircQueue) \cup Elements(recircPipe)
    /\ pfcState \in {"PAUSED", "RESUMED"}
    /\ pfcGenReq \in {"DROP"} \cup Frames
    /\ pfcWire \in Seq(Frames)
    /\ macPaused \in BOOLEAN

FlowControlInit ==
    /\ Init
    /\ recircQueue = <<>> /\ recircPipe = <<>>
    /\ pfcState = "RESUMED"
    /\ pfcGenReq = "DROP"
    /\ pfcWire = <<>>
    /\ macPaused = FALSE

-----------------------------------------------------------------------------
\* The sender's queues: normal packets, dummy packets, retransmissions.
Queues == {"normal", "dummy", "retx"}

\* Mutant of PausedQueues: the whole port is paused.
WholePort == Queues

\* The queues mapped to the paused class: qid 0 only.
PausedQueues == {"normal"}

MayLeave(queue) == ~(macPaused /\ queue \in PausedQueues)

\* Steps of the sender; a retransmission leaves through queue "retx".
SenderStep ==
    /\ \/ MayLeave("normal") /\ WithinWindow /\ SendNormal
       \/ MayLeave("dummy") /\ SendDummy
       \/ RecordLeadingAck
       \/ \E c \in txBuffer :
            (IsHole(c.seq) => MayLeave("retx")) /\ ProcessBuffered(c)
    /\ UNCHANGED <<receiverVars, fcVars>>

\* The MAC obeys a frame.
MacReceivesFrame ==
    /\ pfcWire # <<>>
    /\ macPaused' = (Head(pfcWire) = "PAUSE")
    /\ pfcWire' = Tail(pfcWire)
    /\ UNCHANGED <<vars, loopVars, pfcState, pfcGenReq>>

\* A pause lasts for MAX_PFC_QUANTA and is not renewed.
PauseExpires ==
    /\ macPaused
    /\ macPaused' = FALSE
    /\ UNCHANGED <<vars, loopVars, pfcState, pfcGenReq, pfcWire>>

-----------------------------------------------------------------------------
\* Mutant of Joined: the queue is full and drops the packet.
TailDropped(pkt) ==
    IF Len(recircQueue) = PauseThreshold THEN recircQueue
    ELSE Append(recircQueue, pkt)

\* The queue is given room for everything that comes before a pause acts.
Joined(pkt) == Append(recircQueue, pkt)

\* A packet from the wire that is early joins the queue.
WireStep ==
    /\ ReceivePacket
    /\ recircQueue' = IF rxBuffer' = rxBuffer THEN recircQueue
                      ELSE Joined(Head(toRx))
    /\ UNCHANGED <<senderVars, recircPipe, pfcVars>>

\* The next packet comes round: it leaves the rx buffer, or is still early
\* and joins the queue again.
RecirculatedStep ==
    /\ recircPipe # <<>>
    /\ recircPipe' = Tail(recircPipe)
    /\ \/ /\ ReprocessBuffered(Head(recircPipe))
          /\ UNCHANGED recircQueue
       \/ /\ Early(Head(recircPipe))
          /\ recircQueue' = Joined(Head(recircPipe))
          /\ UNCHANGED receiverVars /\ UNCHANGED wireVars
    /\ UNCHANGED <<senderVars, pfcVars>>

\* Mutant of SubceedsResume: the comparison is strict.
BelowResume(depth) == depth < ResumeThreshold

\* cmp_recirc_buffer_pfc_pause_threshold, cmp_..._resume_threshold.
ExceedsPause(depth)   == depth >= PauseThreshold
SubceedsResume(depth) == depth <= ResumeThreshold

\* Mutant of Scheduled: a request that still waits is not overwritten.
FirstRequestStays(frame) == IF pfcGenReq = "DROP" THEN frame ELSE pfcGenReq

\* set_pfc_gen_req_pause, set_pfc_gen_req_resume.
Scheduled(frame) == frame

\* cmp_update_pfc_pause_state, cmp_update_pfc_resume_state: only a change of
\* the state schedules a frame.
SwitchTo(state, frame) ==
    \/ pfcState = state  /\ UNCHANGED <<pfcState, pfcGenReq>>
    \/ pfcState # state  /\ pfcState' = state
                         /\ pfcGenReq' = Scheduled(frame)

CompareDepth(depth) ==
    \/ ExceedsPause(depth) /\ SwitchTo("PAUSED", "PAUSE")
    \/ /\ ~ExceedsPause(depth)
       /\ SubceedsResume(depth)
       /\ SwitchTo("RESUMED", "RESUME")
    \/ /\ ~ExceedsPause(depth)
       /\ ~SubceedsResume(depth)
       /\ UNCHANGED <<pfcState, pfcGenReq>>

\* Egress of an rx-buffered packet.  The depth the traffic manager reports
\* may or may not count the packet itself.
RecircEgress ==
    /\ recircQueue # <<>>
    /\ \E depth \in {Len(recircQueue) - 1, Len(recircQueue)} :
            CompareDepth(depth)
    /\ recircQueue' = Tail(recircQueue)
    /\ recircPipe' = Append(recircPipe, Head(recircQueue))
    /\ UNCHANGED <<vars, pfcWire, macPaused>>

\* Egress of a timer packet: it becomes the frame that is asked for, or is
\* dropped, which changes nothing.
TimerEgress ==
    /\ pfcGenReq # "DROP"
    /\ Len(pfcWire) < MaxFrames
    /\ pfcWire' = Append(pfcWire, pfcGenReq)
    /\ pfcGenReq' = "DROP"
    /\ UNCHANGED <<vars, loopVars, pfcState, macPaused>>

\* The receiver's steps that touch neither the loop nor flow control.
OtherReceiverStep ==
    /\ TimerPacket \/ EgressLackUpdate \/ EgressLossNotification \/ EgressLack
    /\ UNCHANGED <<senderVars, fcVars>>

FlowControlNext ==
    \/ SenderStep
    \/ MacReceivesFrame
    \/ PauseExpires
    \/ WireStep
    \/ RecirculatedStep
    \/ RecircEgress
    \/ TimerEgress
    \/ OtherReceiverStep

allVars == <<vars, fcVars>>

FlowControlSpec == FlowControlInit /\ [][FlowControlNext]_allVars

(***************************************************************************)
(* The data plane never stops (see LinkGuardian).  A pause is not asked to *)
(* expire, nor the traffic to go on.                                       *)
(***************************************************************************)
FlowControlFairSpec ==
    /\ FlowControlSpec
    /\ WF_allVars(MayLeave("dummy") /\ SendDummy
                    /\ UNCHANGED <<receiverVars, fcVars>>)
    /\ WF_allVars(RecordLeadingAck /\ UNCHANGED <<receiverVars, fcVars>>)
    /\ WF_allVars(SenderStep /\ txBuffer' # txBuffer /\ sent' = sent)
    /\ WF_allVars(MacReceivesFrame)
    /\ WF_allVars(WireStep)
    /\ WF_allVars(RecirculatedStep)
    /\ WF_allVars(RecircEgress)
    /\ WF_allVars(TimerEgress)
    /\ WF_allVars(EgressLackUpdate /\ UNCHANGED <<senderVars, fcVars>>)
    /\ WF_allVars(EgressLossNotification /\ UNCHANGED <<senderVars, fcVars>>)
    /\ WF_allVars(EgressLack /\ UNCHANGED <<senderVars, fcVars>>)

-----------------------------------------------------------------------------
(***************************************************************************)
(* With the queue empty the receiver asks for no pause: only the egress of *)
(* a queued packet can resume the sender, so a state left at PAUSED when   *)
(* the queue drains would never be left.                                   *)
(***************************************************************************)
ResumedWhenDrained == recircQueue = <<>> => pfcState = "RESUMED"

\* What the sender was last told, or is about to be told.
LastWord ==
    IF pfcGenReq # "DROP" THEN pfcGenReq
    ELSE IF pfcWire # <<>> THEN pfcWire[Len(pfcWire)]
    ELSE IF macPaused THEN "PAUSE" ELSE "RESUME"

(***************************************************************************)
(* A resume is never lost: although the register has one slot and frames   *)
(* are in flight, the last word to the sender is RESUME whenever the       *)
(* receiver's state is.  (The converse fails once a pause expires.)        *)
(***************************************************************************)
ResumeIsLastWord == pfcState = "RESUMED" => LastWord = "RESUME"

(***************************************************************************)
(* A paused sender is resumed, without a pause expiring and without a      *)
(* time-out: its retransmissions and dummy packets still leave, so the     *)
(* packets that hold the receiver's buffer arrive.                         *)
(***************************************************************************)
PausedIsResumed == macPaused ~> ~macPaused
============================================================================
