------------------------------ MODULE LossTrace ------------------------------
(***************************************************************************)
(* The trace generator.  Every link is given the times of its failures:    *)
(* random numbers of hours, each added to the one before.  All of them go  *)
(* through the EventQueue of the simulation, which moves them apart, and   *)
(* the trace is what the queue hands out until the wanted duration from    *)
(* the first failure on is over.  The loss rate of a failure is drawn from *)
(* buckets with given shares, by a number between 0 and 100 with two       *)
(* decimals: here 0 .. Whole.                                              *)
(***************************************************************************)
EXTENDS EventQueue

CONSTANTS
    TraceLinks,     \* num_links: links of the topology, numbered from 0
    EventsPerLink,  \* NUM_LOSS_EVENTS_PER_LINK
    Gaps,           \* rounded hours between failures that may be sampled
    Hour,           \* seconds of an hour
    MaxDuration,    \* max_duration_hrs
    StartEndOffset, \* DATA_DUMPER_START_END_OFFSET
    Whole,          \* 100 %, in the granularity of the fractions
    Shares,         \* the distributions: percent_fraction of every bucket
    MaxNops         \* bound on the events taken from an empty queue

ASSUME LossTraceAssumption ==
    /\ {TraceLinks, EventsPerLink, Hour, Whole} \subseteq Nat \ {0}
    /\ Gaps \subseteq Nat
    /\ {MaxDuration, StartEndOffset, MaxNops} \subseteq Nat
    /\ \A shares \in Shares :
        /\ shares \in Seq(Nat \ {0})
        /\ FoldLeft(+, 0, shares) = Whole

VARIABLES
    shares,     \* the distribution of the loss rates
    genLink,    \* the link whose failures are added next
    genQueue,   \* event_queue
    genUsed,    \* its _timestamp_records
    firstTime,  \* time of the first failure, -1 while failures are added
    trace,      \* loss_event_list
    dumped      \* the loop is over and the list is written

genVars == <<shares, genLink, genQueue, genUsed, firstTime, trace, dumped>>

-----------------------------------------------------------------------------
\* LossRateGenerator.__init__: the range of numbers of a bucket.  The first
\* starts with 0, the others one step after the end of the one before.
RangeStart(i) ==
    IF i = 1 THEN 0 ELSE FoldLeft(+, 0, SubSeq(shares, 1, i - 1)) + 1
RangeEnd(i) == FoldLeft(+, 0, SubSeq(shares, 1, i))

InRange(number, i) == RangeStart(i) <= number /\ number <= RangeEnd(i)

NoBucket == 0

\* generate: the bucket of the first range that has the number
BucketOf(number) ==
    SelectInSeq([i \in DOMAIN shares |-> i], LAMBDA i : InRange(number, i))

Buckets == {BucketOf(number) : number \in 0 .. Whole}

-----------------------------------------------------------------------------
\* The event of the failure of a link with a loss rate of a bucket.
Loss(time, link, bucket) == [time |-> time, link |-> link, rate |-> bucket]

\* What get_next_event returns when there is none.
NopEvent == Loss(0, 0, NoBucket)

GenInit ==
    /\ shares \in Shares
    /\ genLink = 0
    /\ genQueue = {} /\ genUsed = {}
    /\ firstTime = -1
    /\ trace = <<>>
    /\ dumped = FALSE

\* The failures of the next link; gaps of zero hours are sampled, too.
AddLink ==
    \E gaps \in [1 .. EventsPerLink -> Gaps],
       rates \in [1 .. EventsPerLink -> Buckets] :
        LET Hours(i) == FoldLeft(+, 0, SubSeq(gaps, 1, i))
            added == Scheduled([i \in 1 .. EventsPerLink |->
                                    Loss(Hours(i) * Hour, genLink, rates[i])],
                               genUsed)
        IN  /\ genLink < TraceLinks
            /\ genLink' = genLink + 1
            /\ genQueue' = genQueue \cup added.events
            /\ genUsed' = added.used
            /\ UNCHANGED <<shares, firstTime, trace, dumped>>

\* get_head_event_time, once all failures are in the queue
StartCutting ==
    /\ genLink = TraceLinks
    /\ firstTime = -1
    /\ firstTime' = HeadTime(genQueue)
    /\ UNCHANGED <<shares, genLink, genQueue, genUsed, trace, dumped>>

\* Mutant of ExpectedLastTime: counted from the event at hand.
MovingLastTime == HeadTime(genQueue) + MaxDuration * Hour

\* expected_last_event_time
ExpectedLastTime == firstTime + MaxDuration * Hour

InDuration == HeadTime(genQueue) <= ExpectedLastTime

\* The next event of the queue; of an empty one it is the NopEvent.
TakeEvent ==
    /\ firstTime # -1 /\ ~dumped
    /\ InDuration
    /\ Cardinality({i \in DOMAIN trace : trace[i].rate = NoBucket}) < MaxNops
    /\ \E e \in IF genQueue = {} THEN {NopEvent} ELSE genQueue :
        /\ genQueue # {} => IsHead(e, genQueue)
        /\ trace' = Append(trace, [e EXCEPT !.time = @ + StartEndOffset])
        /\ genQueue' = genQueue \ {e}
    /\ UNCHANGED <<shares, genLink, genUsed, firstTime, dumped>>

\* The loop ends; main writes the list to the file of the trace.
DumpTrace ==
    /\ firstTime # -1 /\ ~dumped
    /\ ~InDuration
    /\ dumped' = TRUE
    /\ UNCHANGED <<shares, genLink, genQueue, genUsed, firstTime, trace>>

GenNext == AddLink \/ StartCutting \/ TakeEvent \/ DumpTrace

GenFairness == WF_genVars(GenNext)

GenSpec == GenInit /\ [][GenNext]_genVars /\ GenFairness

-----------------------------------------------------------------------------
(* The assertion "generated rand number MUST fall in one of the ranges":   *)
(* every number has its range and no two ranges share one.  A bucket is    *)
(* drawn by as many numbers as its share says, the first by one more.      *)
RatesInShare ==
    /\ \A number \in 0 .. Whole :
        Cardinality({i \in DOMAIN shares : InRange(number, i)}) = 1
    /\ \A i \in DOMAIN shares :
        Cardinality({number \in 0 .. Whole : BucketOf(number) = i})
            = shares[i] + IF i = 1 THEN 1 ELSE 0

\* All failures, as the queue has them when the last is added.
Failures == genQueue \cup
    {[e EXCEPT !.time = @ - StartEndOffset] : e \in ToSet(trace)}

(***************************************************************************)
(* The trace that is written is all the failures in the wanted duration    *)
(* and no others, each once and in the order of their times: the queue of  *)
(* the simulation loads it without moving any.  It starts late enough for  *)
(* the first row of the output, which is dated before the first event.     *)
(* The loss rates come from the buckets by their shares.                   *)
(***************************************************************************)
TraceComplete ==
    dumped =>
        /\ RatesInShare
        /\ Len(trace) + Cardinality(genQueue) = TraceLinks * EventsPerLink
        /\ \A i \in DOMAIN trace : trace[i].rate \in DOMAIN shares
        /\ \A e \in Failures : e.time <= ExpectedLastTime <=>
                [e EXCEPT !.time = @ + StartEndOffset] \in ToSet(trace)
        /\ \A i, j \in DOMAIN trace : i < j => trace[i].time < trace[j].time
        /\ Scheduled(trace, {}).events = ToSet(trace)
        /\ trace[1].time - StartEndOffset >= 0

(***************************************************************************)
(* If some failure lies beyond the duration, the trace is written.  (If    *)
(* none does, the loop takes NopEvents from the empty queue for ever; ten  *)
(* failures per link are "sufficiently longer" than the durations used.)   *)
(***************************************************************************)
TraceWritten ==
    (firstTime # -1 /\ \E e \in genQueue : e.time > ExpectedLastTime) ~> dumped
=============================================================================
