----------------------------- MODULE EventQueue ------------------------------
(***************************************************************************)
(* The queue of link events that the trace generator and the simulation    *)
(* share.  Every time is given to one event only: an event that is added   *)
(* with a time some event had before is moved to the next free one.        *)
(***************************************************************************)
EXTENDS Integers, FiniteSets, Sequences, SequencesExt

\* Mutant of FreeTime: events may have the same time.
SameTime(time, used) == time

\* add_event: the first time from the wanted one on that no event had yet
FreeTime(time, used) ==
    CHOOSE t \in time .. time + Cardinality(used) :
        t \notin used /\ time .. t - 1 \subseteq used

\* The events with their times moved apart, in the order they are added.
Scheduled(events, used) ==
    FoldLeft(LAMBDA acc, e :
                LET t == FreeTime(e.time, acc.used)
                IN  [events |-> acc.events \cup {[e EXCEPT !.time = t]},
                     used   |-> acc.used \cup {t}],
             [events |-> {}, used |-> used], events)

\* get_next_event: the heap hands out the event with the least time.
IsHead(e, queue) == e \in queue /\ \A other \in queue : e.time <= other.time

\* get_head_event_time: 0 for an empty queue
HeadTime(queue) ==
    IF queue = {} THEN 0 ELSE (CHOOSE e \in queue : IsHead(e, queue)).time
=============================================================================
