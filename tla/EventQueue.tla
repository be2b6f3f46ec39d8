----------------------------- MODULE EventQueue ------------------------------
(***************************************************************************)
(* What the audio thread is promised by the scheduler: a bounded bag of    *)
(* events that gives back one with the lowest time.  Of events with equal  *)
(* times any may come first.                                               *)
(***************************************************************************)
EXTENDS Integers, FiniteSets

CONSTANTS
    Event,      \* the events, each with a time
    Room        \* how many events the queue holds at most

VARIABLE events \* the events in the queue

Earliest(e) == e \in events /\ \A f \in events : e.time <= f.time

\* An event is added, unless there is no room for it.
Enter(e) ==
    /\ e \in Event \ events
    /\ events' = IF Cardinality(events) < Room THEN events \cup {e} ELSE events

Leave(e) == Earliest(e) /\ events' = events \ {e}

Clear == events' = {}

EventInit == events = {}
EventNext == \/ \E e \in Event : Enter(e) \/ Leave(e)
             \/ Clear

EventSpec == EventInit /\ [][EventNext]_events

=============================================================================
