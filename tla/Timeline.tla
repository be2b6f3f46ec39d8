------------------------------ MODULE Timeline ------------------------------
(***************************************************************************)
(* The timeline of an EWSequence (EWTiming.m): a non-empty array of sets   *)
(* of events, indexed by tick.  The array is a TLA+ sequence, so tick i of *)
(* the code (counted from 0) is element i+1.                               *)
(*                                                                         *)
(* These operators only compute timelines.  EWSequence uses them for one   *)
(* sequence on its own, WormField for the sequence of every worm.          *)
(***************************************************************************)
EXTENDS Integers, Sequences

\* -[EWSequence init]: one tick with no events.
EmptyTimeline == << {} >>

\* One tick without events added at the end, as -[EWSequence tick] does when
\* it records and -[EWSequence setLength:] when it grows the array.
Grow(tl) == Append(tl, {})

\* -[EWSequence setLength:] for a positive length.
Resized(tl, n) ==
    [k \in 1 .. n |-> IF k <= Len(tl) THEN tl[k] ELSE {}]

\* -[EWSequence allEvents]
AllEvents(tl) == UNION { tl[k] : k \in DOMAIN tl }

\* Whether tick is an index of the array, the test of addEvent:atTick: and
\* of eventsAtTick:.
IsTick(tl, tick) == tick >= 0 /\ tick < Len(tl)

\* -[EWSequence eventsAtTick:]; the nil it answers out of range is the empty
\* set to its callers, which only enumerate it or take anyObject from it.
EventsAtTick(tl, tick) == IF IsTick(tl, tick) THEN tl[tick + 1] ELSE {}

\* One event put into the set of one tick (addEvent: and addEvent:atTick:).
WithEvent(tl, tick, e) == [tl EXCEPT ![tick + 1] = @ \cup {e}]

\* -[EWSequence poopEvent:]
WithoutEvent(tl, e) == [k \in DOMAIN tl |-> tl[k] \ {e}]

\* -[EWSequence decay:] once the dice are thrown: lost[k] are the events
\* whose number came up while tick k-1 was scanned.
Decayed(tl, lost) == [k \in DOMAIN tl |-> tl[k] \ lost[k]]

\* Mutant of Drifted: the events join the next tick before they leave.
DriftedJoinFirst(tl, i, moved) ==
    LET dst == ((i + 1) % Len(tl)) + 1
        joined == [tl EXCEPT ![dst] = @ \cup moved]
    IN  [joined EXCEPT ![i + 1] = @ \ moved]

\* One round of the outer loop of -[EWSequence drift:]: the events in moved
\* leave tick i and then join the next tick, which is tick 0 after the last
\* one, and tick i itself when the array has only one.
Drifted(tl, i, moved) ==
    LET src == i + 1
        dst == ((i + 1) % Len(tl)) + 1
        out == [tl EXCEPT ![src] = @ \ moved]
    IN  [out EXCEPT ![dst] = @ \cup moved]

=============================================================================
