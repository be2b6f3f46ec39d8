---------------------------- MODULE SchedulerHeap ----------------------------
(***************************************************************************)
(* The scheduler of the server (PriorityQueueT in PriorityQueue.h): a heap *)
(* in an array, in which the event at k is not later than those at 2k+1    *)
(* and 2k+2.  NextTime reads the first slot without looking at the size,   *)
(* so an empty queue keeps a time there that is later than any other.      *)
(*                                                                         *)
(* All calls come from the audio thread.  An event has a time and stands   *)
(* for one packet; two events may have the same time.                      *)
(***************************************************************************)
EXTENDS Integers, FiniteSets

CONSTANTS
    Packets,    \* the packets that may be scheduled
    Times,      \* the times they may be stamped with
    N           \* how many events there is room for (2048)

\* Times are 64-bit numbers, so there is a last one.
ASSUME HeapAssumption ==
    /\ N \in Nat \ {0}
    /\ Times \subseteq Nat /\ \E t \in Times : \A u \in Times : u <= t

VARIABLES
    mEvents,    \* the array; what lies beyond mSize is left over
    mSize       \* the number of events in the heap

vars == <<mEvents, mSize>>

Slots == 0 .. N - 1
Event == [time : Times, packet : Packets]

\* Later than every time an event can have.
kMaxInt64 == 1 + CHOOSE t \in Times : \A u \in Times : u <= t

\* The times of slots nothing was put in yet, and of an emptied queue.
Unused == [time |-> 0, packet |-> "none"]
EmptyTime == [time |-> kMaxInt64, packet |-> "none"]

Held == { mEvents[k] : k \in 0 .. mSize - 1 }

NextTime == mEvents[0].time

-----------------------------------------------------------------------------
Init ==
    /\ mEvents = [k \in Slots |-> IF k = 0 THEN EmptyTime ELSE Unused]
    /\ mSize = 0

Mom(me) == (me - 1) \div 2

\* The array after Add has moved the moms of slot me down, as long as they
\* are later than e, and put e in the last place freed.
PercolatedUp(start, e) ==
    LET up[me \in Slots] ==
          IF me > 0 /\ e.time < mEvents[Mom(me)].time
            THEN [up[Mom(me)] EXCEPT ![me] = mEvents[Mom(me)]]
            ELSE [mEvents EXCEPT ![me] = e]
    IN  up[start]

\* Mutant of Add: a full queue gives up its last event.
AddOverLast(e) ==
    /\ \A held \in Held : held.packet # e.packet
    /\ LET at == IF mSize >= N THEN N - 1 ELSE mSize IN
         /\ mEvents' = PercolatedUp(at, e)
         /\ mSize' = at + 1

\* An event for a packet that is not scheduled yet is added, or refused.
Add(e) ==
    /\ \A held \in Held : held.packet # e.packet
    /\ IF mSize >= N
         THEN UNCHANGED vars
         ELSE /\ mEvents' = PercolatedUp(mSize, e)
              /\ mSize' = mSize + 1

\* Mutant of EarlierChild: always the left one.
LeftChild(mom, size) == 2 * mom + 1

\* The child of slot mom that Remove compares with, of a heap of that size.
EarlierChild(mom, size) ==
    LET me == 2 * mom + 1
    IN  IF me + 1 < size /\ mEvents[me].time > mEvents[me + 1].time
          THEN me + 1 ELSE me

\* The array after Remove has moved children up from slot 0, as long as they
\* are earlier than temp, and put temp in the last place freed.
Demoted(temp, size) ==
    LET down[mom \in Slots] ==
          LET me == EarlierChild(mom, size)
          IN  IF me < size /\ temp.time > mEvents[me].time
                THEN [down[me] EXCEPT ![mom] = mEvents[me]]
                ELSE [mEvents EXCEPT ![mom] = temp]
    IN  down[0]

\* Mutant of Vacated: the first slot keeps the time of the event removed.
VacatedAsIs == mEvents

\* The array after the last event has gone.
Vacated == [mEvents EXCEPT ![0].time = kMaxInt64]

\* The audio thread takes out every event that is due by the end of the
\* buffer it computes.
Remove(nextTime) ==
    /\ NextTime <= nextTime
    /\ mSize' = mSize - 1
    /\ mEvents' = IF mSize = 1 THEN Vacated
                               ELSE Demoted(mEvents[mSize - 1], mSize - 1)

Empty ==
    /\ mSize' = 0
    /\ mEvents' = Vacated

Next ==
    \/ \E e \in Event : Add(e)
    \/ \E t \in Times : Remove(t)
    \/ Empty

Spec == Init /\ [][Next]_vars

-----------------------------------------------------------------------------
TypeOK ==
    /\ mSize \in 0 .. N
    /\ DOMAIN mEvents = Slots
    /\ \A k \in 0 .. mSize - 1 : mEvents[k] \in Event

\* No event is earlier than its mom: demoting and percolating along one path
\* keeps all the other paths in order.
HeapOrdered ==
    \A k \in 1 .. mSize - 1 : mEvents[Mom(k)].time <= mEvents[k].time

\* What NextTime answers, without looking at the size, is the earliest time
\* of all events, and past every buffer when there is none: Remove is never
\* called on an empty queue.
NextTimeIsEarliest ==
    IF mSize = 0 THEN \A t \in Times : NextTime > t
                 ELSE \A e \in Held : NextTime <= e.time

Abstract == INSTANCE EventQueue WITH Room <- N, events <- Held

\* The heap implements a bounded queue of events in time order: none is lost
\* or doubled by the moves in the array.
IsEventQueue == Abstract!EventSpec

=============================================================================
