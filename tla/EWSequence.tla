----------------------------- MODULE EWSequence -----------------------------
(***************************************************************************)
(* One EWSequence (EWTiming.m), used through its whole interface by a      *)
(* client on the main thread and ticked by the notification centre.        *)
(*                                                                         *)
(* drift: is the only method whose loop is visible here: it reads slots it *)
(* has itself just written, so each round of its outer loop is a step.     *)
(* Nothing else runs on the main thread until the scan is over.            *)
(***************************************************************************)
EXTENDS Timeline

CONSTANTS
    Events,     \* the events clients may add
    MaxLength,  \* bound: the longest timeline explored
    MaxEdits    \* bound: how many calls other than tick the client makes

ASSUME SequenceAssumption ==
    /\ MaxLength \in Nat \ {0}
    /\ MaxEdits \in Nat

VARIABLES
    timeline,   \* the array of sets of events
    pos,        \* index of the tick played or recorded last, from 0
    recording,  \* the flag record sets and play and stop clear
    observing,  \* whether tick is registered for tickNotification
    driftAt,    \* the slot drift: scans next, or NotDrifting
    fired,      \* the events the last tick fired
    edits       \* how many calls the client has made

vars == <<timeline, pos, recording, observing, driftAt, fired, edits>>

NotDrifting == -1

-----------------------------------------------------------------------------
Init ==
    /\ timeline = EmptyTimeline
    /\ pos = 0
    /\ recording = FALSE
    /\ observing = FALSE
    /\ driftAt = NotDrifting
    /\ fired = {}
    /\ edits = 0

\* A client call starts: the main thread is free and the bound not spent.
Edit ==
    /\ driftAt = NotDrifting
    /\ edits < MaxEdits
    /\ edits' = edits + 1
    /\ UNCHANGED fired

\* Mutant of PosAfterResize: off by one.
PosAfterResizeLate(newLength) ==
    IF newLength < Len(timeline) /\ pos > newLength THEN 0 ELSE pos

\* setLength: resets pos when it has cut off the tick pos is at.
PosAfterResize(newLength) ==
    IF newLength < Len(timeline) /\ pos >= newLength THEN 0 ELSE pos

SetLength(newLength) ==
    /\ Edit
    /\ IF newLength > 0
         THEN /\ timeline' = Resized(timeline, newLength)
              /\ pos' = PosAfterResize(newLength)
         ELSE UNCHANGED <<timeline, pos>>
    /\ UNCHANGED <<recording, observing, driftAt>>

AddEvent(e) ==
    /\ Edit
    /\ timeline' = WithEvent(timeline, pos, e)
    /\ UNCHANGED <<pos, recording, observing, driftAt>>

AddEventAtTick(e, tick) ==
    /\ Edit
    /\ timeline' = IF IsTick(timeline, tick)
                     THEN WithEvent(timeline, tick, e) ELSE timeline
    /\ UNCHANGED <<pos, recording, observing, driftAt>>

PoopEvent(e) ==
    /\ Edit
    /\ timeline' = WithoutEvent(timeline, e)
    /\ UNCHANGED <<pos, recording, observing, driftAt>>

Decay(lost) ==
    /\ Edit
    /\ timeline' = Decayed(timeline, lost)
    /\ UNCHANGED <<pos, recording, observing, driftAt>>

\* drift: is entered ...
Drift ==
    /\ Edit
    /\ driftAt' = 0
    /\ UNCHANGED <<timeline, pos, recording, observing>>

\* ... and scans one slot; moved are the events whose number came up.
DriftSlot(moved) ==
    /\ driftAt # NotDrifting
    /\ moved \subseteq timeline[driftAt + 1]
    /\ timeline' = Drifted(timeline, driftAt, moved)
    /\ driftAt' = IF driftAt + 1 < Len(timeline)
                    THEN driftAt + 1 ELSE NotDrifting
    /\ UNCHANGED <<pos, recording, observing, fired, edits>>

Record ==
    /\ Edit
    /\ recording' = TRUE
    /\ observing' = TRUE
    /\ UNCHANGED <<timeline, pos, driftAt>>

Play ==
    /\ Edit
    /\ recording' = FALSE
    /\ observing' = TRUE
    /\ UNCHANGED <<timeline, pos, driftAt>>

Stop ==
    /\ Edit
    /\ recording' = FALSE
    /\ observing' = FALSE
    /\ UNCHANGED <<timeline, pos, driftAt>>

\* Mutant of Reset: ready for the next tick to play the first one.
ResetBeforeFirst ==
    /\ Edit
    /\ pos' = -1
    /\ UNCHANGED <<timeline, recording, observing, driftAt>>

Reset ==
    /\ Edit
    /\ pos' = 0
    /\ UNCHANGED <<timeline, recording, observing, driftAt>>

\* The two branches of tick, delivered by the notification centre.
RecordTick ==
    /\ observing
    /\ driftAt = NotDrifting
    /\ recording
    /\ Len(timeline) < MaxLength
    /\ timeline' = Grow(timeline)
    /\ pos' = pos + 1
    /\ UNCHANGED <<recording, observing, driftAt, fired, edits>>

\* Mutant of NextPos: the last tick is left out of the loop.
NextPosShort == IF pos + 1 < Len(timeline) - 1 THEN pos + 1 ELSE 0

\* The tick played after the one at pos.
NextPos == (pos + 1) % Len(timeline)

\* Mutant of PlayTick: it fires before it moves on.
PlayTickFiringFirst ==
    /\ observing
    /\ driftAt = NotDrifting
    /\ ~recording
    /\ fired' = timeline[pos + 1]
    /\ pos' = NextPos
    /\ UNCHANGED <<timeline, recording, observing, driftAt, edits>>

PlayTick ==
    /\ observing
    /\ driftAt = NotDrifting
    /\ ~recording
    /\ pos' = NextPos
    /\ fired' = timeline[pos' + 1]
    /\ UNCHANGED <<timeline, recording, observing, driftAt, edits>>

Tick == RecordTick \/ PlayTick

Next ==
    \/ \E n \in -1 .. MaxLength : SetLength(n)
    \/ \E e \in Events : AddEvent(e)
    \/ \E e \in Events, t \in -1 .. MaxLength : AddEventAtTick(e, t)
    \/ \E e \in Events : PoopEvent(e)
    \/ \E lost \in [DOMAIN timeline -> SUBSET Events] : Decay(lost)
    \/ Drift
    \/ \E moved \in SUBSET Events : DriftSlot(moved)
    \/ Record
    \/ Play
    \/ Stop
    \/ Reset
    \/ RecordTick
    \/ PlayTick

Spec == Init /\ [][Next]_vars

\* The ticker's timer repeats for ever and a scan is a loop the thread is in.
Fairness ==
    /\ WF_vars(Tick)
    /\ WF_vars(\E moved \in SUBSET Events : DriftSlot(moved))

FairSpec == Spec /\ Fairness

-----------------------------------------------------------------------------
(***************************************************************************)
(* The calls PWWorm makes: initWithView: records at once, addNoteWithPitch:*)
(* adds events while it records, stopCreating plays, and decay: is called  *)
(* only after that.                                                        *)
(***************************************************************************)
WormInit ==
    /\ timeline = EmptyTimeline
    /\ pos = 0
    /\ recording = TRUE
    /\ observing = TRUE
    /\ driftAt = NotDrifting
    /\ fired = {}
    /\ edits = 0

WormNext ==
    \/ recording /\ \E e \in Events : AddEvent(e)
    \/ recording /\ Play
    \/ ~recording /\ \E lost \in [DOMAIN timeline -> SUBSET Events] : Decay(lost)
    \/ RecordTick
    \/ PlayTick

WormSpec == WormInit /\ [][WormNext]_vars

-----------------------------------------------------------------------------
TypeOK ==
    /\ timeline \in Seq(SUBSET Events)
    /\ pos \in Nat
    /\ recording \in BOOLEAN
    /\ observing \in BOOLEAN
    /\ driftAt \in Int
    /\ fired \in SUBSET Events
    /\ edits \in Nat

\* Wherever the calls and ticks interleave, pos is an index of the timeline
\* and so is the slot drift: scans: objectAtIndex: never raises, and the
\* remainder by timeline.count never divides by zero.
IndexesInRange ==
    /\ pos \in 0 .. Len(timeline) - 1
    /\ driftAt = NotDrifting \/ driftAt \in 0 .. Len(timeline) - 1

\* drift: neither loses nor invents an event, however often one call carries
\* the same event on, past the end of the array or within an array of one.
DriftConserves ==
    [][driftAt # NotDrifting => AllEvents(timeline') = AllEvents(timeline)]_vars

\* Once the client has stopped changing it, a playing sequence fires every
\* event it holds: no tick of the loop is skipped, wherever pos was left by
\* setLength:, reset, record or play.
EveryEventFires ==
    \A e \in Events :
        (/\ edits = MaxEdits
         /\ observing /\ ~recording
         /\ driftAt = NotDrifting
         /\ e \in AllEvents(timeline)) ~> e \in fired

=============================================================================
