------------------------------ MODULE WormField ------------------------------
(***************************************************************************)
(* The field of worms: the touches and the timer of PWWormFieldView, the   *)
(* controller's list of worms, the life of every PWWorm with its           *)
(* EWSequence, and the order in which one tickNotification reaches them.   *)
(*                                                                         *)
(* Everything runs on the main thread.  Touches, the timer and the Clear   *)
(* button are only served when no notification is being posted; within a   *)
(* post the observers run one after the other, and they register and       *)
(* unregister observers while it goes on.                                  *)
(*                                                                         *)
(* Left out: geometry (any worm may be on or off screen, touch another or  *)
(* find something to eat), the display, and the kind of food eaten, which  *)
(* only selects a synth name.                                              *)
(***************************************************************************)
EXTENDS MatingScan, Timeline, Removal, FiniteSets

CONSTANTS
    Pitches,    \* the pitches notes may have
    Effects,    \* the ids of the effects worms may eat; 0 may be one of them
    MaxLength   \* bound: the longest sequence explored

ASSUME FieldAssumption ==
    /\ MaxLength \in Nat \ {0, 1}
    /\ Effects \subseteq Nat

VARIABLES
    creatingWorm,   \* the controller's flag
    currentWorm,    \* the worm being created, or NoWorm
    armed,          \* whether the view's stopTimer is running
    creating,       \* each worm's creating flag
    aged,           \* whether a worm's age is more than 0
    eaten,          \* the last effect a worm has eaten, or NoEffect
    dismantled,     \* how often a worm's synths have been dismantled
    timeline, pos, recording,   \* each worm's sequence
    observers,      \* the observers of tickNotification, in order
    pending         \* those the current post has still to call

fieldVars == <<creatingWorm, currentWorm, armed, creating, aged, eaten,
               dismantled, timeline, pos, recording, observers, pending>>
vars == <<scanVars, fieldVars>>
wormVars == <<creating, aged, eaten, dismantled>>
seqVars == <<timeline, pos, recording>>
touchVars == <<creatingWorm, currentWorm, armed>>

NoWorm == 0
NoEffect == -1

Controller == <<"controller", NoWorm>>
SequenceOf(w) == <<"sequence", w>>
WormOf(w) == <<"worm", w>>

-----------------------------------------------------------------------------
\* -[PWWorm dead]
Dead(w) == AllEvents(timeline[w]) = {}

\* clearWorm has been called; its first call drops the worm's splotches and
\* its registration, and any call has its synths freed.
Cleared(w) == dismantled[w] > 0

\* Mutant of Replaying: the first registration is left in place.
ReplayingTwice(w) == Append(observers, SequenceOf(w))

\* The observers after -[EWSequence play]: it unregisters and registers anew.
Replaying(w) ==
    Append(Without(observers, {SequenceOf(w)}), SequenceOf(w))

\* Mutant of Unregistered: a cleared worm stays registered.
StillRegistered(cleared) == observers

\* The observers after clearWorm of the given worms, whose sequences stay.
Unregistered(cleared) ==
    Without(observers, { WormOf(w) : w \in cleared })

\* The main thread waits in its run loop.
Idle == pending = << >> /\ ~Scanning

-----------------------------------------------------------------------------
Init ==
    /\ worms = << >> /\ born = 0
    /\ mating = [w \in Worm |-> FALSE]
    /\ lastDate = [w \in Worm |-> "nil"]
    /\ i = 0 /\ j = 0 /\ foundMate = FALSE
    /\ herd = 0 /\ gen = NoGeneration
    /\ creatingWorm = FALSE /\ currentWorm = NoWorm /\ armed = FALSE
    /\ creating = [w \in Worm |-> FALSE]
    /\ aged = [w \in Worm |-> FALSE]
    /\ eaten = [w \in Worm |-> NoEffect]
    /\ dismantled = [w \in Worm |-> 0]
    /\ timeline = [w \in Worm |-> EmptyTimeline]
    /\ pos = [w \in Worm |-> 0]
    /\ recording = [w \in Worm |-> FALSE]
    /\ observers = << Controller >>
    /\ pending = << >>

\* A touch on the border when no worm is being created: a worm is made, its
\* sequence registers before it does, and the timer is started.
StartCreatingWorm ==
    /\ Idle
    /\ ~creatingWorm
    /\ born < MaxWorms
    /\ LET w == born + 1 IN
         /\ born' = w
         /\ worms' = Append(worms, w)
         /\ currentWorm' = w
         /\ creating' = [creating EXCEPT ![w] = TRUE]
         /\ recording' = [recording EXCEPT ![w] = TRUE]
         /\ observers' = observers \o << SequenceOf(w), WormOf(w) >>
    /\ creatingWorm' = TRUE
    /\ armed' = TRUE
    /\ UNCHANGED <<pairVars, cursorVars, aged, eaten, dismantled,
                   timeline, pos, pending>>

\* A touch while a worm is being created: a note, and the timer again.
AddNote(p) ==
    /\ Idle
    /\ creatingWorm
    /\ timeline' = IF currentWorm = NoWorm THEN timeline
                   ELSE [timeline EXCEPT ![currentWorm] =
                            WithEvent(@, pos[currentWorm], p)]
    /\ armed' = TRUE
    /\ UNCHANGED <<scanVars, creatingWorm, currentWorm, wormVars,
                   pos, recording, observers, pending>>

\* The timer fires: stopCreating plays the sequence, which registers anew.
StopCreatingWorm ==
    /\ Idle
    /\ armed
    /\ armed' = FALSE
    /\ creatingWorm' = FALSE
    /\ currentWorm' = NoWorm
    /\ IF currentWorm = NoWorm
         THEN UNCHANGED <<creating, recording, observers>>
         ELSE /\ creating' = [creating EXCEPT ![currentWorm] = FALSE]
              /\ recording' = [recording EXCEPT ![currentWorm] = FALSE]
              /\ observers' = Replaying(currentWorm)
    /\ UNCHANGED <<scanVars, aged, eaten, dismantled, timeline, pos, pending>>

\* Mutant of ClearStuff: the worm being created is forgotten, its timer not.
ClearStuffForgetting ==
    /\ Idle
    /\ LET listed == { worms[k] : k \in DOMAIN worms } IN
         /\ dismantled' = [w \in Worm |-> IF w \in listed
                             THEN dismantled[w] + 1 ELSE dismantled[w]]
         /\ observers' = Unregistered(listed)
    /\ worms' = << >>
    /\ currentWorm' = NoWorm
    /\ UNCHANGED <<born, pairVars, cursorVars, creatingWorm, armed, creating,
                   aged, eaten, seqVars, pending>>

\* The Clear button: every worm of the list is cleared and leaves it.
ClearStuff ==
    /\ Idle
    /\ LET listed == { worms[k] : k \in DOMAIN worms } IN
         /\ dismantled' = [w \in Worm |-> IF w \in listed
                             THEN dismantled[w] + 1 ELSE dismantled[w]]
         /\ observers' = Unregistered(listed)
    /\ worms' = << >>
    /\ UNCHANGED <<born, pairVars, cursorVars, touchVars, creating, aged,
                   eaten, seqVars, pending>>

-----------------------------------------------------------------------------
(***************************************************************************)
(* A tick.  NSNotificationCenter calls the observers it had when the post  *)
(* began, in the order they registered.  The only one removed in a post is *)
(* the worm that has just been called, so none of them is skipped.         *)
(***************************************************************************)
PostTick ==
    /\ Idle
    /\ \A w \in Worm : recording[w] => Len(timeline[w]) < MaxLength
    /\ pending' = observers
    /\ UNCHANGED <<scanVars, touchVars, wormVars, seqVars, observers>>

\* o is called next.
Call(o) ==
    /\ ~Scanning
    /\ pending # << >>
    /\ Head(pending) = o
    /\ pending' = Tail(pending)

\* Mutant of Kept: the worm being created counts as dead before its first note.
KeptIfNotDead(w) == ~Dead(w)

\* Whether a tick of the controller leaves a worm in the list.
Kept(w) == ~(Dead(w) /\ ~creating[w])

\* -[PWViewController tick]: the dead worms leave the list, then the scan.
ControllerTick ==
    /\ Call(Controller)
    /\ StartScan(Without(worms, { w \in Worm : ~Kept(w) }))
    /\ UNCHANGED <<touchVars, wormVars, seqVars, observers>>

\* The rounds of the scan in which no worm is made.
ScanRound ==
    /\ Apart \/ MeetOnly \/ NextWorm
    /\ UNCHANGED fieldVars

\* The lengths offspringOf:and: chooses from: minLength plus a remainder.
NewLengths(mother, father) ==
    LET m == Len(timeline[mother])
        f == Len(timeline[father])
        minLength == IF m < f THEN m ELSE f
        lengthDiff == IF m < f THEN f - m ELSE m - f
    IN  { minLength + r : r \in 0 .. (IF lengthDiff > 0 THEN lengthDiff - 1 ELSE 0) }

\* The timelines of a baby: it is ticked before each of the newLength ticks
\* it copies, so a note of the mother's tick k, if it takes it over, is one
\* tick later.  Both notes it draws from are the mother's.
Inherited(mother, newLength) ==
    { tl \in [1 .. newLength + 1 -> {{}} \cup { {p} : p \in Pitches }] :
        /\ tl[1] = {}
        /\ \A k \in 1 .. newLength :
              tl[k + 1] \subseteq EventsAtTick(timeline[mother], k - 1) }

\* Mutant of InheritedEffects: the father's is taken over untested.
InheritedEffectsUntested(mother, father) ==
    {IF eaten[father] = NoEffect THEN 0 ELSE eaten[father]}
        \cup ({eaten[mother]} \ {0, NoEffect})

\* The effect a baby starts with.  An effectInBelly of 0 reads as none.
InheritedEffects(mother, father) ==
    LET ofFather == IF eaten[father] > 0 THEN eaten[father] ELSE NoEffect
    IN  {ofFather} \cup ({eaten[mother]} \ {0, NoEffect})

\* Mutant of Reared: play takes the sequence out after it has put it in.
RearedUnheard(baby) == Append(observers, WormOf(baby))

\* The observers after a baby has been made and has stopped creating, whose
\* sequence registered before it did and has been moved behind it by play.
Reared(baby) == observers \o << WormOf(baby), SequenceOf(baby) >>

\* A birth in the scan, with offspringOf:and: from its random choices to the
\* effect it has the baby eat.
Birth ==
    /\ MeetAndBear
    /\ LET baby == born + 1
           mother == worms[i]
           father == worms[j]
       IN  \E n \in NewLengths(mother, father) :
             /\ n < MaxLength
             /\ \E tl \in Inherited(mother, n) :
                  timeline' = [timeline EXCEPT ![baby] = tl]
             /\ pos' = [pos EXCEPT ![baby] = n]
             /\ \E e \in InheritedEffects(mother, father) :
                  eaten' = [eaten EXCEPT ![baby] = e]
             /\ observers' = Reared(baby)
    /\ UNCHANGED <<touchVars, creating, aged, dismantled, recording, pending>>

\* Mutant of NextPos: one tick past the end.
NextPosPastEnd(w) == (pos[w] + 1) % (Len(timeline[w]) + 1)

\* The tick worm w's sequence plays next.
NextPos(w) == (pos[w] + 1) % Len(timeline[w])

\* -[EWSequence tick] of worm w's sequence.
SequenceTick(w) ==
    /\ Call(SequenceOf(w))
    /\ IF recording[w]
         THEN /\ timeline' = [timeline EXCEPT ![w] = Grow(@)]
              /\ pos' = [pos EXCEPT ![w] = @ + 1]
         ELSE /\ pos' = [pos EXCEPT ![w] = NextPos(w)]
              /\ UNCHANGED timeline
    /\ UNCHANGED <<scanVars, touchVars, wormVars, recording, observers>>

\* -[PWWorm tick] of a worm still being created only draws.
CreatingTick(w) ==
    /\ Call(WormOf(w))
    /\ creating[w]
    /\ UNCHANGED <<scanVars, touchVars, wormVars, seqVars, observers>>

\* What decay: can leave of a timeline, by the age it was called with.
AfterDecay(w) ==
    IF aged[w]
      THEN { Decayed(timeline[w], lost) :
                lost \in [DOMAIN timeline[w] -> SUBSET Pitches] }
      ELSE { timeline[w] }

\* Mutant of Gone: only worms the controller still lists clear themselves.
GoneIfListed(w, offScreen) ==
    /\ offScreen
    /\ AllEvents(timeline'[w]) = {}
    /\ \E k \in DOMAIN worms : worms[k] = w

\* Whether the tick of a worm has it clear itself: off screen, and dead once
\* it has decayed.
Gone(w, offScreen) == offScreen /\ AllEvents(timeline'[w]) = {}

\* -[PWWorm tick] of a finished worm: it decays and ages; off screen and
\* dead, it clears itself; otherwise it crawls on and may eat an effect.
FinishedTick(w, offScreen) ==
    /\ Call(WormOf(w))
    /\ ~creating[w]
    /\ aged' = [aged EXCEPT ![w] = TRUE]
    /\ \E tl \in AfterDecay(w) : timeline' = [timeline EXCEPT ![w] = tl]
    /\ IF Gone(w, offScreen)
         THEN /\ dismantled' = [dismantled EXCEPT ![w] = @ + 1]
              /\ observers' = Unregistered({w})
              /\ UNCHANGED eaten
         ELSE /\ \E e \in {eaten[w]} \cup Effects :
                   eaten' = [eaten EXCEPT ![w] = e]
              /\ UNCHANGED <<dismantled, observers>>
    /\ UNCHANGED <<scanVars, touchVars, creating, pos, recording>>

\* Three seconds after its last baby, a worm may mate again.
SecondsPass ==
    /\ Idle
    /\ \E w \in Worm : TimePasses(w)
    /\ UNCHANGED fieldVars

Next ==
    \/ StartCreatingWorm
    \/ \E p \in Pitches : AddNote(p)
    \/ StopCreatingWorm
    \/ ClearStuff
    \/ PostTick
    \/ ControllerTick
    \/ ScanRound
    \/ Birth
    \/ \E w \in Worm : SequenceTick(w)
    \/ \E w \in Worm : CreatingTick(w)
    \/ \E w \in Worm, off \in BOOLEAN : FinishedTick(w, off)
    \/ SecondsPass

Spec == Init /\ [][Next]_vars

(***************************************************************************)
(* The ticker's timer repeats for ever, a post runs to its end, the player *)
(* pauses for 0.7 seconds at some point, and a worm, which crawls straight *)
(* on and is never wrapped round, leaves the screen.                       *)
(***************************************************************************)
InPost ==
    \/ ControllerTick
    \/ ScanRound
    \/ Birth
    \/ \E w \in Worm : SequenceTick(w) \/ CreatingTick(w)
    \/ \E w \in Worm, off \in BOOLEAN : FinishedTick(w, off)

Fairness ==
    /\ WF_vars(PostTick)
    /\ WF_vars(InPost)
    /\ WF_vars(StopCreatingWorm)
    /\ \A w \in Worm : SF_vars(FinishedTick(w, TRUE))

FairSpec == Spec /\ Fairness

-----------------------------------------------------------------------------
Made == 1 .. born
Listed == { worms[k] : k \in DOMAIN worms }

FieldTypeOK ==
    /\ ScanTypeOK
    /\ creatingWorm \in BOOLEAN /\ armed \in BOOLEAN
    /\ currentWorm \in Worm \cup {NoWorm}
    /\ creating \in [Worm -> BOOLEAN] /\ aged \in [Worm -> BOOLEAN]
    /\ eaten \in [Worm -> Effects \cup {NoEffect}]
    /\ dismantled \in [Worm -> Nat]
    /\ \A w \in Worm : timeline[w] \in Seq(SUBSET Pitches)
    /\ pos \in [Worm -> Nat]
    /\ recording \in [Worm -> BOOLEAN]

\* The controller's flag, the view's timer, the current worm and the worms'
\* own flags never disagree, even when Clear takes the worm being created:
\* a worm is being created exactly while a timer runs that will finish it,
\* and it is the only one.
CreationInStep ==
    /\ armed = creatingWorm
    /\ creatingWorm = (currentWorm # NoWorm)
    /\ \A w \in Worm : /\ creating[w] = (w = currentWorm)
                       /\ recording[w] = creating[w]

\* A sequence that records has pos at its last tick, so that a note goes
\* where it was played and playback starts with the first tick; one that
\* plays has pos within its timeline.
SequencesInStep ==
    \A w \in Made :
        IF recording[w] THEN pos[w] = Len(timeline[w]) - 1
                        ELSE pos[w] \in 0 .. Len(timeline[w]) - 1

\* play registers the sequence a second time and in another place, but no
\* worm and no sequence is ever called twice by one tick.
CalledOncePerTick ==
    \A k, l \in DOMAIN observers : k # l => observers[k] # observers[l]

\* A worm whose synths and splotches are gone is neither ticked nor scanned,
\* whether it cleared itself in the middle of a post or was cleared between
\* two posts while still listed.
ClearedStayOut ==
    \A w \in Made : Cleared(w) =>
        /\ \A k \in DOMAIN pending : pending[k] # WormOf(w)
        /\ Scanning => w \notin Listed

\* Clear misses only worms that are past playing: a worm with synths that is
\* not in the controller's list is finished and has no notes left.
OnlyTheDeadEscapeClear ==
    \A w \in Made :
        w \in Listed \/ Cleared(w) \/ (Dead(w) /\ ~creating[w])

\* Clear may dismantle a worm that has already dismantled itself and not yet
\* left the list, but no worm is dismantled a third time.
DismantledAtMostTwice == \A w \in Worm : dismantled[w] <= 2

\* No effect is sent to synths that have been dismantled.
NoEffectOnceCleared ==
    [][\A w \in Worm : eaten'[w] # eaten[w] => dismantled'[w] = 0]_vars

\* A finished worm that has lost its last note has its synths freed, although
\* the controller forgets it while it is still on the screen.
DeadAreDismantled ==
    \A w \in Worm :
        (w \in Made /\ Dead(w) /\ ~creating[w]) ~> Cleared(w)

\* The post that is on calls o next.
Called(o) == pending # << >> /\ Head(pending) = o

\* The loop of a worm is ticked again and again, whether it was drawn or born
\* in the middle of a post, and although play takes it out of the observers
\* and puts it in again, worms leave during a post, and Clear may take the
\* worm at any time: no post goes on for ever and no observer gets lost.
LoopsKeepPlaying == \A w \in Worm : w \in Made ~> Called(SequenceOf(w))

=============================================================================
