------------------------------- MODULE EWTicker ------------------------------
(***************************************************************************)
(* EWTicker (EWTiming.m): a timer of the run loop calls advance, which     *)
(* adds the time since the last call to currentTick and posts one tick for *)
(* every whole unit in it.  The date is read twice, before the posts and   *)
(* after them: what the observers take is not counted.  Dates are those of *)
(* the wall clock, which somebody may set back.                            *)
(*                                                                         *)
(* Time is counted in whole steps and currentTick in the same steps        *)
(* instead of in ticks, Unit steps being one tick.  Rounding of the float  *)
(* is left out.                                                            *)
(***************************************************************************)
EXTENDS Integers

CONSTANTS
    Nil,            \* no date
    Unit,           \* steps of time per tick (the timer's interval is a step)
    Jumps,          \* by how much the clock may be set back
    MaxTime,        \* bound: the last date explored
    MaxSetBacks     \* bound: how often the clock is set back

ASSUME TickerAssumption ==
    /\ Nil \notin Int
    /\ Unit \in Nat \ {0}
    /\ Jumps \subseteq Nat
    /\ MaxTime \in Nat /\ MaxSetBacks \in Nat

VARIABLES
    now,            \* what [NSDate date] answers
    timer,          \* whether there is a timer
    lastTickDate, currentTick,
    posting,        \* whether advance is at work
    ticks,          \* history: ticks posted
    first,          \* history: the date of the first advance
    latest,         \* history: the latest date there has been
    uncounted,      \* history: how far the clock moved while advance worked
    setBack, setBackPosting     \* history: how often it was set back at all,
                                \* and while advance worked

tickerVars == <<timer, lastTickDate, currentTick, posting, ticks, first>>
clockVars == <<now, latest, uncounted, setBack, setBackPosting>>
vars == <<tickerVars, clockVars>>

Init ==
    /\ now = 0 /\ latest = 0
    /\ timer = FALSE
    /\ lastTickDate = Nil /\ currentTick = 0
    /\ posting = FALSE /\ ticks = 0 /\ first = 0
    /\ uncounted = 0 /\ setBack = 0 /\ setBackPosting = 0

-----------------------------------------------------------------------------
\* Time passes between calls of advance or while observers run.
TimePasses ==
    /\ now < MaxTime
    /\ now' = now + 1
    /\ latest' = IF now' > latest THEN now' ELSE latest
    /\ uncounted' = IF posting THEN uncounted + 1 ELSE uncounted
    /\ UNCHANGED <<tickerVars, setBack, setBackPosting>>

SetBack(d) ==
    /\ setBack < MaxSetBacks
    /\ setBack' = setBack + 1
    /\ setBackPosting' = IF posting THEN setBackPosting + 1 ELSE setBackPosting
    /\ now' = now - d
    /\ uncounted' = IF posting THEN uncounted - d ELSE uncounted
    /\ UNCHANGED <<tickerVars, latest>>

Start ==
    /\ timer' = TRUE
    /\ UNCHANGED <<lastTickDate, currentTick, posting, ticks, first, clockVars>>

\* stop keeps the date and the fraction of a tick.
Stop ==
    /\ timer' = FALSE
    /\ UNCHANGED <<lastTickDate, currentTick, posting, ticks, first, clockVars>>

\* The first call of advance only takes the date.
FirstAdvance ==
    /\ timer /\ ~posting
    /\ lastTickDate = Nil
    /\ lastTickDate' = now /\ first' = now
    /\ UNCHANGED <<timer, currentTick, posting, ticks, clockVars>>

\* Mutant of Advance: a negative time is taken for none.
AdvanceForwardOnly ==
    /\ timer /\ ~posting
    /\ lastTickDate # Nil
    /\ currentTick' = IF now > lastTickDate THEN currentTick + (now - lastTickDate)
                                            ELSE currentTick
    /\ posting' = TRUE
    /\ UNCHANGED <<timer, lastTickDate, ticks, first, clockVars>>

Advance ==
    /\ timer /\ ~posting
    /\ lastTickDate # Nil
    /\ currentTick' = currentTick + (now - lastTickDate)
    /\ posting' = TRUE
    /\ UNCHANGED <<timer, lastTickDate, ticks, first, clockVars>>

\* Mutant of TickDue: a tick is due as soon as the unit is full.
TickDueAtOne == currentTick >= Unit

TickDue == currentTick > Unit

\* Mutant of Post: the fraction is dropped with the tick.
PostForgetting ==
    /\ posting /\ TickDue
    /\ ticks' = ticks + 1
    /\ currentTick' = 0
    /\ UNCHANGED <<timer, lastTickDate, posting, first, clockVars>>

Post ==
    /\ posting /\ TickDue
    /\ ticks' = ticks + 1
    /\ currentTick' = currentTick - Unit
    /\ UNCHANGED <<timer, lastTickDate, posting, first, clockVars>>

\* No tick is due any more: advance takes the date again.
AdvanceEnds ==
    /\ posting /\ ~TickDue
    /\ posting' = FALSE
    /\ lastTickDate' = now
    /\ UNCHANGED <<timer, currentTick, ticks, first, clockVars>>

Next ==
    \/ TimePasses
    \/ \E d \in Jumps : SetBack(d)
    \/ Start \/ Stop
    \/ FirstAdvance \/ Advance \/ Post \/ AdvanceEnds

Spec == Init /\ [][Next]_vars

-----------------------------------------------------------------------------
TypeOK ==
    /\ now \in Int /\ latest \in Int /\ first \in Int /\ uncounted \in Int
    /\ timer \in BOOLEAN /\ posting \in BOOLEAN
    /\ lastTickDate \in Int \cup {Nil}
    /\ currentTick \in Int
    /\ ticks \in Nat /\ setBack \in Nat /\ setBackPosting \in Nat

\* The time advance has taken account of: to the date it read when it began,
\* less what passed while it was at work.
Counted == (IF posting THEN now ELSE lastTickDate) - first - uncounted

\* No time is dropped and none counted twice: the ticks posted and the
\* fraction left make up the time since the first advance, save what passed
\* while advance itself worked, across stops, starts and a clock set back.
TimeAccounted ==
    lastTickDate # Nil => ticks * Unit + currentTick = Counted

\* If the clock was never set back, advance leaves no tick outstanding, has
\* posted none too many, and a tick that falls on the very date waits.
OnTime ==
    (lastTickDate # Nil /\ ~posting /\ setBack = 0) =>
        /\ Counted <= (ticks + 1) * Unit
        /\ ticks > 0 => ticks * Unit < Counted

\* The ticks never run ahead of the latest date there has been, although the
\* time after a clock was set back is passed twice; only a clock set back
\* while observers are running can bring that about.
NeverAhead ==
    setBackPosting = 0 => ticks * Unit <= latest - first

=============================================================================
