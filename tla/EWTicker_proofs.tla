--------------------------- MODULE EWTicker_proofs ---------------------------
(***************************************************************************)
(* Theorems about EWTicker for every unit, every number of steps the clock *)
(* is set back by, and every bound on dates.                               *)
(*                                                                         *)
(* TimeAccounted is kept by every step once it is known that advance works *)
(* only with a date taken.  The other two properties also need what is     *)
(* left in currentTick: a tick at most between two calls, and without a    *)
(* clock set back more than nothing once a tick was posted.                *)
(***************************************************************************)
EXTENDS EWTicker, TLAPS

\* Before the first advance nothing is counted; advance needs a date.
Dated ==
    /\ posting => lastTickDate # Nil
    /\ lastTickDate = Nil => ticks = 0 /\ currentTick = 0 /\ uncounted = 0

\* Every date taken has been reached by the clock.
DatesReached ==
    /\ now <= latest /\ first <= latest
    /\ setBackPosting <= setBack
    /\ setBackPosting = 0 => uncounted >= 0
    /\ (setBack = 0 /\ lastTickDate # Nil) => lastTickDate <= now

\* What currentTick may be.
Fraction ==
    /\ ~posting => currentTick <= Unit
    /\ setBack = 0 => currentTick >= 0
    /\ (setBack = 0 /\ ticks > 0) => currentTick > 0

TickerInv == TypeOK /\ Dated /\ DatesReached /\ Fraction /\ TimeAccounted
             /\ NeverAhead

\* One tick more is one unit of time more.
LEMMA OneTickMore ==
    ASSUME NEW n \in Nat
    PROVE  /\ n * Unit \in Int
           /\ (n + 1) * Unit = n * Unit + Unit
  BY TickerAssumption, SMT

\* Initially nothing is counted.
LEMMA InvInit == Init => TickerInv
  <1> SUFFICES ASSUME Init PROVE TickerInv
    OBVIOUS
  <1>1. ticks * Unit = 0
    BY TickerAssumption DEF Init
  <1>2. timer \in BOOLEAN /\ posting \in BOOLEAN /\ lastTickDate \in {Nil}
    BY Zenon DEF Init
  <1>3. TypeOK
    BY <1>2, SMT DEF Init, TypeOK
  <1>4. Dated /\ DatesReached /\ Fraction
    BY TickerAssumption DEF Init, Dated, DatesReached, Fraction
  <1>5. TimeAccounted /\ NeverAhead
    BY <1>1 DEF Init, TimeAccounted, NeverAhead
  <1> QED
    BY <1>3, <1>4, <1>5 DEF TickerInv

\* Every step keeps the invariant.
LEMMA InvStep == TickerInv /\ [Next]_vars => TickerInv'
  <1> SUFFICES ASSUME TickerInv, [Next]_vars PROVE TickerInv'
    OBVIOUS
  <1> USE TickerAssumption
  <1>0. ticks * Unit \in Int /\ (ticks + 1) * Unit = ticks * Unit + Unit
    BY OneTickMore DEF TickerInv, TypeOK
  <1>1. CASE TimePasses
    <2> USE <1>1 DEF TimePasses, tickerVars
    <2>1. TypeOK'
      BY DEF TickerInv, TypeOK
    <2>2. Dated' /\ DatesReached' /\ Fraction'
      BY DEF TickerInv, TypeOK, Dated, DatesReached, Fraction
    <2>3. TimeAccounted' /\ NeverAhead'
      BY <1>0 DEF TickerInv, TypeOK, Dated, DatesReached, TimeAccounted, Counted,
                  NeverAhead
    <2> QED
      BY <2>1, <2>2, <2>3 DEF TickerInv
  <1>2. CASE \E d \in Jumps : SetBack(d)
    <2> PICK d \in Jumps : SetBack(d)
      BY <1>2
    <2> USE DEF SetBack, tickerVars
    <2>0. d \in Nat
      OBVIOUS
    <2>1. TypeOK'
      BY <2>0 DEF TickerInv, TypeOK
    <2>2. Dated' /\ DatesReached' /\ Fraction'
      BY <2>0 DEF TickerInv, TypeOK, Dated, DatesReached, Fraction
    <2>3. TimeAccounted' /\ NeverAhead'
      BY <1>0, <2>0 DEF TickerInv, TypeOK, Dated, DatesReached, TimeAccounted,
                        Counted, NeverAhead
    <2> QED
      BY <2>1, <2>2, <2>3 DEF TickerInv
  <1>3. CASE Start \/ Stop
    <2>1. /\ timer' \in BOOLEAN
          /\ UNCHANGED <<lastTickDate, currentTick, posting, ticks, first, clockVars>>
      BY <1>3 DEF Start, Stop
    <2>2. TypeOK'
      BY <2>1 DEF TickerInv, TypeOK, clockVars
    <2>3. Dated' /\ DatesReached' /\ Fraction'
      BY <2>1 DEF TickerInv, Dated, DatesReached, Fraction, clockVars
    <2>4. TimeAccounted' /\ NeverAhead'
      BY <2>1 DEF TickerInv, TimeAccounted, Counted, NeverAhead, clockVars
    <2> QED
      BY <2>2, <2>3, <2>4 DEF TickerInv
  <1>4. CASE FirstAdvance
    <2> USE <1>4 DEF FirstAdvance, clockVars
    <2>1. TypeOK'
      BY DEF TickerInv, TypeOK
    <2>2. Dated' /\ DatesReached' /\ Fraction'
      BY DEF TickerInv, TypeOK, Dated, DatesReached, Fraction
    <2>3. ticks = 0 /\ ticks * Unit = 0
      BY DEF TickerInv, Dated
    <2>4. TimeAccounted' /\ NeverAhead'
      BY <2>3 DEF TickerInv, TypeOK, Dated, DatesReached, TimeAccounted, Counted,
                  NeverAhead
    <2> QED
      BY <2>1, <2>2, <2>4 DEF TickerInv
  <1>5. CASE Advance
    <2> USE <1>5 DEF Advance, clockVars
    <2>1. TypeOK' /\ lastTickDate \in Int
      BY DEF TickerInv, TypeOK
    <2>2. Dated' /\ DatesReached' /\ Fraction'
      BY <2>1 DEF TickerInv, TypeOK, Dated, DatesReached, Fraction
    <2>3. TimeAccounted' /\ NeverAhead'
      BY <1>0, <2>1 DEF TickerInv, TypeOK, TimeAccounted, Counted, NeverAhead
    <2> QED
      BY <2>1, <2>2, <2>3 DEF TickerInv
  <1>6. CASE Post
    <2> USE <1>6 DEF Post, TickDue, clockVars
    <2>1. TypeOK'
      BY DEF TickerInv, TypeOK
    <2>2. Dated' /\ DatesReached' /\ Fraction'
      BY DEF TickerInv, TypeOK, Dated, DatesReached, Fraction
    <2>3. ticks' * Unit = ticks * Unit + Unit
      BY <1>0
    <2>4. TimeAccounted'
      BY <1>0, <2>3 DEF TickerInv, TypeOK, Dated, TimeAccounted, Counted
    <2>5. NeverAhead'
      BY <1>0, <2>3 DEF TickerInv, TypeOK, Dated, DatesReached, TimeAccounted,
                        Counted, NeverAhead
    <2> QED
      BY <2>1, <2>2, <2>4, <2>5 DEF TickerInv
  <1>7. CASE AdvanceEnds
    <2> USE <1>7 DEF AdvanceEnds, TickDue, clockVars
    <2>1. TypeOK' /\ lastTickDate \in Int
      BY DEF TickerInv, TypeOK, Dated
    <2>2. Dated' /\ DatesReached' /\ Fraction'
      BY <2>1 DEF TickerInv, TypeOK, Dated, DatesReached, Fraction
    <2>3. TimeAccounted' /\ NeverAhead'
      BY <1>0, <2>1 DEF TickerInv, TypeOK, Dated, TimeAccounted, Counted, NeverAhead
    <2> QED
      BY <2>1, <2>2, <2>3 DEF TickerInv
  <1>8. CASE UNCHANGED vars
    BY <1>8 DEF vars, tickerVars, clockVars, TickerInv, TypeOK, Dated,
        DatesReached, Fraction, TimeAccounted, Counted, NeverAhead
  <1> QED
    BY <1>1, <1>2, <1>3, <1>4, <1>5, <1>6, <1>7, <1>8 DEF Next

\* The invariant gives the bounds on what has been posted.
LEMMA InvOnTime == TickerInv => OnTime
  <1> SUFFICES ASSUME TickerInv, lastTickDate # Nil, ~posting, setBack = 0
               PROVE  /\ Counted <= (ticks + 1) * Unit
                      /\ ticks > 0 => ticks * Unit < Counted
    BY DEF OnTime
  <1>1. ticks * Unit \in Int /\ (ticks + 1) * Unit = ticks * Unit + Unit
    BY OneTickMore DEF TickerInv, TypeOK
  <1> QED
    BY <1>1, TickerAssumption DEF TickerInv, TypeOK, Fraction, TimeAccounted, Counted

\* The invariant holds in every state.
LEMMA InvAlways == Spec => []TickerInv
  BY InvInit, InvStep, PTL DEF Spec

\* For every unit of time, however slow the observers are, however often the
\* ticker is stopped and however the clock is set back, the ticks and the
\* fraction account for all time advance has counted.
THEOREM TimeAlwaysAccounted == Spec => []TimeAccounted
  <1>1. TickerInv => TimeAccounted
    BY DEF TickerInv
  <1> QED
    BY <1>1, InvAlways, PTL

\* advance leaves no tick outstanding and posts none too many.
THEOREM AlwaysOnTime == Spec => []OnTime
  BY InvOnTime, InvAlways, PTL

\* Ticks run ahead of the clock only if it is set back while observers run.
THEOREM TicksNeverAhead == Spec => []NeverAhead
  <1>1. TickerInv => NeverAhead
    BY DEF TickerInv
  <1> QED
    BY <1>1, InvAlways, PTL

=============================================================================
