-------------------------- MODULE EWSequence_proofs --------------------------
(***************************************************************************)
(* Proofs about EWSequence, for any set of events and any bounds, and that *)
(* a worm's sequence implements LoopTape.                                  *)
(***************************************************************************)
EXTENDS MCEWSequence, TLAPS

\* The inductive invariant: the types, the indexes, and a timeline that is
\* never empty (which the indexes imply, since pos is one of them).
SeqInv == TypeOK /\ IndexesInRange

-----------------------------------------------------------------------------
\* A timeline is a function on 1 .. n, and the other way round.
LEMMA TimelineIsFunction ==
    ASSUME NEW S, NEW tl \in Seq(SUBSET S)
    PROVE  /\ Len(tl) \in Nat
           /\ DOMAIN tl = 1 .. Len(tl)
           /\ tl \in [1 .. Len(tl) -> SUBSET S]
  OBVIOUS

\* A timeline made slot by slot over the indexes of another one has its length.
LEMMA SlotwiseUpdate ==
    ASSUME NEW S, NEW n \in Nat, NEW f \in [1 .. n -> SUBSET S]
    PROVE  f \in Seq(SUBSET S) /\ Len(f) = n
  OBVIOUS

\* The remainder that wraps a tick index is an index.
LEMMA WrappedIndex ==
    ASSUME NEW n \in Nat \ {0}, NEW p \in 0 .. n - 1
    PROVE  /\ (p + 1) % n \in 0 .. n - 1
           /\ (p + 1) % n = IF p + 1 < n THEN p + 1 ELSE 0
  OBVIOUS

\* One round of drift: keeps the timeline's length and its set of events.
LEMMA DriftedConserves ==
    ASSUME NEW S, NEW tl \in Seq(SUBSET S), NEW i \in 0 .. Len(tl) - 1,
           NEW moved, moved \subseteq tl[i + 1]
    PROVE  /\ Drifted(tl, i, moved) \in Seq(SUBSET S)
           /\ Len(Drifted(tl, i, moved)) = Len(tl)
           /\ AllEvents(Drifted(tl, i, moved)) = AllEvents(tl)
  <1> DEFINE src == i + 1
             dst == ((i + 1) % Len(tl)) + 1
             out == [tl EXCEPT ![src] = @ \ moved]
             res == [out EXCEPT ![dst] = @ \cup moved]
  <1>1. /\ Len(tl) \in Nat \ {0} /\ src \in 1 .. Len(tl)
        /\ tl \in [1 .. Len(tl) -> SUBSET S]
    BY TimelineIsFunction
  <1>2. dst \in 1 .. Len(tl)
    BY <1>1, WrappedIndex
  <1>3. moved \subseteq S /\ moved \subseteq tl[src]
    BY <1>1
  <1> HIDE DEF dst, src
  <1>4. /\ out \in [1 .. Len(tl) -> SUBSET S]
        /\ \A k \in 1 .. Len(tl) :
              out[k] = IF k = src THEN tl[k] \ moved ELSE tl[k]
    BY <1>1
  <1>5. /\ res \in [1 .. Len(tl) -> SUBSET S]
        /\ \A k \in 1 .. Len(tl) :
              res[k] = IF k = dst THEN out[k] \cup moved ELSE out[k]
    <2> HIDE DEF out
    <2> QED BY <1>2, <1>3, <1>4
  <1>6. res \in Seq(SUBSET S) /\ Len(res) = Len(tl)
    <2> HIDE DEF res
    <2> QED BY <1>1, <1>5, SlotwiseUpdate
  <1>7. Drifted(tl, i, moved) = res
    BY DEF Drifted, src, dst
  <1>8. AllEvents(res) = AllEvents(tl)
    <2> HIDE DEF res, out
    <2>1. DOMAIN tl = 1 .. Len(tl) /\ DOMAIN res = 1 .. Len(tl)
      BY <1>1, <1>5
    <2>2. ASSUME NEW x, x \in AllEvents(res) PROVE x \in AllEvents(tl)
      <3>1. PICK k \in 1 .. Len(tl) : x \in res[k]
        BY <2>1, <2>2 DEF AllEvents
      <3>2. x \in tl[k] \/ x \in moved
        BY <3>1, <1>4, <1>5
      <3>3. x \in tl[k] \/ x \in tl[src]
        BY <3>2, <1>3
      <3> QED BY <3>3, <1>1, <2>1 DEF AllEvents
    <2>3. ASSUME NEW x, x \in AllEvents(tl) PROVE x \in AllEvents(res)
      <3>1. PICK k \in 1 .. Len(tl) : x \in tl[k]
        BY <2>1, <2>3 DEF AllEvents
      <3>2. CASE x \in moved
        <4>1. x \in res[dst]
          BY <3>2, <1>2, <1>5
        <4> QED BY <4>1, <1>2, <2>1 DEF AllEvents
      <3>3. CASE x \notin moved
        <4>1. x \in res[k]
          BY <3>1, <3>3, <1>4, <1>5
        <4> QED BY <4>1, <2>1 DEF AllEvents
      <3> QED BY <3>2, <3>3
    <2> QED BY <2>2, <2>3
  <1> QED BY <1>6, <1>7, <1>8

-----------------------------------------------------------------------------
\* The invariant holds initially.
LEMMA SeqInvInit == Init => SeqInv
  <1> SUFFICES ASSUME Init PROVE SeqInv
    OBVIOUS
  <1>1. EmptyTimeline \in Seq(SUBSET Events) /\ Len(EmptyTimeline) = 1
    BY DEF EmptyTimeline
  <1>2. recording \in BOOLEAN /\ observing \in BOOLEAN
    BY Zenon DEF Init
  <1> QED BY <1>1, <1>2 DEF Init, SeqInv, TypeOK, IndexesInRange, NotDrifting

\* The invariant is kept by every call, by every round of drift: and by both
\* branches of tick.
LEMMA SeqInvStep == SeqInv /\ [Next]_vars => SeqInv'
  <1> SUFFICES ASSUME SeqInv, [Next]_vars PROVE SeqInv'
    OBVIOUS
  <1> USE DEF SeqInv
  <1>t. /\ Len(timeline) \in Nat \ {0}
        /\ DOMAIN timeline = 1 .. Len(timeline)
        /\ timeline \in [1 .. Len(timeline) -> SUBSET Events]
    BY TimelineIsFunction DEF TypeOK, IndexesInRange
  <1>1. ASSUME NEW n \in -1 .. MaxLength, SetLength(n) PROVE SeqInv'
    <2>1. CASE n > 0
      <3>1. n \in Nat \ {0}
        BY <1>1, <2>1, SequenceAssumption
      <3>2. timeline' \in [1 .. n -> SUBSET Events]
        BY <1>1, <1>t, <2>1, <3>1 DEF SetLength, Resized
      <3>3. timeline' \in Seq(SUBSET Events) /\ Len(timeline') = n
        BY <3>1, <3>2, SlotwiseUpdate
      <3>4. pos' \in 0 .. n - 1
        BY <1>1, <1>t, <2>1, <3>1 DEF SetLength, PosAfterResize, TypeOK, IndexesInRange
      <3> QED
        BY <1>1, <3>3, <3>4 DEF SetLength, Edit, TypeOK, IndexesInRange
    <2>2. CASE ~(n > 0)
      BY <1>1, <2>2 DEF SetLength, Edit, TypeOK, IndexesInRange
    <2> QED BY <2>1, <2>2
  <1>2. ASSUME NEW e \in Events, AddEvent(e) PROVE SeqInv'
    <2>1. timeline' \in [1 .. Len(timeline) -> SUBSET Events]
      BY <1>2, <1>t DEF AddEvent, WithEvent, IndexesInRange
    <2>2. timeline' \in Seq(SUBSET Events) /\ Len(timeline') = Len(timeline)
      BY <1>t, <2>1, SlotwiseUpdate
    <2> QED BY <1>2, <2>2 DEF AddEvent, Edit, TypeOK, IndexesInRange
  <1>3. ASSUME NEW e \in Events, NEW t \in -1 .. MaxLength,
               AddEventAtTick(e, t)
        PROVE  SeqInv'
    <2>1. timeline' \in [1 .. Len(timeline) -> SUBSET Events]
      BY <1>3, <1>t, SequenceAssumption DEF AddEventAtTick, WithEvent, IsTick
    <2>2. timeline' \in Seq(SUBSET Events) /\ Len(timeline') = Len(timeline)
      BY <1>t, <2>1, SlotwiseUpdate
    <2> QED BY <1>3, <2>2 DEF AddEventAtTick, Edit, TypeOK, IndexesInRange
  <1>4. ASSUME NEW e \in Events, PoopEvent(e) PROVE SeqInv'
    <2>1. timeline' \in [1 .. Len(timeline) -> SUBSET Events]
      BY <1>4, <1>t DEF PoopEvent, WithoutEvent
    <2>2. timeline' \in Seq(SUBSET Events) /\ Len(timeline') = Len(timeline)
      BY <1>t, <2>1, SlotwiseUpdate
    <2> QED BY <1>4, <2>2 DEF PoopEvent, Edit, TypeOK, IndexesInRange
  <1>5. ASSUME NEW lost \in [DOMAIN timeline -> SUBSET Events], Decay(lost)
        PROVE  SeqInv'
    <2>1. timeline' \in [1 .. Len(timeline) -> SUBSET Events]
      BY <1>5, <1>t DEF Decay, Decayed
    <2>2. timeline' \in Seq(SUBSET Events) /\ Len(timeline') = Len(timeline)
      BY <1>t, <2>1, SlotwiseUpdate
    <2> QED BY <1>5, <2>2 DEF Decay, Edit, TypeOK, IndexesInRange
  <1>6. CASE Drift
    BY <1>6, <1>t DEF Drift, Edit, TypeOK, IndexesInRange
  <1>7. ASSUME NEW moved \in SUBSET Events, DriftSlot(moved) PROVE SeqInv'
    <2>1. driftAt \in 0 .. Len(timeline) - 1
      BY <1>7 DEF DriftSlot, IndexesInRange
    <2>2. timeline' \in Seq(SUBSET Events) /\ Len(timeline') = Len(timeline)
      BY <1>7, <2>1, DriftedConserves DEF DriftSlot, TypeOK
    <2> QED
      BY <1>7, <2>1, <2>2
      DEF DriftSlot, TypeOK, IndexesInRange, NotDrifting
  <1>8. CASE Record
    BY <1>8 DEF Record, Edit, TypeOK, IndexesInRange
  <1>9. CASE Play
    <2>1. recording' \in BOOLEAN /\ observing' \in BOOLEAN
      BY <1>9, Zenon DEF Play
    <2> QED BY <1>9, <2>1 DEF Play, Edit, TypeOK, IndexesInRange
  <1>10. CASE Stop
    <2>1. recording' \in BOOLEAN /\ observing' \in BOOLEAN
      BY <1>10, Zenon DEF Stop
    <2> QED BY <1>10, <2>1 DEF Stop, Edit, TypeOK, IndexesInRange
  <1>11. CASE Reset
    BY <1>11, <1>t DEF Reset, Edit, TypeOK, IndexesInRange
  <1>12. CASE RecordTick
    <2>1. /\ timeline' \in Seq(SUBSET Events)
          /\ Len(timeline') = Len(timeline) + 1
      BY <1>12 DEF RecordTick, Grow, TypeOK
    <2> QED BY <1>12, <1>t, <2>1 DEF RecordTick, TypeOK, IndexesInRange
  <1>13. CASE PlayTick
    <2>1. pos' \in 0 .. Len(timeline) - 1
      BY <1>13, <1>t, WrappedIndex DEF PlayTick, NextPos, IndexesInRange
    <2>2. fired' \in SUBSET Events
      BY <1>13, <1>t, <2>1 DEF PlayTick
    <2> QED BY <1>13, <2>1, <2>2 DEF PlayTick, TypeOK, IndexesInRange
  <1>14. CASE UNCHANGED vars
    BY <1>14 DEF vars, TypeOK, IndexesInRange
  <1> QED
    BY <1>1, <1>2, <1>3, <1>4, <1>5, <1>6, <1>7, <1>8, <1>9, <1>10, <1>11,
       <1>12, <1>13, <1>14 DEF Next

\* Type correctness of EWSequence: the timeline stays an array of sets of
\* events whatever calls and ticks come in whatever order.
THEOREM TypeCorrect == Spec => []TypeOK
  <1>1. SeqInv => TypeOK
    BY DEF SeqInv
  <1> QED BY <1>1, SeqInvInit, SeqInvStep, PTL DEF Spec

\* pos and the slot drift: scans are always indexes of a non-empty timeline:
\* objectAtIndex: in addEvent:, drift: and tick never raises, and the
\* remainders of drift: and tick never divide by zero.
THEOREM IndexesAlwaysInRange == Spec => []IndexesInRange
  <1>1. SeqInv => IndexesInRange
    BY DEF SeqInv
  <1> QED BY <1>1, SeqInvInit, SeqInvStep, PTL DEF Spec

\* No round of drift: loses an event or invents one, whichever events the
\* dice move and however long the timeline is.
THEOREM DriftAlwaysConserves == Spec => DriftConserves
  <1> DEFINE Conserves ==
        driftAt # NotDrifting => AllEvents(timeline') = AllEvents(timeline)
  <1>1. SeqInv /\ [Next]_vars => [Conserves]_vars
    <2> SUFFICES ASSUME SeqInv, Next, driftAt # NotDrifting
                 PROVE  AllEvents(timeline') = AllEvents(timeline)
      OBVIOUS
    <2>1. \E moved \in SUBSET Events : DriftSlot(moved)
      BY DEF Next, SetLength, AddEvent, AddEventAtTick, PoopEvent, Decay,
             Drift, Record, Play, Stop, Reset, Edit, RecordTick, PlayTick
    <2>2. PICK moved \in SUBSET Events : DriftSlot(moved)
      BY <2>1
    <2>3. driftAt \in 0 .. Len(timeline) - 1
      BY DEF SeqInv, IndexesInRange
    <2> QED
      BY <2>2, <2>3, DriftedConserves DEF DriftSlot, SeqInv, TypeOK
  <1> QED BY <1>1, SeqInvInit, SeqInvStep, PTL DEF Spec, DriftConserves

-----------------------------------------------------------------------------
(* The tape. *)

\* The tape of any timeline and position.
Round(tl, p) == SubSeq(tl, p + 2, Len(tl)) \o SubSeq(tl, 1, p + 1)

\* The ticks of two lists, one after the other.
LEMMA Concatenated ==
    ASSUME NEW S, NEW a \in Seq(S), NEW b \in Seq(S)
    PROVE  /\ a \o b \in Seq(S) /\ Len(a \o b) = Len(a) + Len(b)
           /\ \A k \in 1 .. Len(a) : (a \o b)[k] = a[k]
           /\ \A k \in Len(a) + 1 .. Len(a) + Len(b) : (a \o b)[k] = b[k - Len(a)]
  OBVIOUS

\* The ticks of the tape: behind the tick at p, and then from the first one.
LEMMA RoundIs ==
    ASSUME NEW S, NEW tl \in Seq(S), NEW p \in 0 .. Len(tl) - 1
    PROVE  /\ Round(tl, p) \in Seq(S) /\ Len(Round(tl, p)) = Len(tl)
           /\ \A k \in 1 .. Len(tl) :
                /\ k < Len(tl) - p => Round(tl, p)[k] = tl[p + 1 + k]
                /\ k >= Len(tl) - p => Round(tl, p)[k] = tl[k + p + 1 - Len(tl)]
  <1> DEFINE a == SubSeq(tl, p + 2, Len(tl))
             b == SubSeq(tl, 1, p + 1)
  <1>1. /\ Len(tl) \in Nat /\ p \in Nat
        /\ a \in Seq(S) /\ Len(a) = Len(tl) - p - 1 /\ \A k \in 1 .. Len(a) : a[k] = tl[p + 1 + k]
        /\ b \in Seq(S) /\ Len(b) = p + 1 /\ \A k \in 1 .. Len(b) : b[k] = tl[k]
    <2>1. Len(tl) \in Nat /\ p \in Nat
      OBVIOUS
    <2>2. a \in Seq(S) /\ Len(a) = Len(tl) - p - 1 /\ \A k \in 1 .. Len(a) : a[k] = tl[p + 1 + k]
      OBVIOUS
    <2>3. b \in Seq(S) /\ Len(b) = p + 1 /\ \A k \in 1 .. Len(b) : b[k] = tl[k]
      OBVIOUS
    <2> QED
      BY <2>1, <2>2, <2>3
  <1>2. Round(tl, p) = a \o b
    BY DEF Round
  <1> HIDE DEF a, b
  <1>3. /\ a \o b \in Seq(S) /\ Len(a \o b) = Len(a) + Len(b)
        /\ \A k \in 1 .. Len(a) : (a \o b)[k] = a[k]
        /\ \A k \in Len(a) + 1 .. Len(a) + Len(b) : (a \o b)[k] = b[k - Len(a)]
    BY <1>1, Concatenated
  <1>4. ASSUME NEW k \in 1 .. Len(tl), k < Len(tl) - p
        PROVE  (a \o b)[k] = tl[p + 1 + k]
    <2>1. k \in 1 .. Len(a)
      BY <1>1, <1>4
    <2> QED
      BY <1>1, <1>3, <2>1
  <1>5. ASSUME NEW k \in 1 .. Len(tl), k >= Len(tl) - p
        PROVE  (a \o b)[k] = tl[k + p + 1 - Len(tl)]
    <2>1. /\ k \in Len(a) + 1 .. Len(a) + Len(b) /\ k - Len(a) \in 1 .. Len(b)
          /\ k - Len(a) = k + p + 1 - Len(tl)
      BY <1>1, <1>5
    <2> QED
      BY <1>1, <1>3, <2>1
  <1>6. Round(tl, p) \in Seq(S) /\ Len(Round(tl, p)) = Len(tl)
    <2>1. Len(a) + Len(b) = Len(tl)
      BY <1>1
    <2> QED
      BY <1>2, <1>3, <2>1, Zenon
  <1>7. ASSUME NEW k \in 1 .. Len(tl)
        PROVE  /\ k < Len(tl) - p => Round(tl, p)[k] = tl[p + 1 + k]
               /\ k >= Len(tl) - p => Round(tl, p)[k] = tl[k + p + 1 - Len(tl)]
    BY <1>2, <1>4, <1>5, Zenon
  <1> QED
    BY <1>6, <1>7, Zenon

\* Two lists with the same ticks are the same.
LEMMA SameTicks ==
    ASSUME NEW S, NEW a \in Seq(S), NEW b \in Seq(S), Len(a) = Len(b),
           \A k \in 1 .. Len(a) : a[k] = b[k]
    PROVE  a = b
  OBVIOUS

\* While it is recorded, the tape is the timeline.
LEMMA RoundOfRecording ==
    ASSUME NEW S, NEW tl \in Seq(S), Len(tl) # 0
    PROVE  Round(tl, Len(tl) - 1) = tl
  <1>1. Len(tl) \in Nat /\ Len(tl) - 1 \in 0 .. Len(tl) - 1
    OBVIOUS
  <1> DEFINE r == Round(tl, Len(tl) - 1)
  <1>2. /\ r \in Seq(S) /\ Len(r) = Len(tl)
        /\ \A k \in 1 .. Len(tl) :
             k >= Len(tl) - (Len(tl) - 1) => r[k] = tl[k + (Len(tl) - 1) + 1 - Len(tl)]
    BY <1>1, RoundIs
  <1> HIDE DEF r
  <1>3. ASSUME NEW k \in 1 .. Len(tl) PROVE r[k] = tl[k]
    <2>1. k >= Len(tl) - (Len(tl) - 1) /\ k + (Len(tl) - 1) + 1 - Len(tl) = k
      BY <1>1
    <2> QED
      BY <1>2, <2>1
  <1>4. r = tl
    BY <1>2, <1>3, SameTicks
  <1> QED
    BY <1>4 DEF r

\* Moving pos on by one tick turns the tape by one.
LEMMA RoundTurned ==
    ASSUME NEW S, NEW tl \in Seq(S), NEW p \in 0 .. Len(tl) - 1,
           NEW n, n = (p + 1) % Len(tl), NEW r, r = Round(tl, p)
    PROVE  /\ tl[n + 1] = Head(r)
           /\ Round(tl, n) = Append(Tail(r), Head(r))
  <1> DEFINE u == Round(tl, n)
             v == Append(Tail(r), Head(r))
             L == Len(tl)
  <1>1. L \in Nat \ {0} /\ p \in Nat /\ p < L
    OBVIOUS
  <1>2. n \in 0 .. L - 1 /\ n = IF p + 1 < L THEN p + 1 ELSE 0
    BY <1>1, WrappedIndex
  <1>3. /\ r \in Seq(S) /\ Len(r) = L
        /\ \A k \in 1 .. L :
             /\ k < L - p => r[k] = tl[p + 1 + k]
             /\ k >= L - p => r[k] = tl[k + p + 1 - L]
    BY RoundIs
  <1>4. /\ u \in Seq(S) /\ Len(u) = L
        /\ \A k \in 1 .. L :
             /\ k < L - n => u[k] = tl[n + 1 + k]
             /\ k >= L - n => u[k] = tl[k + n + 1 - L]
    BY <1>2, RoundIs
  <1> HIDE DEF u, L
  <1>5. r # << >> /\ Head(r) = r[1] /\ Head(r) \in S
    BY <1>1, <1>3
  <1>6. /\ v \in Seq(S) /\ Len(v) = L /\ v[L] = Head(r)
        /\ \A k \in 1 .. L - 1 : v[k] = r[k + 1]
    <2>1. Tail(r) \in Seq(S) /\ Len(Tail(r)) = L - 1 /\ \A k \in 1 .. L - 1 : Tail(r)[k] = r[k + 1]
      BY <1>1, <1>3, <1>5
    <2> DEFINE w == Tail(r)
    <2> HIDE DEF w
    <2>2. Len(w) = L - 1 /\ w \in Seq(S) /\ \A k \in 1 .. L - 1 : w[k] = r[k + 1]
      BY <2>1 DEF w
    <2>3. /\ Append(w, Head(r)) \in Seq(S) /\ Len(Append(w, Head(r))) = L
          /\ Append(w, Head(r))[L] = Head(r)
          /\ \A k \in 1 .. L - 1 : Append(w, Head(r))[k] = w[k]
      BY <1>1, <1>5, <2>2
    <2> QED
      BY <2>2, <2>3 DEF w
  <1> HIDE DEF v
  <1>7. tl[n + 1] = r[1]
    <2>1. CASE p + 1 < L
      <3>1. 1 \in 1 .. L /\ 1 < L - p /\ n + 1 = p + 1 + 1
        BY <1>1, <1>2, <2>1
      <3> QED
        BY <1>3, <3>1
    <2>2. CASE ~(p + 1 < L)
      <3>1. 1 \in 1 .. L /\ 1 >= L - p /\ n + 1 = 1 + p + 1 - L
        BY <1>1, <1>2, <2>2
      <3> QED
        BY <1>3, <3>1
    <2> QED
      BY <2>1, <2>2
  <1>8. u[L] = r[1]
    <2>1. L \in 1 .. L /\ L >= L - n /\ L + n + 1 - L = n + 1
      BY <1>1, <1>2
    <2> QED
      BY <1>4, <1>7, <2>1
  <1>9. ASSUME NEW k \in 1 .. L - 1 PROVE u[k] = r[k + 1]
    <2>0. k \in 1 .. L /\ k + 1 \in 1 .. L
      BY <1>1
    <2>1. CASE p + 1 < L /\ k < L - n
      <3>1. k + 1 < L - p /\ n + 1 + k = p + 1 + (k + 1)
        BY <1>1, <1>2, <2>1
      <3>2. u[k] = tl[n + 1 + k]
        BY <1>4, <2>0, <2>1
      <3>3. \A j \in 1 .. L : j < L - p => r[j] = tl[p + 1 + j]
        BY <1>3
      <3> QED
        BY <2>0, <3>1, <3>2, <3>3
    <2>2. CASE p + 1 < L /\ ~(k < L - n)
      <3>1. k + 1 >= L - p /\ k + n + 1 - L = (k + 1) + p + 1 - L /\ k >= L - n
        BY <1>1, <1>2, <2>2
      <3>2. u[k] = tl[k + n + 1 - L]
        BY <1>4, <2>0, <3>1
      <3>3. \A j \in 1 .. L : j >= L - p => r[j] = tl[j + p + 1 - L]
        BY <1>3
      <3> QED
        BY <2>0, <3>1, <3>2, <3>3
    <2>3. CASE ~(p + 1 < L)
      <3>1. /\ n = 0 /\ p = L - 1 /\ k < L - n /\ k + 1 >= L - p
            /\ n + 1 + k = k + 1 /\ (k + 1) + p + 1 - L = k + 1
        BY <1>1, <1>2, <2>3
      <3>2. u[k] = tl[n + 1 + k]
        BY <1>4, <2>0, <3>1
      <3>3. \A j \in 1 .. L : j >= L - p => r[j] = tl[j + p + 1 - L]
        BY <1>3
      <3> QED
        BY <2>0, <3>1, <3>2, <3>3
    <2> QED
      BY <2>1, <2>2, <2>3
  <1>10. \A k \in 1 .. L : u[k] = v[k]
    <2>1. \A k \in 1 .. L : k = L \/ k \in 1 .. L - 1
      BY <1>1
    <2> QED
      BY <1>5, <1>6, <1>8, <1>9, <2>1
  <1>11. u = v
    BY <1>4, <1>6, <1>10, SameTicks
  <1> QED
    BY <1>5, <1>7, <1>11 DEF u, v

\* What a worm's sequence adds to the indexes: while it records, pos is at
\* the last tick, so that notes land there and playing starts at the first.
WormInv ==
    /\ timeline \in Seq(SUBSET Events)
    /\ pos \in 0 .. Len(timeline) - 1
    /\ recording \in BOOLEAN
    /\ recording => pos = Len(timeline) - 1

\* The invariant holds when a worm is made.
LEMMA WormInvInit == WormInit => WormInv
  <1>1. EmptyTimeline \in Seq(SUBSET Events) /\ Len(EmptyTimeline) = 1
    BY DEF EmptyTimeline
  <1> QED
    BY <1>1 DEF WormInit, WormInv

\* A worm's calls and the ticks keep the invariant.
LEMMA WormInvStep == WormInv /\ [WormNext]_vars => WormInv'
  <1> SUFFICES ASSUME WormInv, [WormNext]_vars PROVE WormInv'
    OBVIOUS
  <1>t. /\ Len(timeline) \in Nat \ {0}
        /\ DOMAIN timeline = 1 .. Len(timeline)
        /\ timeline \in [1 .. Len(timeline) -> SUBSET Events]
    BY TimelineIsFunction DEF WormInv
  <1>1. ASSUME NEW e \in Events, AddEvent(e) PROVE WormInv'
    <2>1. timeline' \in [1 .. Len(timeline) -> SUBSET Events]
      BY <1>1, <1>t DEF AddEvent, WithEvent, WormInv
    <2>2. timeline' \in Seq(SUBSET Events) /\ Len(timeline') = Len(timeline)
      BY <1>t, <2>1, SlotwiseUpdate
    <2> QED
      BY <1>1, <2>2 DEF AddEvent, WormInv
  <1>2. CASE Play
    BY <1>2 DEF Play, WormInv
  <1>3. ASSUME NEW lost \in [DOMAIN timeline -> SUBSET Events], Decay(lost), ~recording
        PROVE  WormInv'
    <2>1. timeline' \in [1 .. Len(timeline) -> SUBSET Events]
      BY <1>3, <1>t DEF Decay, Decayed
    <2>2. timeline' \in Seq(SUBSET Events) /\ Len(timeline') = Len(timeline)
      BY <1>t, <2>1, SlotwiseUpdate
    <2> QED
      BY <1>3, <2>2 DEF Decay, WormInv
  <1>4. CASE RecordTick
    <2>1. timeline' \in Seq(SUBSET Events) /\ Len(timeline') = Len(timeline) + 1
      BY <1>4 DEF RecordTick, Grow, WormInv
    <2> QED
      BY <1>4, <1>t, <2>1 DEF RecordTick, WormInv
  <1>5. CASE PlayTick
    <2>1. pos' \in 0 .. Len(timeline) - 1
      BY <1>5, <1>t, WrappedIndex DEF PlayTick, NextPos, WormInv
    <2> QED
      BY <1>5, <2>1 DEF PlayTick, WormInv
  <1>6. CASE UNCHANGED vars
    BY <1>6 DEF vars, WormInv
  <1> QED
    BY <1>1, <1>2, <1>3, <1>4, <1>5, <1>6 DEF WormNext

\* A sequence that has just begun to record is a tape of one empty tick.
LEMMA TapeBegins == WormInit => Tape!TapeInit
  <1> SUFFICES ASSUME WormInit PROVE Tape!TapeInit
    OBVIOUS
  <1>1. /\ timeline = << {} >> /\ timeline \in Seq(SUBSET Events) /\ Len(timeline) # 0
        /\ pos = Len(timeline) - 1
    BY DEF WormInit, EmptyTimeline
  <1>2. TapeOfTimeline = << {} >>
    BY <1>1, RoundOfRecording DEF TapeOfTimeline, Round
  <1> QED
    BY <1>2 DEF WormInit, Tape!TapeInit

\* Every call of a worm and every tick is a step of the tape or leaves it as
\* it is.
LEMMA TapeStep ==
    ASSUME WormInv, WormInv', [WormNext]_vars
    PROVE  [Tape!TapeNext]_(Tape!tapeVars)
  <1> DEFINE T == TapeOfTimeline
             U == TapeOfTimeline'
  <1>1. T = Round(timeline, pos) /\ U = Round(timeline', pos')
    BY DEF TapeOfTimeline, Round
  <1>2. /\ timeline \in Seq(SUBSET Events) /\ pos \in 0 .. Len(timeline) - 1
        /\ recording \in BOOLEAN /\ recording' \in BOOLEAN
        /\ timeline' \in Seq(SUBSET Events) /\ pos' \in 0 .. Len(timeline') - 1
        /\ Len(timeline) \in Nat \ {0} /\ DOMAIN timeline = 1 .. Len(timeline)
    BY DEF WormInv
  <1>3. recording => T = timeline
    BY <1>1, <1>2, RoundOfRecording DEF WormInv
  <1>4. recording' => U = timeline'
    <2>1. recording' => pos' = Len(timeline') - 1
      BY DEF WormInv
    <2>2. Len(timeline') # 0
      BY <1>2
    <2>3. Round(timeline', Len(timeline') - 1) = timeline'
      BY <1>2, <2>2, RoundOfRecording
    <2> QED
      BY <1>1, <2>1, <2>3
  <1>5. UNCHANGED <<timeline, pos>> => U = T
    BY <1>1
  <1>6. Tape!tapeVars = <<T, ~recording, fired>>
    BY DEF Tape!tapeVars
  <1> HIDE DEF T, U
  <1>7. ASSUME NEW e \in Events, recording, AddEvent(e) PROVE Tape!Note(e)
    <2>1. recording' = recording /\ fired' = fired
      BY <1>7 DEF AddEvent, Edit
    <2>2. timeline' = [timeline EXCEPT ![Len(timeline)] = @ \cup {e}]
      <3>1. pos + 1 = Len(timeline)
        BY <1>2, <1>7 DEF WormInv
      <3>2. timeline' = [timeline EXCEPT ![pos + 1] = @ \cup {e}]
        BY <1>7 DEF AddEvent, WithEvent
      <3> QED
        BY <3>1, <3>2
    <2>3. U = [T EXCEPT ![Len(T)] = @ \cup {e}]
      BY <1>3, <1>4, <1>7, <2>1, <2>2
    <2> QED
      BY <1>7, <2>1, <2>3 DEF Tape!Note, T, U
  <1>8. ASSUME recording, Play PROVE Tape!Finish
    <2>1. recording' = FALSE /\ fired' = fired /\ U = T
      BY <1>5, <1>8 DEF Play, Edit
    <2> QED
      BY <1>8, <2>1 DEF Tape!Finish, T, U
  <1>9. ASSUME NEW lost \in [DOMAIN timeline -> SUBSET Events], ~recording, Decay(lost)
        PROVE  Tape!Fade
    <2>1. recording' = recording /\ fired' = fired /\ pos' = pos
      BY <1>9 DEF Decay, Edit
    <2>2. /\ Len(timeline') = Len(timeline)
          /\ \A k \in 1 .. Len(timeline) : timeline'[k] \subseteq timeline[k]
      <3>1. timeline' = [k \in 1 .. Len(timeline) |-> timeline[k] \ lost[k]]
        BY <1>2, <1>9 DEF Decay, Decayed
      <3>2. timeline' \in [1 .. Len(timeline) -> SUBSET Events]
        BY <1>2, <3>1
      <3>3. Len(timeline') = Len(timeline)
        BY <1>2, <3>2, SlotwiseUpdate
      <3> QED
        BY <3>1, <3>3
    <2>3. /\ Len(T) = Len(timeline) /\ T \in Seq(SUBSET Events)
          /\ \A k \in 1 .. Len(timeline) :
                /\ k < Len(timeline) - pos => T[k] = timeline[pos + 1 + k]
                /\ k >= Len(timeline) - pos => T[k] = timeline[k + pos + 1 - Len(timeline)]
      <3>1. /\ Round(timeline, pos) \in Seq(SUBSET Events) /\ Len(Round(timeline, pos)) = Len(timeline)
            /\ \A k \in 1 .. Len(timeline) :
                 /\ k < Len(timeline) - pos => Round(timeline, pos)[k] = timeline[pos + 1 + k]
                 /\ k >= Len(timeline) - pos =>
                         Round(timeline, pos)[k] = timeline[k + pos + 1 - Len(timeline)]
        BY <1>2, RoundIs, Zenon
      <3> QED
        BY <1>1, <3>1
    <2>4. /\ Len(U) = Len(timeline')
          /\ \A k \in 1 .. Len(timeline') :
                /\ k < Len(timeline') - pos' => U[k] = timeline'[pos' + 1 + k]
                /\ k >= Len(timeline') - pos' =>
                        U[k] = timeline'[k + pos' + 1 - Len(timeline')]
      <3>1. /\ Round(timeline', pos') \in Seq(SUBSET Events) /\ Len(Round(timeline', pos')) = Len(timeline')
            /\ \A k \in 1 .. Len(timeline') :
                 /\ k < Len(timeline') - pos' => Round(timeline', pos')[k] = timeline'[pos' + 1 + k]
                 /\ k >= Len(timeline') - pos' =>
                         Round(timeline', pos')[k] = timeline'[k + pos' + 1 - Len(timeline')]
        BY <1>2, RoundIs, Zenon
      <3> QED
        BY <1>1, <3>1
    <2>5. ASSUME NEW k \in 1 .. Len(timeline) PROVE U[k] \subseteq T[k]
      <3>1. CASE k < Len(timeline) - pos
        <4>1. pos + 1 + k \in 1 .. Len(timeline)
          BY <1>2, <3>1
        <4>2. T[k] = timeline[pos + 1 + k] /\ U[k] = timeline'[pos + 1 + k]
          BY <2>1, <2>2, <2>3, <2>4, <3>1
        <4> QED
          BY <2>2, <4>1, <4>2
      <3>2. CASE ~(k < Len(timeline) - pos)
        <4>1. k + pos + 1 - Len(timeline) \in 1 .. Len(timeline) /\ k >= Len(timeline) - pos
          BY <1>2, <3>2
        <4>2. /\ T[k] = timeline[k + pos + 1 - Len(timeline)]
              /\ U[k] = timeline'[k + pos + 1 - Len(timeline)]
          BY <2>1, <2>2, <2>3, <2>4, <4>1
        <4> QED
          BY <2>2, <4>1, <4>2
      <3> QED
        BY <3>1, <3>2
    <2>6. DOMAIN T = 1 .. Len(timeline) /\ Len(U) = Len(T)
      BY <2>2, <2>3, <2>4
    <2> QED
      BY <1>9, <2>1, <2>5, <2>6 DEF Tape!Fade, T, U
  <1>10. ASSUME RecordTick PROVE Tape!Lengthen
    <2>1. recording /\ recording' = recording /\ fired' = fired /\ timeline' = Append(timeline, {})
      BY <1>10 DEF RecordTick, Grow
    <2>2. U = Append(T, {})
      BY <1>3, <1>4, <2>1
    <2> QED
      BY <2>1, <2>2 DEF Tape!Lengthen, T, U
  <1>11. ASSUME PlayTick PROVE Tape!Sound
    <2>1. /\ ~recording /\ recording' = recording /\ timeline' = timeline
          /\ pos' = (pos + 1) % Len(timeline) /\ fired' = timeline[pos' + 1]
      BY <1>11 DEF PlayTick, NextPos
    <2>2. timeline[pos' + 1] = Head(T) /\ U = Append(Tail(T), Head(T))
      BY <1>1, <1>2, <2>1, RoundTurned
    <2> QED
      BY <2>1, <2>2 DEF Tape!Sound, T, U
  <1>12. CASE UNCHANGED vars
    <2>1. U = T /\ recording' = recording /\ fired' = fired
      BY <1>5, <1>12 DEF vars
    <2> QED
      BY <2>1 DEF Tape!tapeVars, T, U
  <1>13. WormNext => Tape!TapeNext
    BY <1>7, <1>8, <1>9, <1>10, <1>11 DEF WormNext, Tape!TapeNext
  <1> QED
    BY <1>12, <1>13

\* A worm's sequence implements LoopTape: the recording is replayed from its
\* first tick, tick for tick and for ever, with every note in the tick it was
\* played in, however long it is and however often its notes decay.
THEOREM RecordingAlwaysReplayed == WormSpec => ReplaysRecording
  <1>1. WormInv /\ WormInv' /\ [WormNext]_vars => [Tape!TapeNext]_(Tape!tapeVars)
    BY TapeStep
  <1> QED
    BY <1>1, TapeBegins, WormInvInit, WormInvStep, PTL
    DEF WormSpec, ReplaysRecording, Tape!TapeSpec

=============================================================================
