------------------------ MODULE SchedulerHeap_proofs -------------------------
(***************************************************************************)
(* Theorems about SchedulerHeap for every room N, every bounded set of     *)
(* times and every set of packets: the array stays a heap, its first slot  *)
(* answers the earliest time, and the heap implements the queue of         *)
(* EventQueue.                                                             *)
(*                                                                         *)
(* What Add and Remove do is a walk along one path of the heap, defined by *)
(* a recursive function.  Each walk gets one lemma, which says what the    *)
(* array is when the walk has come to a slot and is proved by induction    *)
(* over the slots (LeastNumber, SetInduction): where it differs from the   *)
(* array before, which pairs of slots are in order, how times compare with *)
(* those before, and which events it holds.                                *)
(*                                                                         *)
(* HeapOrdered is inductive with the types.  That the first slot is the    *)
(* earliest follows from it by induction over the slots; the refinement    *)
(* needs besides that no event is held twice, stated as a cardinality.     *)
(***************************************************************************)
EXTENDS SchedulerHeap, Removal_proofs, FiniteSetTheorems

\* What the first slot holds is always a record, and its time later than all
\* others in an empty queue.
FirstSlot ==
    /\ mEvents[0] \in [time : Nat, packet : Packets \cup {"none"}]
    /\ mSize = 0 => NextTime = kMaxInt64

\* No event is held twice.
HeldOnce == IsFiniteSet(Held) /\ Cardinality(Held) = mSize

HeapInv == TypeOK /\ FirstSlot /\ HeapOrdered /\ HeldOnce

-----------------------------------------------------------------------------
(***************************************************************************)
(* The shape of the heap and the times in it.                              *)
(***************************************************************************)
\* A slot is the left or the right child of its mom, which comes before it.
LEMMA MomBefore ==
    ASSUME NEW k \in Nat \ {0}
    PROVE  /\ Mom(k) \in Nat /\ Mom(k) < k
           /\ k = 2 * Mom(k) + 1 \/ k = 2 * Mom(k) + 2
  BY DEF Mom

\* A later slot has no earlier mom.
LEMMA MomMonotone ==
    ASSUME NEW k \in Nat \ {0}, NEW l \in Nat \ {0}, k <= l
    PROVE  Mom(k) <= Mom(l)
  <1>1. /\ Mom(k) \in Nat /\ (k = 2 * Mom(k) + 1 \/ k = 2 * Mom(k) + 2)
        /\ Mom(l) \in Nat /\ (l = 2 * Mom(l) + 1 \/ l = 2 * Mom(l) + 2)
    BY MomBefore
  <1> QED
    BY <1>1

\* An empty queue answers a time that is later than all others.
LEMMA LastTime ==
    /\ kMaxInt64 \in Nat
    /\ \A t \in Times : t \in Nat /\ t < kMaxInt64
  <1> DEFINE last == CHOOSE t \in Times : \A u \in Times : u <= t
  <1>1. last \in Times /\ \A u \in Times : u <= last
    BY HeapAssumption
  <1>2. kMaxInt64 = 1 + last
    BY DEF kMaxInt64
  <1> HIDE DEF last
  <1>3. last \in Nat /\ \A t \in Times : t \in Nat
    BY <1>1, HeapAssumption
  <1> QED
    BY <1>1, <1>2, <1>3

\* The events in the heap have times.
LEMMA TimesHeld ==
    ASSUME TypeOK
    PROVE  /\ mSize \in Nat /\ mSize <= N /\ 0 .. mSize - 1 \subseteq Slots
           /\ DOMAIN mEvents = Slots
           /\ \A f \in Event : f.time \in Nat
           /\ \A k \in 0 .. mSize - 1 : mEvents[k] \in Event /\ mEvents[k].time \in Nat
  <1>1. mSize \in Nat /\ mSize <= N /\ 0 .. mSize - 1 \subseteq Slots /\ DOMAIN mEvents = Slots
    BY HeapAssumption DEF TypeOK, Slots
  <1>2. \A f \in Event : f.time \in Nat
    BY HeapAssumption DEF Event
  <1>3. \A k \in 0 .. mSize - 1 : mEvents[k] \in Event
    BY DEF TypeOK
  <1> QED
    BY <1>1, <1>2, <1>3

-----------------------------------------------------------------------------
(***************************************************************************)
(* Percolating up.                                                         *)
(***************************************************************************)
UpFrom(g, e, me) ==
    IF me > 0 /\ e.time < mEvents[Mom(me)].time
      THEN [g[Mom(me)] EXCEPT ![me] = mEvents[Mom(me)]]
      ELSE [mEvents EXCEPT ![me] = e]

Climbs(g, e) == g = [me \in Slots |-> UpFrom(g, e, me)]

\* The recursive function of PercolatedUp exists.
LEMMA ClimbExists ==
    ASSUME NEW e
    PROVE  \E g : Climbs(g, e)
  <1> DEFINE Good == { n \in Nat :
                         \E g : /\ g = [me \in Slots |-> g[me]]
                                /\ \A me \in Slots : me < n => g[me] = UpFrom(g, e, me) }
  <1>1. 0 \in Good
    <2> DEFINE g == [me \in Slots |-> 0]
    <2>1. g = [me \in Slots |-> g[me]] /\ \A me \in Slots : me < 0 => g[me] = UpFrom(g, e, me)
      BY HeapAssumption DEF Slots
    <2> QED
      BY <2>1
  <1>2. ASSUME NEW n \in Good PROVE n + 1 \in Good
    <2>1. PICK g : /\ g = [me \in Slots |-> g[me]]
                   /\ \A me \in Slots : me < n => g[me] = UpFrom(g, e, me)
      OBVIOUS
    <2> DEFINE h == [me \in Slots |-> IF me = n THEN UpFrom(g, e, n) ELSE g[me]]
    <2>2. \A me \in Slots : me # n => h[me] = g[me]
      OBVIOUS
    <2>3. n \in Slots => h[n] = UpFrom(g, e, n)
      OBVIOUS
    <2>4. h = [me \in Slots |-> h[me]]
      OBVIOUS
    <2> HIDE DEF h
    <2>5. ASSUME NEW me \in Slots, me <= n PROVE UpFrom(h, e, me) = UpFrom(g, e, me)
      <3>1. CASE me > 0
        <4>1. Mom(me) \in Slots /\ Mom(me) # n
          BY <2>5, <3>1, MomBefore, HeapAssumption DEF Slots
        <4> QED
          BY <2>2, <4>1 DEF UpFrom
      <3>2. CASE ~(me > 0)
        BY <3>2 DEF UpFrom
      <3> QED
        BY <3>1, <3>2
    <2>6. ASSUME NEW me \in Slots, me < n + 1 PROVE h[me] = UpFrom(h, e, me)
      <3>1. me <= n /\ (me < n \/ me = n)
        BY <2>6, HeapAssumption DEF Slots
      <3> QED
        BY <2>1, <2>2, <2>3, <2>5, <3>1
    <2> QED
      BY <2>4, <2>6
  <1>3. Good = Nat
    BY <1>1, <1>2, SetInduction
  <1>4. N \in Good
    BY <1>3, HeapAssumption
  <1>5. PICK g : /\ g = [me \in Slots |-> g[me]]
                 /\ \A me \in Slots : me < N => g[me] = UpFrom(g, e, me)
    BY <1>4
  <1>6. \A me \in Slots : me < N
    BY HeapAssumption DEF Slots
  <1>7. \A me \in Slots : g[me] = UpFrom(g, e, me)
    BY <1>5, <1>6
  <1>8. Climbs(g, e)
    BY <1>5, <1>7 DEF Climbs
  <1> QED
    BY <1>8

\* PercolatedUp is a value of such a function.
LEMMA PercolatedIsClimb ==
    ASSUME NEW e, NEW start
    PROVE  \E g : Climbs(g, e) /\ PercolatedUp(start, e) = g[start]
  <1> DEFINE g == CHOOSE g : Climbs(g, e)
  <1>1. Climbs(g, e)
    BY ClimbExists, Zenon
  <1>2. PercolatedUp(start, e) = g[start]
    BY DEF PercolatedUp, Climbs, UpFrom
  <1> QED
    BY <1>1, <1>2

\* The array when the walk up has come from slot me: nothing beyond me has
\* changed, times have only become earlier, every slot up to me is in order
\* with its mom, and e is held besides the events that were.
Climbed(r, e, me) ==
    /\ DOMAIN r = Slots
    /\ \A k \in Slots : k > me => r[k] = mEvents[k]
    /\ \A k \in 0 .. me : r[k] \in Event
    /\ \A k \in 0 .. me - 1 : r[k].time <= mEvents[k].time
    /\ (me < mSize /\ e.time <= mEvents[me].time) => r[me].time <= mEvents[me].time
    /\ \A k \in 1 .. me : r[Mom(k)].time <= r[k].time
    /\ \E k \in 0 .. me : r[k] = e
    /\ \A k \in 0 .. me : r[k] = e \/ \E l \in 0 .. me - 1 : r[k] = mEvents[l]
    /\ \A l \in 0 .. me - 1 : \E k \in 0 .. me : r[k] = mEvents[l]

\* What the walk up makes of a heap, from every slot.
LEMMA ClimbKeepsOrder ==
    ASSUME TypeOK, HeapOrdered, mSize < N, NEW e \in Event, NEW g, Climbs(g, e)
    PROVE  \A me \in 0 .. mSize : Climbed(g[me], e, me)
  <1>1. /\ mSize \in Nat /\ 0 .. mSize \subseteq Slots /\ DOMAIN mEvents = Slots
        /\ \A k \in 0 .. mSize - 1 : mEvents[k] \in Event /\ mEvents[k].time \in Nat
        /\ e.time \in Nat
    <2>1. 0 .. mSize \subseteq Slots
      BY TimesHeld, HeapAssumption DEF Slots
    <2> QED
      BY <2>1, TimesHeld
  <1>2. \A k \in 1 .. mSize - 1 : mEvents[Mom(k)].time <= mEvents[k].time
    BY DEF HeapOrdered
  <1>3. \A me \in 0 .. mSize : g[me] = UpFrom(g, e, me)
    BY <1>1 DEF Climbs
  <1>4. ASSUME NEW me \in 0 .. mSize,
               me > 0 => Climbed(g[Mom(me)], e, Mom(me))
        PROVE  Climbed(g[me], e, me)
    <2> DEFINE r == g[me]
    <2>0. me \in Nat /\ me \in Slots
      BY <1>1
    <2>1. CASE me > 0 /\ e.time < mEvents[Mom(me)].time
      <3> DEFINE mom == Mom(me)
                 q == g[mom]
      <3>1. /\ mom \in 0 .. mSize - 1 /\ mom < me /\ mom \in Slots
            /\ mEvents[mom] \in Event /\ mEvents[mom].time \in Nat
        BY <1>1, <2>0, <2>1, MomBefore
      <3>2. r = [q EXCEPT ![me] = mEvents[mom]]
        BY <1>3, <2>1 DEF UpFrom
      <3>3. Climbed(q, e, mom)
        BY <1>4, <2>1
      <3> HIDE DEF mom, q, r
      <3>4. /\ DOMAIN q = Slots
            /\ \A k \in Slots : k > mom => q[k] = mEvents[k]
            /\ \A k \in 0 .. mom : q[k] \in Event
            /\ \A k \in 0 .. mom - 1 : q[k].time <= mEvents[k].time
            /\ q[mom].time <= mEvents[mom].time
            /\ \A k \in 1 .. mom : q[Mom(k)].time <= q[k].time
            /\ \E k \in 0 .. mom : q[k] = e
            /\ \A k \in 0 .. mom : q[k] = e \/ \E l \in 0 .. mom - 1 : q[k] = mEvents[l]
            /\ \A l \in 0 .. mom - 1 : \E k \in 0 .. mom : q[k] = mEvents[l]
        BY <1>1, <2>1, <3>1, <3>3 DEF Climbed, mom
      <3>5. /\ DOMAIN r = Slots /\ r[me] = mEvents[mom]
            /\ \A k \in Slots : k # me => r[k] = q[k]
            /\ \A k \in 0 .. mom : r[k] = q[k]
            /\ \A k \in Slots : k > mom /\ k # me => r[k] = mEvents[k]
        BY <1>1, <2>0, <3>1, <3>2, <3>4
      <3>6. \A k \in 0 .. me : k \in 0 .. mom \/ k \in mom + 1 .. me - 1 \/ k = me
        BY <2>0, <3>1
      <3>7. \A k \in mom + 1 .. me - 1 : /\ k \in Slots /\ r[k] = mEvents[k] /\ k \in 1 .. mSize - 1
                                         /\ mEvents[k] \in Event /\ mEvents[k].time \in Nat
        BY <1>1, <2>0, <3>1, <3>5
      <3>8. \A k \in Slots : k > me => r[k] = mEvents[k]
        BY <2>0, <3>1, <3>5 DEF Slots
      <3>9. \A k \in 0 .. me : r[k] \in Event /\ r[k].time \in Nat
        <4>1. \A k \in 0 .. me : r[k] \in Event
          BY <3>1, <3>4, <3>5, <3>6, <3>7
        <4> QED
          BY <4>1, HeapAssumption DEF Event
      <3>10. \A k \in 0 .. me - 1 : r[k].time <= mEvents[k].time
        <4> SUFFICES ASSUME NEW k \in 0 .. me - 1 PROVE r[k].time <= mEvents[k].time
          OBVIOUS
        <4>1. k \in 0 .. mom - 1 \/ k = mom \/ k \in mom + 1 .. me - 1
          BY <2>0, <3>1
        <4>2. CASE k \in 0 .. mom - 1
          BY <3>4, <3>5, <4>2, <3>1
        <4>3. CASE k = mom
          BY <3>4, <3>5, <4>3, <3>1
        <4>4. CASE k \in mom + 1 .. me - 1
          BY <3>7, <4>4
        <4> QED
          BY <4>1, <4>2, <4>3, <4>4
      <3>11. me < mSize => r[me].time <= mEvents[me].time
        <4>1. me < mSize => me \in 1 .. mSize - 1
          BY <1>1, <2>0, <2>1
        <4>2. me < mSize => mEvents[mom].time <= mEvents[me].time
          BY <1>2, <4>1 DEF mom
        <4> QED
          BY <3>5, <4>2
      <3>12. \A k \in 1 .. me : r[Mom(k)].time <= r[k].time
        <4> SUFFICES ASSUME NEW k \in 1 .. me PROVE r[Mom(k)].time <= r[k].time
          OBVIOUS
        <4>1. Mom(k) \in Nat /\ Mom(k) < k /\ Mom(k) <= mom
          BY <2>0, MomBefore, MomMonotone DEF mom
        <4>2. CASE k = me
          BY <3>1, <3>4, <3>5, <4>2 DEF mom
        <4>3. CASE k \in mom + 1 .. me - 1
          <5>1. r[k] = mEvents[k] /\ mEvents[Mom(k)].time <= mEvents[k].time
            BY <1>2, <3>7, <4>3
          <5>2. r[Mom(k)].time <= mEvents[Mom(k)].time
            BY <3>10, <3>1, <2>0, <4>1
          <5>3. /\ r[Mom(k)].time \in Nat /\ mEvents[Mom(k)].time \in Nat
                /\ mEvents[k].time \in Nat
            BY <1>1, <2>0, <3>1, <3>7, <3>9, <4>1, <4>3
          <5> QED
            BY <5>1, <5>2, <5>3
        <4>4. CASE k \in 0 .. mom
          BY <3>1, <3>4, <3>5, <4>1, <4>4
        <4> QED
          BY <3>6, <2>0, <4>2, <4>3, <4>4
      <3>13. \E k \in 0 .. me : r[k] = e
        <4>1. PICK k \in 0 .. mom : q[k] = e
          BY <3>4
        <4> QED
          BY <2>0, <3>1, <3>5, <4>1
      <3>14. \A k \in 0 .. me : r[k] = e \/ \E l \in 0 .. me - 1 : r[k] = mEvents[l]
        <4> SUFFICES ASSUME NEW k \in 0 .. me
                     PROVE  r[k] = e \/ \E l \in 0 .. me - 1 : r[k] = mEvents[l]
          OBVIOUS
        <4>1. CASE k = me
          <5>1. mom \in 0 .. me - 1
            BY <2>0, <3>1
          <5> QED
            BY <3>5, <4>1, <5>1
        <4>2. CASE k \in mom + 1 .. me - 1
          <5>1. k \in 0 .. me - 1
            BY <2>0, <3>1, <4>2
          <5> QED
            BY <3>7, <4>2, <5>1
        <4>3. CASE k \in 0 .. mom
          <5>1. q[k] = e \/ \E l \in 0 .. mom - 1 : q[k] = mEvents[l]
            BY <3>4, <4>3
          <5>2. 0 .. mom - 1 \subseteq 0 .. me - 1
            BY <2>0, <3>1
          <5> QED
            BY <3>5, <4>3, <5>1, <5>2
        <4> QED
          BY <3>6, <4>1, <4>2, <4>3
      <3>15. \A l \in 0 .. me - 1 : \E k \in 0 .. me : r[k] = mEvents[l]
        <4> SUFFICES ASSUME NEW l \in 0 .. me - 1 PROVE \E k \in 0 .. me : r[k] = mEvents[l]
          OBVIOUS
        <4>0. l \in 0 .. mom - 1 \/ l = mom \/ l \in mom + 1 .. me - 1
          BY <2>0, <3>1
        <4>1. CASE l = mom
          BY <2>0, <3>5, <4>1
        <4>2. CASE l \in mom + 1 .. me - 1
          BY <3>7, <4>2
        <4>3. CASE l \in 0 .. mom - 1
          <5>1. PICK k \in 0 .. mom : q[k] = mEvents[l]
            BY <3>4, <4>3
          <5>2. k \in 0 .. me
            BY <2>0, <3>1
          <5> QED
            BY <3>5, <5>1, <5>2
        <4> QED
          BY <4>0, <4>1, <4>2, <4>3
      <3>16. Climbed(r, e, me)
        BY <3>5, <3>8, <3>9, <3>10, <3>11, <3>12, <3>13, <3>14, <3>15 DEF Climbed
      <3> QED
        BY <3>16 DEF r
    <2>2. CASE ~(me > 0 /\ e.time < mEvents[Mom(me)].time)
      <3>1. r = [mEvents EXCEPT ![me] = e]
        BY <1>3, <2>2 DEF UpFrom
      <3> HIDE DEF r
      <3>2. /\ DOMAIN r = Slots /\ r[me] = e
            /\ \A k \in Slots : k # me => r[k] = mEvents[k]
        BY <1>1, <2>0, <3>1
      <3>3. \A k \in 0 .. me - 1 : /\ k \in Slots /\ r[k] = mEvents[k] /\ r[k] \in Event
                                   /\ r[k].time \in Nat
        BY <1>1, <2>0, <3>2
      <3>4. \A k \in 0 .. me : k \in 0 .. me - 1 \/ k = me
        BY <2>0
      <3>5. \A k \in 0 .. me : r[k] \in Event
        BY <3>2, <3>3, <3>4
      <3>6. \A k \in 0 .. me - 1 : r[k].time <= mEvents[k].time
        BY <3>3
      <3>7. \A k \in 1 .. me : r[Mom(k)].time <= r[k].time
        <4> SUFFICES ASSUME NEW k \in 1 .. me PROVE r[Mom(k)].time <= r[k].time
          OBVIOUS
        <4>1. Mom(k) \in Nat /\ Mom(k) < k /\ Mom(k) \in 0 .. me - 1
          BY <2>0, MomBefore
        <4>2. r[Mom(k)] = mEvents[Mom(k)] /\ r[Mom(k)].time \in Nat
          BY <3>3, <4>1
        <4>3. CASE k = me
          BY <1>1, <2>0, <2>2, <3>2, <4>2, <4>3
        <4>4. CASE k \in 1 .. me - 1
          BY <1>2, <3>3, <4>2, <4>4, <2>0, <1>1
        <4> QED
          BY <2>0, <4>3, <4>4
      <3>8. \A k \in 0 .. me : r[k] = e \/ \E l \in 0 .. me - 1 : r[k] = mEvents[l]
        BY <3>2, <3>3, <3>4
      <3>9. \A l \in 0 .. me - 1 : \E k \in 0 .. me : r[k] = mEvents[l]
        BY <2>0, <3>3
      <3>10. /\ \E k \in 0 .. me : r[k] = e
             /\ \A k \in Slots : k > me => r[k] = mEvents[k]
        BY <2>0, <3>2 DEF Slots
      <3>11. e.time <= mEvents[me].time => r[me].time <= mEvents[me].time
        BY <3>2
      <3>12. Climbed(r, e, me)
        BY <3>2, <3>5, <3>6, <3>7, <3>8, <3>9, <3>10, <3>11 DEF Climbed
      <3> QED
        BY <3>12 DEF r
    <2> QED
      BY <2>1, <2>2
  <1> DEFINE Bad == { me \in 0 .. mSize : ~Climbed(g[me], e, me) }
  <1>5. ASSUME Bad # {} PROVE FALSE
    <2>1. Bad \in SUBSET Nat
      BY <1>1
    <2>2. PICK x \in Bad : \A y \in Bad : x <= y
      <3> HIDE DEF Bad
      <3> QED
        BY <1>5, <2>1, LeastNumber
    <2>3. x > 0 => Mom(x) \in 0 .. mSize /\ Mom(x) < x /\ Mom(x) \in Nat /\ x \in Nat
      BY <1>1, MomBefore
    <2>4. x > 0 => Mom(x) \notin Bad
      <3> HIDE DEF Bad
      <3> QED
        BY <2>2, <2>3
    <2>5. x > 0 => Climbed(g[Mom(x)], e, Mom(x))
      BY <2>3, <2>4
    <2> QED
      BY <1>4, <2>5
  <1> QED
    BY <1>5

-----------------------------------------------------------------------------
(***************************************************************************)
(* Demoting.                                                               *)
(***************************************************************************)
DownFrom(g, temp, size, mom) ==
    LET me == EarlierChild(mom, size)
    IN  IF me < size /\ temp.time > mEvents[me].time
          THEN [g[me] EXCEPT ![mom] = mEvents[me]]
          ELSE [mEvents EXCEPT ![mom] = temp]

Descends(g, temp, size) == g = [mom \in Slots |-> DownFrom(g, temp, size, mom)]

\* The child Remove compares with is one of the two.
LEMMA ChildAfter ==
    ASSUME NEW mom \in Nat, NEW size \in Nat
    PROVE  /\ EarlierChild(mom, size) \in Nat /\ EarlierChild(mom, size) > mom
           /\ \/ EarlierChild(mom, size) = 2 * mom + 1
              \/ EarlierChild(mom, size) = 2 * mom + 2
  <1>1. \/ EarlierChild(mom, size) = 2 * mom + 1
        \/ EarlierChild(mom, size) = 2 * mom + 2
    BY DEF EarlierChild
  <1> QED
    BY <1>1

\* The recursive function of Demoted exists.
LEMMA DescentExists ==
    ASSUME NEW temp, NEW size \in 0 .. N
    PROVE  \E g : Descends(g, temp, size)
  <1>0. size \in Nat /\ N \in Nat /\ \A mom \in Slots : mom \in Nat /\ mom < N
    BY HeapAssumption DEF Slots
  <1> DEFINE Good == { n \in Nat :
                \E g : /\ g = [mom \in Slots |-> g[mom]]
                       /\ \A mom \in Slots :
                            mom + n >= N => g[mom] = DownFrom(g, temp, size, mom) }
  <1>1. 0 \in Good
    <2> DEFINE g == [mom \in Slots |-> 0]
    <2>1. /\ g = [mom \in Slots |-> g[mom]]
          /\ \A mom \in Slots : mom + 0 >= N => g[mom] = DownFrom(g, temp, size, mom)
      BY <1>0
    <2> QED
      BY <2>1
  <1>2. ASSUME NEW n \in Good PROVE n + 1 \in Good
    <2>1. PICK g : /\ g = [mom \in Slots |-> g[mom]]
                   /\ \A mom \in Slots :
                        mom + n >= N => g[mom] = DownFrom(g, temp, size, mom)
      OBVIOUS
    <2> DEFINE c == N - (n + 1)
               h == [mom \in Slots |-> IF mom = c THEN DownFrom(g, temp, size, mom)
                                                 ELSE g[mom]]
    <2>2. \A mom \in Slots : mom # c => h[mom] = g[mom]
      OBVIOUS
    <2>3. c \in Slots => h[c] = DownFrom(g, temp, size, c)
      OBVIOUS
    <2>4. h = [mom \in Slots |-> h[mom]]
      OBVIOUS
    <2> HIDE DEF h
    <2>5. ASSUME NEW mom \in Slots, mom >= c
          PROVE  DownFrom(h, temp, size, mom) = DownFrom(g, temp, size, mom)
      <3> DEFINE me == EarlierChild(mom, size)
      <3>1. me \in Nat /\ me > mom
        BY <1>0, ChildAfter
      <3>2. me < size => me \in Slots /\ me # c
        BY <1>0, <2>5, <3>1 DEF Slots
      <3>3. me < size => h[me] = g[me]
        BY <2>2, <3>2
      <3> HIDE DEF me
      <3> QED
        BY <3>3 DEF DownFrom, me
    <2>6. ASSUME NEW mom \in Slots, mom + (n + 1) >= N
          PROVE  h[mom] = DownFrom(h, temp, size, mom)
      <3>1. mom >= c /\ (mom = c \/ (mom # c /\ mom + n >= N))
        BY <1>0, <2>6
      <3> HIDE DEF c
      <3> QED
        BY <2>1, <2>2, <2>3, <2>5, <3>1
    <2> QED
      BY <2>4, <2>6
  <1>3. Good = Nat
    BY <1>1, <1>2, SetInduction
  <1>4. N \in Good
    BY <1>3, HeapAssumption
  <1>5. PICK g : /\ g = [mom \in Slots |-> g[mom]]
                 /\ \A mom \in Slots :
                      mom + N >= N => g[mom] = DownFrom(g, temp, size, mom)
    BY <1>4
  <1>6. \A mom \in Slots : mom + N >= N
    BY <1>0
  <1>7. \A mom \in Slots : g[mom] = DownFrom(g, temp, size, mom)
    BY <1>5, <1>6
  <1>8. Descends(g, temp, size)
    BY <1>5, <1>7 DEF Descends
  <1> QED
    BY <1>8

\* Demoted is the value of such a function at the first slot.
LEMMA DemotedIsDescent ==
    ASSUME NEW temp, NEW size \in 0 .. N
    PROVE  \E g : Descends(g, temp, size) /\ Demoted(temp, size) = g[0]
  <1> DEFINE g == CHOOSE g : Descends(g, temp, size)
  <1>1. Descends(g, temp, size)
    BY DescentExists, Zenon
  <1>2. Demoted(temp, size) = g[0]
    BY DEF Demoted, Descends, DownFrom
  <1> QED
    BY <1>1, <1>2

\* The array when the walk down has come from slot mom: nothing before mom
\* has changed, times have only become later, every slot is in order with its
\* mom if that is not before mom, and temp is held besides the events that
\* were behind mom.
Descended(r, temp, size, mom) ==
    /\ DOMAIN r = Slots
    /\ \A k \in 0 .. mom - 1 : r[k] = mEvents[k]
    /\ \A k \in mom .. size - 1 : r[k] \in Event
    /\ \A k \in mom + 1 .. size - 1 : mEvents[k].time <= r[k].time
    /\ mEvents[mom].time <= temp.time => mEvents[mom].time <= r[mom].time
    /\ \A k \in 1 .. size - 1 : Mom(k) >= mom => r[Mom(k)].time <= r[k].time
    /\ \E k \in mom .. size - 1 : r[k] = temp
    /\ \A k \in mom .. size - 1 :
         r[k] = temp \/ \E l \in mom + 1 .. size - 1 : r[k] = mEvents[l]
    /\ \A l \in mom + 1 .. size - 1 : \E k \in mom .. size - 1 : r[k] = mEvents[l]

\* The child Remove compares with is the earlier of those there are.
LEMMA ChildEarliest ==
    ASSUME TypeOK, NEW size \in 0 .. mSize, NEW mom \in Nat,
           NEW k \in 1 .. size - 1, Mom(k) = mom
    PROVE  /\ EarlierChild(mom, size) < size
           /\ mEvents[EarlierChild(mom, size)].time <= mEvents[k].time
  <1>1. k = 2 * mom + 1 \/ k = 2 * mom + 2
    BY MomBefore DEF TypeOK
  <1>2. /\ size \in Nat /\ k \in Nat
        /\ \A j \in 0 .. size - 1 : mEvents[j].time \in Nat
    BY TimesHeld
  <1>3. CASE k = 2 * mom + 1
    <2>1. mEvents[k].time \in Nat /\ (k + 1 < size => mEvents[k + 1].time \in Nat)
      BY <1>2
    <2> QED
      BY <1>2, <1>3, <2>1 DEF EarlierChild
  <1>4. CASE k = 2 * mom + 2
    <2>1. mEvents[k].time \in Nat /\ mEvents[k - 1].time \in Nat /\ k - 1 = 2 * mom + 1
      BY <1>2, <1>4
    <2> QED
      BY <1>2, <1>4, <2>1 DEF EarlierChild
  <1> QED
    BY <1>1, <1>3, <1>4

\* What the walk down makes of a heap whose first event is taken out and whose
\* last event is demoted, from every slot.
LEMMA DescentKeepsOrder ==
    ASSUME TypeOK, HeapOrdered, NEW size \in Nat \ {0}, mSize = size + 1,
           NEW temp, temp = mEvents[size],
           NEW g, Descends(g, temp, size)
    PROVE  \A mom \in 0 .. size - 1 : Descended(g[mom], temp, size, mom)
  <1>1. /\ \A k \in 0 .. size - 1 : /\ k \in Slots /\ k \in Nat
                                     /\ mEvents[k] \in Event /\ mEvents[k].time \in Nat
        /\ temp \in Event /\ temp.time \in Nat /\ DOMAIN mEvents = Slots
        /\ \A f \in Event : f.time \in Nat
    BY TimesHeld
  <1>2. \A k \in 1 .. size - 1 : mEvents[Mom(k)].time <= mEvents[k].time
    BY DEF HeapOrdered
  <1>3. \A mom \in 0 .. size - 1 : g[mom] = DownFrom(g, temp, size, mom)
    BY <1>1 DEF Descends
  <1>4. ASSUME NEW mom \in 0 .. size - 1,
               \A k \in mom + 1 .. size - 1 : Descended(g[k], temp, size, k)
        PROVE  Descended(g[mom], temp, size, mom)
    <2> DEFINE me == EarlierChild(mom, size)
               r == g[mom]
    <2>0. mom \in Nat /\ mom \in Slots /\ me \in Nat /\ me > mom
      BY <1>1, ChildAfter
    <2>c. ASSUME NEW k \in 1 .. size - 1, Mom(k) = mom
          PROVE  me < size /\ mEvents[me].time <= mEvents[k].time
      <3>1. size \in 0 .. mSize
        BY TimesHeld
      <3> QED
        BY <2>0, <2>c, <3>1, ChildEarliest
    <2>1. CASE me < size /\ temp.time > mEvents[me].time
      <3> DEFINE q == g[me]
      <3>1. /\ me \in mom + 1 .. size - 1 /\ me \in 1 .. size - 1 /\ me \in Slots
            /\ mEvents[me] \in Event /\ mEvents[me].time \in Nat
        BY <1>1, <2>0, <2>1
      <3>m. Mom(me) = mom
        <4>1. me = 2 * mom + 1 \/ me = 2 * mom + 2
          BY <2>0, ChildAfter
        <4> HIDE DEF me
        <4> QED
          BY <2>0, <4>1 DEF Mom
      <3>2. r = [q EXCEPT ![mom] = mEvents[me]]
        BY <1>3, <2>1 DEF DownFrom
      <3>3. Descended(q, temp, size, me)
        BY <1>4, <3>1
      <3> HIDE DEF me, q, r
      <3>4. /\ DOMAIN q = Slots
            /\ \A k \in 0 .. me - 1 : q[k] = mEvents[k]
            /\ \A k \in me .. size - 1 : q[k] \in Event
            /\ \A k \in me + 1 .. size - 1 : mEvents[k].time <= q[k].time
            /\ mEvents[me].time <= q[me].time
            /\ \A k \in 1 .. size - 1 : Mom(k) >= me => q[Mom(k)].time <= q[k].time
            /\ \E k \in me .. size - 1 : q[k] = temp
            /\ \A k \in me .. size - 1 :
                 q[k] = temp \/ \E l \in me + 1 .. size - 1 : q[k] = mEvents[l]
            /\ \A l \in me + 1 .. size - 1 : \E k \in me .. size - 1 : q[k] = mEvents[l]
        BY <1>1, <2>1, <3>1, <3>3 DEF Descended
      <3>5. /\ DOMAIN r = Slots /\ r[mom] = mEvents[me]
            /\ \A k \in Slots : k # mom => r[k] = q[k]
            /\ \A k \in me .. size - 1 : r[k] = q[k]
            /\ \A k \in mom + 1 .. me - 1 : r[k] = mEvents[k]
            /\ \A k \in 0 .. mom - 1 : r[k] = mEvents[k]
        <4>1. /\ DOMAIN r = Slots /\ r[mom] = mEvents[me]
              /\ \A k \in Slots : k # mom => r[k] = q[k]
          BY <2>0, <3>2, <3>4
        <4>2. /\ \A k \in me .. size - 1 : k \in Slots /\ k # mom
              /\ \A k \in mom + 1 .. me - 1 : k \in Slots /\ k # mom /\ k \in 0 .. me - 1
              /\ \A k \in 0 .. mom - 1 : k \in Slots /\ k # mom /\ k \in 0 .. me - 1
          BY <1>1, <2>0, <3>1
        <4> QED
          BY <3>4, <4>1, <4>2
      <3>6. \A k \in mom .. size - 1 : k = mom \/ k \in mom + 1 .. me - 1 \/ k \in me .. size - 1
        BY <2>0, <3>1
      <3>7. \A k \in mom .. size - 1 : r[k] \in Event /\ r[k].time \in Nat
        <4>1. \A k \in mom + 1 .. me - 1 : mEvents[k] \in Event
          BY <1>1, <2>0, <3>1
        <4>2. \A k \in mom .. size - 1 : r[k] \in Event
          BY <3>1, <3>4, <3>5, <3>6, <4>1
        <4> QED
          BY <1>1, <4>2
      <3>8. \A k \in mom + 1 .. size - 1 : mEvents[k].time <= r[k].time
        <4> SUFFICES ASSUME NEW k \in mom + 1 .. size - 1
                     PROVE  mEvents[k].time <= r[k].time
          OBVIOUS
        <4>1. k \in mom + 1 .. me - 1 \/ k = me \/ k \in me + 1 .. size - 1
          BY <2>0, <3>1
        <4>2. CASE k \in mom + 1 .. me - 1
          <5>1. mEvents[k].time \in Nat
            BY <1>1, <2>0
          <5> QED
            BY <3>5, <4>2, <5>1
        <4>3. CASE k = me
          BY <3>1, <3>4, <3>5, <4>3
        <4>4. CASE k \in me + 1 .. size - 1
          <5>1. k \in me .. size - 1
            BY <3>1, <4>4
          <5> QED
            BY <3>4, <3>5, <4>4, <5>1
        <4> QED
          BY <4>1, <4>2, <4>3, <4>4
      <3>9. mEvents[mom].time <= r[mom].time
        BY <1>2, <3>1, <3>m, <3>5
      <3>10. \A k \in 1 .. size - 1 : Mom(k) >= mom => r[Mom(k)].time <= r[k].time
        <4> SUFFICES ASSUME NEW k \in 1 .. size - 1, Mom(k) >= mom
                     PROVE  r[Mom(k)].time <= r[k].time
          OBVIOUS
        <4>1. Mom(k) \in Nat /\ Mom(k) < k /\ k \in mom + 1 .. size - 1
          BY <2>0, MomBefore
        <4>2. /\ mEvents[k].time \in Nat /\ r[k].time \in Nat
              /\ mEvents[k].time <= r[k].time
          BY <1>1, <2>0, <3>7, <3>8, <4>1
        <4>3. CASE Mom(k) = mom
          <5>1. mEvents[me].time <= mEvents[k].time
            BY <2>c, <4>3 DEF me
          <5> QED
            BY <3>1, <3>5, <4>2, <4>3, <5>1
        <4>4. CASE Mom(k) \in mom + 1 .. me - 1
          <5>1. r[Mom(k)] = mEvents[Mom(k)] /\ mEvents[Mom(k)].time <= mEvents[k].time
            BY <1>2, <3>5, <4>4
          <5>2. mEvents[Mom(k)].time \in Nat
            BY <1>1, <4>1
          <5> QED
            BY <4>2, <5>1, <5>2
        <4>5. CASE Mom(k) >= me
          <5>1. Mom(k) \in me .. size - 1 /\ k \in me .. size - 1
            BY <3>1, <4>1, <4>5
          <5> QED
            BY <3>4, <3>5, <4>5, <5>1
        <4> QED
          BY <2>0, <4>1, <4>3, <4>4, <4>5
      <3>11. \E k \in mom .. size - 1 : r[k] = temp
        <4>1. PICK k \in me .. size - 1 : q[k] = temp
          BY <3>4
        <4>2. k \in mom .. size - 1
          BY <2>0, <3>1
        <4> QED
          BY <3>5, <4>1, <4>2
      <3>12. \A k \in mom .. size - 1 :
               r[k] = temp \/ \E l \in mom + 1 .. size - 1 : r[k] = mEvents[l]
        <4> SUFFICES ASSUME NEW k \in mom .. size - 1
                     PROVE  r[k] = temp \/ \E l \in mom + 1 .. size - 1 : r[k] = mEvents[l]
          OBVIOUS
        <4>1. CASE k = mom
          BY <3>1, <3>5, <4>1
        <4>2. CASE k \in mom + 1 .. me - 1
          <5>1. k \in mom + 1 .. size - 1
            BY <3>1, <4>2
          <5> QED
            BY <3>5, <4>2, <5>1
        <4>3. CASE k \in me .. size - 1
          <5>1. q[k] = temp \/ \E l \in me + 1 .. size - 1 : q[k] = mEvents[l]
            BY <3>4, <4>3
          <5>2. me + 1 .. size - 1 \subseteq mom + 1 .. size - 1
            BY <2>0, <3>1
          <5> QED
            BY <3>5, <4>3, <5>1, <5>2
        <4> QED
          BY <3>6, <4>1, <4>2, <4>3
      <3>13. \A l \in mom + 1 .. size - 1 : \E k \in mom .. size - 1 : r[k] = mEvents[l]
        <4> SUFFICES ASSUME NEW l \in mom + 1 .. size - 1
                     PROVE  \E k \in mom .. size - 1 : r[k] = mEvents[l]
          OBVIOUS
        <4>0. l \in mom + 1 .. me - 1 \/ l = me \/ l \in me + 1 .. size - 1
          BY <2>0, <3>1
        <4>1. CASE l = me
          BY <2>0, <3>5, <4>1
        <4>2. CASE l \in mom + 1 .. me - 1
          <5>1. l \in mom .. size - 1
            BY <2>0
          <5> QED
            BY <3>5, <4>2, <5>1
        <4>3. CASE l \in me + 1 .. size - 1
          <5>1. PICK k \in me .. size - 1 : q[k] = mEvents[l]
            BY <3>4, <4>3
          <5>2. k \in mom .. size - 1
            BY <2>0, <3>1
          <5> QED
            BY <3>5, <5>1, <5>2
        <4> QED
          BY <4>0, <4>1, <4>2, <4>3
      <3>14. Descended(r, temp, size, mom)
        BY <3>5, <3>7, <3>8, <3>9, <3>10, <3>11, <3>12, <3>13 DEF Descended
      <3> QED
        BY <3>14 DEF r
    <2>2. CASE ~(me < size /\ temp.time > mEvents[me].time)
      <3>1. r = [mEvents EXCEPT ![mom] = temp]
        BY <1>3, <2>2 DEF DownFrom
      <3> HIDE DEF r, me
      <3>2. /\ DOMAIN r = Slots /\ r[mom] = temp
            /\ \A k \in Slots : k # mom => r[k] = mEvents[k]
        BY <1>1, <2>0, <3>1
      <3>3. /\ \A k \in 0 .. mom - 1 : r[k] = mEvents[k]
            /\ \A k \in mom + 1 .. size - 1 : /\ k \in mom .. size - 1 /\ r[k] = mEvents[k]
                                             /\ r[k] \in Event /\ r[k].time \in Nat
        <4>1. /\ \A k \in 0 .. mom - 1 : k \in Slots /\ k # mom
              /\ \A k \in mom + 1 .. size - 1 : /\ k \in mom .. size - 1 /\ k \in Slots /\ k # mom
                                               /\ mEvents[k] \in Event /\ mEvents[k].time \in Nat
          BY <1>1, <2>0
        <4> QED
          BY <3>2, <4>1
      <3>4. \A k \in mom .. size - 1 : k = mom \/ k \in mom + 1 .. size - 1
        BY <2>0
      <3>5. \A k \in mom .. size - 1 : r[k] \in Event
        BY <1>1, <3>2, <3>3, <3>4
      <3>6. \A k \in mom + 1 .. size - 1 : mEvents[k].time <= r[k].time
        BY <3>3
      <3>7. \A k \in 1 .. size - 1 : Mom(k) >= mom => r[Mom(k)].time <= r[k].time
        <4> SUFFICES ASSUME NEW k \in 1 .. size - 1, Mom(k) >= mom
                     PROVE  r[Mom(k)].time <= r[k].time
          OBVIOUS
        <4>1. Mom(k) \in Nat /\ Mom(k) < k /\ k \in mom + 1 .. size - 1
          BY <2>0, MomBefore
        <4>2. r[k] = mEvents[k] /\ mEvents[k].time \in Nat
          BY <3>3, <4>1
        <4>3. CASE Mom(k) = mom
          <5>1. me < size /\ mEvents[me].time <= mEvents[k].time
            BY <2>c, <4>3 DEF me
          <5>2. mEvents[me].time \in Nat
            BY <1>1, <2>0, <5>1
          <5>3. temp.time <= mEvents[me].time
            BY <1>1, <2>2, <5>1, <5>2
          <5> QED
            BY <1>1, <3>2, <4>2, <4>3, <5>1, <5>2, <5>3
        <4>4. CASE Mom(k) # mom
          <5>1. Mom(k) \in mom + 1 .. size - 1
            BY <2>0, <4>1, <4>4
          <5> QED
            BY <1>2, <3>3, <4>2, <5>1
        <4> QED
          BY <4>3, <4>4
      <3>8. \A k \in mom .. size - 1 :
               r[k] = temp \/ \E l \in mom + 1 .. size - 1 : r[k] = mEvents[l]
        BY <3>2, <3>3, <3>4
      <3>9. \A l \in mom + 1 .. size - 1 : \E k \in mom .. size - 1 : r[k] = mEvents[l]
        BY <3>3
      <3>10. \E k \in mom .. size - 1 : r[k] = temp
        BY <2>0, <3>2
      <3>11. mEvents[mom].time <= temp.time => mEvents[mom].time <= r[mom].time
        BY <3>2
      <3>12. Descended(r, temp, size, mom)
        BY <3>2, <3>3, <3>5, <3>6, <3>7, <3>8, <3>9, <3>10, <3>11 DEF Descended
      <3> QED
        BY <3>12 DEF r
    <2> QED
      BY <2>1, <2>2
  <1> DEFINE Bad == { d \in 0 .. size - 1 : ~Descended(g[size - 1 - d], temp, size, size - 1 - d) }
  <1>5. ASSUME Bad # {} PROVE FALSE
    <2>1. Bad \in SUBSET Nat
      OBVIOUS
    <2>2. PICK x \in Bad : \A y \in Bad : x <= y
      <3> HIDE DEF Bad
      <3> QED
        BY <1>5, <2>1, LeastNumber
    <2>3. ASSUME NEW k \in (size - 1 - x) + 1 .. size - 1
          PROVE  Descended(g[k], temp, size, k)
      <3> DEFINE y == size - 1 - k
      <3>1. y \in 0 .. size - 1 /\ y < x /\ size - 1 - y = k
        OBVIOUS
      <3>2. y \notin Bad
        <4> HIDE DEF Bad, y
        <4> QED
          BY <2>1, <2>2, <3>1
      <3> HIDE DEF y
      <3> QED
        BY <3>1, <3>2
    <2>4. size - 1 - x \in 0 .. size - 1
      OBVIOUS
    <2>5. Descended(g[size - 1 - x], temp, size, size - 1 - x)
      BY <1>4, <2>3, <2>4
    <2> QED
      BY <2>5
  <1>6. ASSUME NEW mom \in 0 .. size - 1 PROVE Descended(g[mom], temp, size, mom)
    <2> DEFINE d == size - 1 - mom
    <2>1. d \in 0 .. size - 1 /\ size - 1 - d = mom
      OBVIOUS
    <2>2. d \notin Bad
      BY <1>5
    <2> HIDE DEF d
    <2> QED
      BY <2>1, <2>2
  <1> QED
    BY <1>6

-----------------------------------------------------------------------------
(***************************************************************************)
(* What the operations do to the events held.                              *)
(***************************************************************************)
\* No event of a heap is earlier than the first.
LEMMA FirstIsEarliest ==
    ASSUME TypeOK, HeapOrdered
    PROVE  \A k \in 0 .. mSize - 1 : mEvents[0].time <= mEvents[k].time
  <1>1. mSize \in Nat /\ \A k \in 0 .. mSize - 1 : k \in Nat /\ mEvents[k].time \in Nat
    BY TimesHeld
  <1> DEFINE Bad == { k \in 0 .. mSize - 1 : ~(mEvents[0].time <= mEvents[k].time) }
  <1>2. ASSUME Bad # {} PROVE FALSE
    <2>1. Bad \in SUBSET Nat
      BY <1>1
    <2>2. PICK x \in Bad : \A y \in Bad : x <= y
      <3> HIDE DEF Bad
      <3> QED
        BY <1>2, <2>1, LeastNumber
    <2>3. x # 0
      BY <1>1
    <2>4. Mom(x) \in 0 .. mSize - 1 /\ Mom(x) < x /\ x \in 1 .. mSize - 1 /\ Mom(x) \in Nat
      BY <1>1, <2>3, MomBefore
    <2>5. Mom(x) \notin Bad
      <3> HIDE DEF Bad
      <3> QED
        BY <2>1, <2>2, <2>4
    <2>6. mEvents[0].time <= mEvents[Mom(x)].time
      BY <2>4, <2>5
    <2>7. mEvents[Mom(x)].time <= mEvents[x].time
      BY <2>4 DEF HeapOrdered
    <2>8. /\ mEvents[0].time \in Nat /\ mEvents[x].time \in Nat
          /\ mEvents[Mom(x)].time \in Nat
      BY <1>1, <2>4
    <2> QED
      BY <2>6, <2>7, <2>8
  <1> QED
    BY <1>2

\* Add holds one event more, in a heap.
LEMMA Added ==
    ASSUME TypeOK, HeapOrdered, mSize < N, NEW e \in Event,
           mEvents' = PercolatedUp(mSize, e), mSize' = mSize + 1
    PROVE  TypeOK' /\ HeapOrdered' /\ Held' = Held \cup {e} /\ mEvents'[0] \in Event
  <1>1. PICK g : Climbs(g, e) /\ PercolatedUp(mSize, e) = g[mSize]
    BY PercolatedIsClimb
  <1>2. mSize \in Nat /\ mSize \in 0 .. mSize /\ mSize + 1 \in 0 .. N
    BY TimesHeld, HeapAssumption
  <1>3. Climbed(mEvents', e, mSize)
    BY <1>1, <1>2, ClimbKeepsOrder
  <1>4. mSize' - 1 = mSize /\ mSize' \in 0 .. N
    BY <1>2
  <1>5. TypeOK'
    BY <1>3, <1>4 DEF TypeOK, Climbed, Event, Slots
  <1>6. HeapOrdered'
    <2>1. \A k \in 1 .. mSize : mEvents'[Mom(k)].time <= mEvents'[k].time
      BY <1>3 DEF Climbed
    <2> QED
      BY <1>4, <2>1 DEF HeapOrdered, Mom
  <1>7. Held' = Held \cup {e}
    <2>1. Held' = { mEvents'[k] : k \in 0 .. mSize }
      BY <1>4 DEF Held
    <2>2. /\ \E k \in 0 .. mSize : mEvents'[k] = e
          /\ \A k \in 0 .. mSize :
               mEvents'[k] = e \/ \E l \in 0 .. mSize - 1 : mEvents'[k] = mEvents[l]
          /\ \A l \in 0 .. mSize - 1 : \E k \in 0 .. mSize : mEvents'[k] = mEvents[l]
      BY <1>3 DEF Climbed
    <2> QED
      BY <2>1, <2>2 DEF Held
  <1>8. mEvents'[0] \in Event
    BY <1>2, <1>3 DEF Climbed
  <1> QED
    BY <1>5, <1>6, <1>7, <1>8

\* Remove leaves a heap of all the events behind the first.
LEMMA TakenOut ==
    ASSUME TypeOK, HeapOrdered, mSize > 1,
           mEvents' = Demoted(mEvents[mSize - 1], mSize - 1), mSize' = mSize - 1
    PROVE  /\ TypeOK' /\ HeapOrdered' /\ mEvents'[0] \in Event
           /\ Held' = { mEvents[k] : k \in 1 .. mSize - 1 }
  <1> DEFINE size == mSize - 1
             temp == mEvents[size]
  <1>1. /\ size \in Nat \ {0} /\ size \in 0 .. N /\ mSize = size + 1
        /\ 0 \in 0 .. size - 1 /\ mSize' = size
    BY TimesHeld, HeapAssumption
  <1>2. PICK g : Descends(g, temp, size) /\ Demoted(temp, size) = g[0]
    <2> HIDE DEF size, temp
    <2> QED
      BY <1>1, DemotedIsDescent
  <1>3. Descended(mEvents', temp, size, 0)
    <2>1. mEvents' = g[0]
      BY <1>2
    <2>2. temp = mEvents[size]
      OBVIOUS
    <2> HIDE DEF size, temp
    <2>3. \A mom \in 0 .. size - 1 : Descended(g[mom], temp, size, mom)
      BY <1>1, <1>2, <2>2, DescentKeepsOrder
    <2> QED
      BY <1>1, <2>1, <2>3
  <1>4. temp = mEvents[size] /\ Held' = { mEvents'[k] : k \in 0 .. mSize' - 1 }
    BY DEF Held
  <1> HIDE DEF size, temp
  <1>5. TypeOK'
    <2>1. DOMAIN mEvents' = Slots /\ \A k \in 0 .. size - 1 : mEvents'[k] \in Event
      BY <1>3 DEF Descended
    <2> QED
      BY <1>1, <2>1 DEF TypeOK, Event, Slots
  <1>6. HeapOrdered'
    <2>1. \A k \in 1 .. size - 1 : mEvents'[Mom(k)].time <= mEvents'[k].time
      <3>1. \A k \in 1 .. size - 1 : Mom(k) >= 0
        BY <1>1, MomBefore
      <3> QED
        BY <1>3, <3>1 DEF Descended
    <2> QED
      BY <1>1, <2>1 DEF HeapOrdered, Mom
  <1>7. Held' = { mEvents[k] : k \in 1 .. mSize - 1 }
    <2>1. /\ \E k \in 0 .. size - 1 : mEvents'[k] = temp
          /\ \A k \in 0 .. size - 1 :
               mEvents'[k] = temp \/ \E l \in 1 .. size - 1 : mEvents'[k] = mEvents[l]
          /\ \A l \in 1 .. size - 1 : \E k \in 0 .. size - 1 : mEvents'[k] = mEvents[l]
      BY <1>1, <1>3 DEF Descended
    <2>2. \A l \in 1 .. mSize - 1 : l \in 1 .. size - 1 \/ l = size
      BY <1>1
    <2>3. size \in 1 .. mSize - 1 /\ 1 .. size - 1 \subseteq 1 .. mSize - 1
      BY <1>1
    <2>4. Held' = { mEvents'[k] : k \in 0 .. size - 1 }
      BY <1>1, <1>4
    <2>5. \A x \in Held' : x \in { mEvents[k] : k \in 1 .. mSize - 1 }
      <3>1. ASSUME NEW k \in 0 .. size - 1
            PROVE  \E l \in 1 .. mSize - 1 : mEvents'[k] = mEvents[l]
        <4>1. CASE mEvents'[k] = temp
          BY <1>4, <2>3, <4>1
        <4>2. CASE \E l \in 1 .. size - 1 : mEvents'[k] = mEvents[l]
          BY <2>3, <4>2
        <4> QED
          BY <2>1, <4>1, <4>2
      <3> QED
        BY <2>4, <3>1
    <2>6. \A x \in { mEvents[k] : k \in 1 .. mSize - 1 } : x \in Held'
      <3>1. ASSUME NEW l \in 1 .. mSize - 1
            PROVE  \E k \in 0 .. size - 1 : mEvents'[k] = mEvents[l]
        <4>1. CASE l = size
          BY <1>4, <2>1, <4>1
        <4>2. CASE l \in 1 .. size - 1
          BY <2>1, <4>2
        <4> QED
          BY <2>2, <4>1, <4>2
      <3> QED
        BY <2>4, <3>1
    <2> QED
      BY <2>5, <2>6
  <1>8. mEvents'[0] \in Event
    BY <1>1, <1>3 DEF Descended
  <1> QED
    BY <1>5, <1>6, <1>7, <1>8

\* The first event of a heap that holds none twice is not among the others.
LEMMA FirstOnlyOnce ==
    ASSUME TypeOK, HeldOnce, mSize > 0
    PROVE  { mEvents[k] : k \in 1 .. mSize - 1 } = Held \ {mEvents[0]}
  <1> DEFINE f == [k \in 0 .. mSize - 1 |-> mEvents[k]]
  <1>1. mSize \in Nat
    BY TimesHeld
  <1>2. IsFiniteSet(0 .. mSize - 1) /\ Cardinality(0 .. mSize - 1) = mSize
    BY <1>1, FS_Interval
  <1>3. f \in Surjection(0 .. mSize - 1, Held)
    BY DEF Surjection, Held
  <1>4. f \in Injection(0 .. mSize - 1, Held)
    <2> HIDE DEF f
    <2>1. Cardinality(Held) = Cardinality(0 .. mSize - 1)
      BY <1>2 DEF HeldOnce
    <2> QED
      BY <1>2, <1>3, <2>1, FS_SurjSameCardinalityImpliesInj
  <1>5. \A k \in 1 .. mSize - 1 : mEvents[k] # mEvents[0]
    <2>1. \A k, l \in 0 .. mSize - 1 : f[k] = f[l] => k = l
      BY <1>4 DEF Injection, IsInjective
    <2> QED
      BY <1>1, <2>1
  <1>6. \A k \in 0 .. mSize - 1 : k = 0 \/ k \in 1 .. mSize - 1
    BY <1>1
  <1> QED
    BY <1>1, <1>5, <1>6 DEF Held

-----------------------------------------------------------------------------
(***************************************************************************)
(* The theorems.                                                           *)
(***************************************************************************)
\* A new queue is an empty heap.
LEMMA HeapInit == Init => HeapInv /\ Held = {}
  <1> SUFFICES ASSUME Init PROVE HeapInv /\ Held = {}
    OBVIOUS
  <1>1. 0 \in Slots /\ mEvents[0] = EmptyTime
    BY HeapAssumption DEF Init, Slots
  <1>2. TypeOK
    BY HeapAssumption DEF Init, TypeOK
  <1>3. FirstSlot
    BY <1>1, LastTime DEF Init, FirstSlot, NextTime, EmptyTime
  <1>4. HeapOrdered
    BY DEF Init, HeapOrdered
  <1>5. Held = {}
    BY DEF Init, Held
  <1>6. HeldOnce
    BY <1>5, FS_EmptySet DEF Init, HeldOnce
  <1> QED
    BY <1>2, <1>3, <1>4, <1>5, <1>6 DEF HeapInv

\* The first slot answers the earliest time.
LEMMA EarliestHolds == HeapInv => NextTimeIsEarliest
  <1> SUFFICES ASSUME HeapInv PROVE NextTimeIsEarliest
    OBVIOUS
  <1>1. CASE mSize = 0
    <2>1. NextTime = kMaxInt64
      BY <1>1 DEF HeapInv, FirstSlot
    <2>2. \A t \in Times : NextTime > t
      BY <2>1, LastTime
    <2> QED
      BY <1>1, <2>2 DEF NextTimeIsEarliest
  <1>2. CASE mSize # 0
    <2>1. \A k \in 0 .. mSize - 1 : NextTime <= mEvents[k].time
      BY FirstIsEarliest DEF HeapInv, NextTime
    <2> QED
      BY <1>2, <2>1 DEF NextTimeIsEarliest, Held
  <1> QED
    BY <1>1, <1>2

\* Emptying the first slot keeps all but its time.
LEMMA VacatedSlot ==
    ASSUME TypeOK, FirstSlot, mEvents' = Vacated, mSize' = 0
    PROVE  HeapInv' /\ Held' = {}
  <1>1. 0 \in Slots /\ DOMAIN mEvents = Slots
    BY HeapAssumption DEF Slots, TypeOK
  <1>2. DOMAIN mEvents' = Slots /\ mEvents'[0] = [mEvents[0] EXCEPT !.time = kMaxInt64]
    BY <1>1 DEF Vacated
  <1>3. /\ mEvents'[0] \in [time : Nat, packet : Packets \cup {"none"}]
        /\ mEvents'[0].time = kMaxInt64
    <2>1. kMaxInt64 \in Nat
      BY LastTime
    <2>2. mEvents[0] \in [time : Nat, packet : Packets \cup {"none"}]
      BY DEF FirstSlot
    <2> QED
      BY <1>2, <2>1, <2>2
  <1>4. TypeOK'
    BY <1>2, HeapAssumption DEF TypeOK, Slots
  <1>5. FirstSlot'
    BY <1>3 DEF FirstSlot, NextTime, kMaxInt64
  <1>6. HeapOrdered'
    BY DEF HeapOrdered
  <1>7. Held' = {}
    BY DEF Held
  <1>8. HeldOnce'
    BY <1>7, FS_EmptySet DEF HeldOnce
  <1> QED
    BY <1>4, <1>5, <1>6, <1>7, <1>8 DEF HeapInv

\* Every operation keeps the heap, and is an operation of the abstract queue
\* or leaves the events held as they are.
LEMMA HeapStep ==
    HeapInv /\ [Next]_vars => HeapInv' /\ [Abstract!EventNext]_Held
  <1> SUFFICES ASSUME HeapInv, [Next]_vars
               PROVE  HeapInv' /\ [Abstract!EventNext]_Held
    OBVIOUS
  <1>a. TypeOK /\ FirstSlot /\ HeapOrdered /\ HeldOnce /\ mSize \in Nat
    BY TimesHeld DEF HeapInv
  <1>b. IsFiniteSet(Held) /\ Cardinality(Held) = mSize
    BY <1>a DEF HeldOnce
  <1>r. \A e \in Event : e \in [time : Nat, packet : Packets \cup {"none"}]
    BY HeapAssumption DEF Event
  <1>x. ASSUME UNCHANGED vars PROVE HeapInv' /\ [Abstract!EventNext]_Held
    <2>1. HeapInv'
      BY <1>x DEF vars, HeapInv, TypeOK, FirstSlot, HeapOrdered, HeldOnce, Held, NextTime,
         kMaxInt64, Slots, Event, Mom
    <2>2. Held' = Held
      BY <1>x DEF vars, Held
    <2> QED
      BY <2>1, <2>2
  <1>1. ASSUME NEW e \in Event, Add(e) PROVE HeapInv' /\ [Abstract!EventNext]_Held
    <2>1. CASE mSize >= N
      BY <1>1, <1>x, <2>1 DEF Add
    <2>2. CASE ~(mSize >= N)
      <3>1. mSize < N /\ mEvents' = PercolatedUp(mSize, e) /\ mSize' = mSize + 1
        BY <1>1, <1>a, <2>2, HeapAssumption DEF Add
      <3>2. TypeOK' /\ HeapOrdered' /\ Held' = Held \cup {e} /\ mEvents'[0] \in Event
        BY <1>a, <3>1, Added
      <3>3. e \notin Held
        BY <1>1 DEF Add
      <3>4. HeldOnce'
        <4>1. IsFiniteSet(Held \cup {e}) /\ Cardinality(Held \cup {e}) = mSize + 1
          BY <1>b, <3>3, FS_AddElement
        <4> QED
          BY <3>1, <3>2, <4>1 DEF HeldOnce
      <3>5. FirstSlot'
        BY <1>a, <1>r, <3>1, <3>2 DEF FirstSlot
      <3>6. Abstract!Enter(e)
        <4>1. Cardinality(Held) < N
          BY <1>b, <3>1
        <4>2. e \in Event \ Held
          BY <3>3
        <4>3. Abstract!Cardinality(Held) = Cardinality(Held)
          BY Zenon DEF Abstract!Cardinality, Cardinality
        <4>4. Held' = IF Abstract!Cardinality(Held) < N THEN Held \cup {e} ELSE Held
          BY <3>2, <4>1, <4>3
        <4> QED
          BY <4>2, <4>4 DEF Abstract!Enter
      <3> QED
        BY <3>2, <3>4, <3>5, <3>6 DEF HeapInv, Abstract!EventNext
    <2> QED
      BY <2>1, <2>2
  <1>2. ASSUME NEW t \in Times, Remove(t) PROVE HeapInv' /\ [Abstract!EventNext]_Held
    <2>1. mSize > 0
      <3> SUFFICES ASSUME mSize = 0 PROVE FALSE
        BY <1>a
      <3>1. NextTime > t /\ NextTime <= t
        BY <1>2, EarliestHolds DEF NextTimeIsEarliest, Remove
      <3>2. NextTime \in Nat /\ t \in Nat
        BY <1>a, HeapAssumption DEF FirstSlot, NextTime
      <3> QED
        BY <3>1, <3>2
    <2> DEFINE first == mEvents[0]
    <2>2. first \in Event /\ first \in Held /\ \A e \in Held : first.time <= e.time
      <3>1. 0 \in 0 .. mSize - 1
        BY <1>a, <2>1
      <3>2. first \in Event /\ first \in Held
        BY <1>a, <3>1 DEF TypeOK, Held
      <3>3. \A e \in Held : first.time <= e.time
        BY <1>a, FirstIsEarliest DEF Held
      <3> QED
        BY <3>2, <3>3
    <2>3. { mEvents[k] : k \in 1 .. mSize - 1 } = Held \ {first}
      BY <1>a, <2>1, FirstOnlyOnce
    <2>4. IsFiniteSet(Held \ {first}) /\ Cardinality(Held \ {first}) = mSize - 1
      BY <1>b, <2>2, FS_RemoveElement
    <2>5. HeapInv' /\ Held' = Held \ {first}
      <3>1. CASE mSize = 1
        <4>1. mEvents' = Vacated /\ mSize' = 0
          BY <1>2, <3>1 DEF Remove
        <4>2. HeapInv' /\ Held' = {}
          BY <1>a, <4>1, VacatedSlot
        <4>3. Held \ {first} = {}
          <5> HIDE DEF first
          <5> QED
            BY <2>4, <3>1, FS_EmptySet
        <4> QED
          BY <4>2, <4>3
      <3>2. CASE mSize # 1
        <4>1. /\ mSize > 1 /\ mSize' = mSize - 1
              /\ mEvents' = Demoted(mEvents[mSize - 1], mSize - 1)
          BY <1>2, <1>a, <2>1, <3>2 DEF Remove
        <4>2. /\ TypeOK' /\ HeapOrdered' /\ mEvents'[0] \in Event
              /\ Held' = { mEvents[k] : k \in 1 .. mSize - 1 }
          BY <1>a, <4>1, TakenOut
        <4>3. HeldOnce'
          BY <2>3, <2>4, <4>1, <4>2 DEF HeldOnce
        <4>4. FirstSlot'
          BY <1>a, <1>r, <4>1, <4>2 DEF FirstSlot
        <4> QED
          BY <2>3, <4>2, <4>3, <4>4 DEF HeapInv
      <3> QED
        BY <3>1, <3>2
    <2>6. Abstract!Leave(first)
      BY <2>2, <2>5 DEF Abstract!Leave, Abstract!Earliest
    <2> QED
      BY <2>2, <2>5, <2>6 DEF Abstract!EventNext
  <1>3. ASSUME Empty PROVE HeapInv' /\ [Abstract!EventNext]_Held
    <2>1. HeapInv' /\ Held' = {}
      BY <1>3, <1>a, VacatedSlot DEF Empty
    <2> QED
      BY <2>1 DEF Abstract!EventNext, Abstract!Clear
  <1> QED
    BY <1>1, <1>2, <1>3, <1>x DEF Next

\* The inductive invariant of the scheduler, for every room, every bounded
\* set of times and every set of packets.
THEOREM HeapInvariant == Spec => []HeapInv
  <1>1. Init => HeapInv
    BY HeapInit
  <1>2. HeapInv /\ [Next]_vars => HeapInv'
    BY HeapStep
  <1> QED
    BY <1>1, <1>2, PTL DEF Spec

\* After every Add, Remove and Empty no event is earlier than its mom.
THEOREM HeapAlwaysOrdered == Spec => []HeapOrdered
  <1>1. HeapInv => HeapOrdered
    BY DEF HeapInv
  <1> QED
    BY <1>1, HeapInvariant, PTL

\* NextTime, which does not look at the size, answers the earliest time, and a
\* time past every buffer when there is no event.
THEOREM NextTimeAlwaysEarliest == Spec => []NextTimeIsEarliest
  BY EarliestHolds, HeapInvariant, PTL

\* The array of the scheduler implements the bounded queue the audio thread
\* is promised: no event is lost or doubled, one with the lowest time comes
\* out, and an event is refused only when there is no room.
THEOREM HeapIsAQueue == Spec => IsEventQueue
  <1>1. Init => Abstract!EventInit
    BY HeapInit DEF Abstract!EventInit
  <1>2. HeapInv /\ [Next]_vars => [Abstract!EventNext]_Held
    BY HeapStep
  <1> QED
    BY <1>1, <1>2, HeapInvariant, PTL DEF Spec, IsEventQueue, Abstract!EventSpec

=============================================================================
