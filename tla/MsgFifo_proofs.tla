--------------------------- MODULE MsgFifo_proofs ---------------------------
(***************************************************************************)
(* Theorems about MsgFifo for every number of slots and every set of       *)
(* messages: the heads stay in order round the ring, and the ring of slots *)
(* and heads implements the bounded queue of FifoQueue.                    *)
(*                                                                         *)
(* HeadsInOrder is inductive with the type invariant alone.  The           *)
(* refinement also needs that what a sending thread stores is a message,   *)
(* and rests on lemmas about a run of consecutive slots: what one slot     *)
(* more, one slot less or a write to another slot makes of it.             *)
(***************************************************************************)
EXTENDS MsgFifo, SequenceTheorems, TLAPS

\* A sending thread has a message to store.
Loaded == sender # "idle" => data \in Messages

FifoInv == TypeOK /\ Loaded /\ HeadsInOrder

-----------------------------------------------------------------------------
\* The position k slots after a slot: a turn round the ring is taken off
\* where the end is passed.
LEMMA RingPosition ==
    ASSUME NEW a \in Slots, NEW k \in 0 .. N
    PROVE  /\ (a + k) % N = IF a + k < N THEN a + k ELSE a + k - N
           /\ (a + k) % N \in Slots
  BY FifoAssumption DEF Slots

\* NextPos steps to the next slot and from the last one to the first.
LEMMA NextPosition ==
    ASSUME NEW a \in Slots
    PROVE  /\ NextPos(a) = IF a + 1 = N THEN 0 ELSE a + 1
           /\ NextPos(a) \in Slots
  BY FifoAssumption DEF Slots, NextPos

\* The distance from one slot to another, going forward round the ring.
LEMMA AheadOf ==
    ASSUME NEW a \in Slots, NEW b \in Slots
    PROVE  /\ b >= a => Ahead(a, b) = b - a
           /\ b < a => Ahead(a, b) = b - a + N
           /\ Ahead(a, b) \in Slots
           /\ Ahead(a, b) = 0 <=> a = b
  <1>1. CASE b >= a
    BY <1>1, FifoAssumption DEF Slots, Ahead
  <1>2. CASE b < a
    BY <1>2, FifoAssumption DEF Slots, Ahead
  <1> QED
    BY <1>1, <1>2 DEF Slots

\* Two slots at the same distance from a third are one slot.
LEMMA SameDistance ==
    ASSUME NEW a \in Slots, NEW b \in Slots, NEW c \in Slots,
           Ahead(a, b) = Ahead(a, c)
    PROVE  b = c
  <1>1. /\ b >= a => Ahead(a, b) = b - a
        /\ b < a => Ahead(a, b) = b - a + N
        /\ c >= a => Ahead(a, c) = c - a
        /\ c < a => Ahead(a, c) = c - a + N
    BY AheadOf
  <1> QED
    BY <1>1, FifoAssumption DEF Slots

\* Moving a head one slot on changes its distance from another by one,
\* unless that brings the two together or takes them apart.
LEMMA OneSlotOn ==
    ASSUME NEW a \in Slots, NEW b \in Slots
    PROVE  /\ a # b => Ahead(NextPos(a), b) = Ahead(a, b) - 1
           /\ NextPos(b) # a => Ahead(a, NextPos(b)) = Ahead(a, b) + 1
           /\ NextPos(b) = a => Ahead(a, b) = N - 1
  <1>1. /\ b >= a => Ahead(a, b) = b - a
        /\ b < a => Ahead(a, b) = b - a + N
    BY AheadOf
  <1>2. /\ NextPos(a) = IF a + 1 = N THEN 0 ELSE a + 1
        /\ NextPos(b) = IF b + 1 = N THEN 0 ELSE b + 1
        /\ NextPos(a) \in Slots /\ NextPos(b) \in Slots
    BY NextPosition
  <1>3. /\ b >= NextPos(a) => Ahead(NextPos(a), b) = b - NextPos(a)
        /\ b < NextPos(a) => Ahead(NextPos(a), b) = b - NextPos(a) + N
    BY <1>2, AheadOf
  <1>4. /\ NextPos(b) >= a => Ahead(a, NextPos(b)) = NextPos(b) - a
        /\ NextPos(b) < a => Ahead(a, NextPos(b)) = NextPos(b) - a + N
    BY <1>2, AheadOf
  <1> QED
    BY <1>1, <1>2, <1>3, <1>4, FifoAssumption DEF Slots

-----------------------------------------------------------------------------
\* Initially the heads stand at the same slot and nothing is being sent.
LEMMA InvInit == Init => FifoInv
  <1> SUFFICES ASSUME Init PROVE FifoInv
    OBVIOUS
  <1>1. 0 \in Slots
    BY FifoAssumption DEF Slots
  <1>2. TypeOK /\ Loaded
    BY <1>1 DEF Init, TypeOK, Loaded, SenderSteps
  <1>3. HeadsInOrder
    BY <1>1, AheadOf DEF Init, HeadsInOrder, Slots
  <1> QED
    BY <1>2, <1>3 DEF FifoInv

\* Every step of either thread keeps the invariant.
LEMMA InvStep == FifoInv /\ [Next]_vars => FifoInv'
  <1> SUFFICES ASSUME FifoInv, [Next]_vars PROVE FifoInv'
    OBVIOUS
  <1> USE FifoAssumption
  <1>0. /\ TypeOK /\ Loaded /\ HeadsInOrder
        /\ mReadHead \in Slots /\ mWriteHead \in Slots /\ mFreeHead \in Slots
        /\ NextPos(mReadHead) \in Slots /\ NextPos(mWriteHead) \in Slots
        /\ NextPos(mFreeHead) \in Slots
    BY NextPosition DEF FifoInv, TypeOK
  <1>a. /\ Ahead(mFreeHead, mReadHead) \in Slots
        /\ Ahead(mFreeHead, mWriteHead) \in Slots
        /\ Ahead(mFreeHead, mReadHead) = 0 <=> mFreeHead = mReadHead
        /\ Ahead(mFreeHead, mWriteHead) = 0 <=> mFreeHead = mWriteHead
    BY <1>0, AheadOf
  <1>1. CASE \E m \in Messages : Send(m)
    <2> USE <1>1 DEF Send
    <2>1. TypeOK' /\ Loaded'
      BY <1>0 DEF TypeOK, Loaded, SenderSteps
    <2>2. HeadsInOrder'
      BY <1>0 DEF HeadsInOrder
    <2> QED
      BY <2>1, <2>2 DEF FifoInv
  <1>2. CASE FreeItem
    <2> USE <1>2 DEF FreeItem
    <2>1. TypeOK' /\ Loaded'
      BY <1>0 DEF TypeOK, Loaded, SenderSteps
    <2>2. HeadsInOrder'
      BY <1>0 DEF HeadsInOrder, NeedsFree
    <2> QED
      BY <2>1, <2>2 DEF FifoInv
  <1>3. CASE AdvanceFree
    <2> USE <1>3 DEF AdvanceFree
    <2>1. TypeOK' /\ Loaded'
      BY <1>0 DEF TypeOK, Loaded, SenderSteps
    <2>2. mFreeHead # mReadHead /\ mFreeHead # mWriteHead
      BY <1>0, <1>a DEF HeadsInOrder, Slots
    <2>3. /\ Ahead(mFreeHead', mReadHead) = Ahead(mFreeHead, mReadHead) - 1
          /\ Ahead(mFreeHead', mWriteHead) = Ahead(mFreeHead, mWriteHead) - 1
      BY <1>0, <2>2, OneSlotOn
    <2>4. HeadsInOrder'
      BY <1>0, <1>a, <2>2, <2>3 DEF HeadsInOrder, Slots
    <2> QED
      BY <2>1, <2>4 DEF FifoInv
  <1>4. CASE FreeEnds
    <2> USE <1>4 DEF FreeEnds
    <2>1. TypeOK' /\ Loaded'
      BY <1>0 DEF TypeOK, Loaded, SenderSteps
    <2>2. HeadsInOrder'
      BY <1>0 DEF HeadsInOrder
    <2> QED
      BY <2>1, <2>2 DEF FifoInv
  <1>5. CASE Refuse
    <2> USE <1>5 DEF Refuse
    <2>1. TypeOK' /\ Loaded'
      BY <1>0 DEF TypeOK, Loaded, SenderSteps
    <2>2. HeadsInOrder'
      BY <1>0 DEF HeadsInOrder
    <2> QED
      BY <2>1, <2>2 DEF FifoInv
  <1>6. CASE Store
    <2> USE <1>6 DEF Store
    <2>1. TypeOK' /\ Loaded'
      BY <1>0 DEF TypeOK, Loaded, SenderSteps
    <2>2. HeadsInOrder'
      BY <1>0 DEF HeadsInOrder, Full, TypeOK
    <2> QED
      BY <2>1, <2>2 DEF FifoInv
  <1>7. CASE AdvanceWrite
    <2> USE <1>7 DEF AdvanceWrite
    <2>1. TypeOK' /\ Loaded'
      BY <1>0 DEF TypeOK, Loaded, SenderSteps
    <2>2. Ahead(mFreeHead, mWriteHead') = Ahead(mFreeHead, mWriteHead) + 1
      BY <1>0, OneSlotOn DEF HeadsInOrder
    <2>3. mReadHead # mWriteHead'
      BY <1>0, <1>a, <2>2 DEF HeadsInOrder, Slots
    <2>4. HeadsInOrder'
      BY <1>0, <1>a, <2>2, <2>3 DEF HeadsInOrder, Slots
    <2> QED
      BY <2>1, <2>4 DEF FifoInv
  <1>8. CASE \E left \in Messages \cup {Spent} : PerformItem(left)
    <2> USE <1>8 DEF PerformItem
    <2>1. TypeOK' /\ Loaded'
      BY <1>0 DEF TypeOK, Loaded, SenderSteps
    <2>2. NextPos(mReadHead) # NextPos(mWriteHead)
      BY <1>0, NextPosition DEF HasData, Slots
    <2>3. HeadsInOrder'
      BY <1>0, <2>2 DEF HeadsInOrder, HasData, TypeOK
    <2> QED
      BY <2>1, <2>3 DEF FifoInv
  <1>9. CASE AdvanceRead
    <2> USE <1>9 DEF AdvanceRead
    <2>1. TypeOK' /\ Loaded'
      BY <1>0 DEF TypeOK, Loaded, SenderSteps
    <2>2. Ahead(mFreeHead, mReadHead) < Ahead(mFreeHead, mWriteHead)
      BY <1>0, <1>a, SameDistance DEF HeadsInOrder, Slots
    <2>3. NextPos(mReadHead) # mFreeHead
      BY <1>0, <1>a, <2>2, OneSlotOn DEF Slots
    <2>4. Ahead(mFreeHead, mReadHead') = Ahead(mFreeHead, mReadHead) + 1
      BY <1>0, <2>3, OneSlotOn
    <2>5. HeadsInOrder'
      BY <1>0, <1>a, <2>2, <2>3, <2>4 DEF HeadsInOrder, Slots
    <2> QED
      BY <2>1, <2>5 DEF FifoInv
  <1>10. CASE UNCHANGED vars
    BY <1>0, <1>10 DEF vars, FifoInv, TypeOK, Loaded, HeadsInOrder
  <1> QED
    BY <1>1, <1>2, <1>3, <1>4, <1>5, <1>6, <1>7, <1>8, <1>9, <1>10 DEF Next

\* The invariant holds in every reachable state.
THEOREM FifoInvariant == Spec => []FifoInv
  BY InvInit, InvStep, PTL DEF Spec

\* Whatever the two threads do and in whichever order, the free head is
\* followed by the read head and that by the write head, and a thread works
\* only on a slot that is its own.
THEOREM HeadsStayInOrder == Spec => []HeadsInOrder
  <1>1. FifoInv => HeadsInOrder
    BY DEF FifoInv
  <1> QED
    BY <1>1, FifoInvariant, PTL

-----------------------------------------------------------------------------
\* The slots after a head, in a given state of the slots.
Run(items, head, count) == [k \in 1 .. count |-> items[(head + k) % N]]

Items == [Slots -> Messages \cup {Spent}]

\* A run of slots is a sequence of that many messages.
LEMMA RunIsSequence ==
    ASSUME NEW items \in Items, NEW h \in Slots, NEW c \in 0 .. N
    PROVE  /\ Run(items, h, c) \in Seq(Messages \cup {Spent})
           /\ Len(Run(items, h, c)) = c
           /\ \A k \in 1 .. c : Run(items, h, c)[k] = items[(h + k) % N]
  <1>1. c \in Nat
    BY FifoAssumption
  <1>2. \A k \in 1 .. c : (h + k) % N \in Slots
    BY RingPosition, FifoAssumption
  <1>3. \A k \in 1 .. c : items[(h + k) % N] \in Messages \cup {Spent}
    BY <1>2 DEF Items
  <1>4. Run(items, h, c) \in [1 .. c -> Messages \cup {Spent}]
    BY <1>3 DEF Run
  <1> QED
    BY <1>1, <1>4 DEF Run

\* One slot more is one message more at the end.
LEMMA RunAppend ==
    ASSUME NEW items \in Items, NEW h \in Slots, NEW c \in 0 .. N - 1
    PROVE  Run(items, h, c + 1)
               = Append(Run(items, h, c), items[(h + (c + 1)) % N])
  <1> DEFINE new == items[(h + (c + 1)) % N]
  <1>1. /\ Run(items, h, c) \in Seq(Messages \cup {Spent})
        /\ Len(Run(items, h, c)) = c
        /\ \A k \in 1 .. c : Run(items, h, c)[k] = items[(h + k) % N]
    BY RunIsSequence, FifoAssumption
  <1>2. /\ Run(items, h, c + 1) \in Seq(Messages \cup {Spent})
        /\ Len(Run(items, h, c + 1)) = c + 1
        /\ \A k \in 1 .. c + 1 : Run(items, h, c + 1)[k] = items[(h + k) % N]
    <2>1. c + 1 \in 0 .. N
      BY FifoAssumption
    <2> QED
      BY <2>1, RunIsSequence
  <1>3. new \in Messages \cup {Spent}
    BY RingPosition, FifoAssumption DEF Items
  <1> HIDE DEF new
  <1>4. /\ Append(Run(items, h, c), new) \in Seq(Messages \cup {Spent})
        /\ Len(Append(Run(items, h, c), new)) = c + 1
        /\ \A k \in 1 .. c : Append(Run(items, h, c), new)[k] = items[(h + k) % N]
        /\ Append(Run(items, h, c), new)[c + 1] = new
    BY <1>1, <1>3, FifoAssumption
  <1>5. \A k \in 1 .. c + 1 :
            Run(items, h, c + 1)[k] = Append(Run(items, h, c), new)[k]
    BY <1>2, <1>4, FifoAssumption DEF new
  <1> QED
    BY <1>2, <1>4, <1>5, SeqEqual DEF new

\* Without its first slot a run is the run after the next slot.
LEMMA RunTail ==
    ASSUME NEW items \in Items, NEW h \in Slots, NEW c \in 1 .. N
    PROVE  /\ Tail(Run(items, h, c)) = Run(items, NextPos(h), c - 1)
           /\ Head(Run(items, h, c)) = items[NextPos(h)]
           /\ Run(items, h, c) # << >>
  <1> DEFINE r == Run(items, h, c)
             t == Run(items, NextPos(h), c - 1)
  <1>0. NextPos(h) \in Slots
    BY NextPosition
  <1>1. /\ r \in Seq(Messages \cup {Spent})
        /\ Len(r) = c
        /\ \A k \in 1 .. c : r[k] = items[(h + k) % N]
    BY RunIsSequence, FifoAssumption
  <1>2. /\ t \in Seq(Messages \cup {Spent})
        /\ Len(t) = c - 1
        /\ \A k \in 1 .. c - 1 : t[k] = items[(NextPos(h) + k) % N]
    <2>1. c - 1 \in 0 .. N
      BY FifoAssumption
    <2> QED
      BY <1>0, <2>1, RunIsSequence
  <1>3. ASSUME NEW k \in 1 .. c - 1
        PROVE  (NextPos(h) + k) % N = (h + (k + 1)) % N
    <2>1. k \in 0 .. N /\ k + 1 \in 0 .. N
      BY FifoAssumption
    <2>2. (h + (k + 1)) % N
              = IF h + (k + 1) < N THEN h + (k + 1) ELSE h + (k + 1) - N
      BY <2>1, RingPosition
    <2>3. (NextPos(h) + k) % N
              = IF NextPos(h) + k < N THEN NextPos(h) + k ELSE NextPos(h) + k - N
      BY <1>0, <2>1, RingPosition
    <2>4. NextPos(h) = IF h + 1 = N THEN 0 ELSE h + 1
      BY NextPosition
    <2> QED
      BY <2>1, <2>2, <2>3, <2>4, FifoAssumption DEF Slots
  <1> HIDE DEF r, t
  <1>4. r # << >> /\ Head(r) = r[1]
    BY <1>1
  <1>5. /\ Tail(r) \in Seq(Messages \cup {Spent})
        /\ Len(Tail(r)) = c - 1
        /\ \A k \in 1 .. c - 1 : Tail(r)[k] = r[k + 1]
    BY <1>1, <1>4
  <1>6. \A k \in 1 .. c - 1 : Tail(r)[k] = t[k]
    BY <1>1, <1>2, <1>3, <1>5, FifoAssumption
  <1>7. Tail(r) = t
    BY <1>2, <1>5, <1>6, SeqEqual
  <1>8. Head(r) = items[NextPos(h)]
    BY <1>1, <1>4, FifoAssumption DEF NextPos
  <1> QED
    BY <1>4, <1>7, <1>8 DEF r, t

\* A write to a slot outside a run leaves the run alone.
LEMMA RunElsewhere ==
    ASSUME NEW items \in Items, NEW new \in Items, NEW s \in Slots,
           \A p \in Slots : p # s => new[p] = items[p],
           NEW h \in Slots, NEW c \in 0 .. N - 1, s = h \/ c < Ahead(h, s)
    PROVE  Run(new, h, c) = Run(items, h, c)
  <1> SUFFICES ASSUME NEW k \in 1 .. c
               PROVE  (h + k) % N \in Slots /\ (h + k) % N # s
    BY DEF Run, Items
  <1>1. k \in 0 .. N
    BY FifoAssumption
  <1>2. /\ (h + k) % N = IF h + k < N THEN h + k ELSE h + k - N
        /\ (h + k) % N \in Slots
    BY <1>1, RingPosition
  <1>3. /\ s >= h => Ahead(h, s) = s - h
        /\ s < h => Ahead(h, s) = s - h + N
    BY AheadOf
  <1> QED
    BY <1>1, <1>2, <1>3, FifoAssumption DEF Slots

-----------------------------------------------------------------------------
\* The last slot reclaimed and the last slot performed, whether or not the
\* head has been moved there already.
FreeAt == (mFreeHead + Freed) % N
ReadAt == (mReadHead + Performed) % N

\* What the refinement mapping makes of the ring: the messages handled stand
\* between FreeAt and ReadAt, those waiting between ReadAt and the write head.
Layout ==
    /\ mItems \in Items
    /\ FreeAt \in Slots /\ ReadAt \in Slots /\ mWriteHead \in Slots
    /\ Ahead(mReadHead, mWriteHead) - Performed = Ahead(ReadAt, mWriteHead)
    /\ Ahead(mFreeHead, mReadHead) + Performed - Freed = Ahead(FreeAt, ReadAt)
    /\ Ahead(FreeAt, ReadAt) + Ahead(ReadAt, mWriteHead)
           = Ahead(FreeAt, mWriteHead)

\* Distances add up as long as they go round the ring at most once.
LEMMA DistancesAdd ==
    ASSUME NEW a \in Slots, NEW b \in Slots, NEW c \in Slots
    PROVE  /\ Ahead(a, b) <= Ahead(a, c)
                  => Ahead(a, b) + Ahead(b, c) = Ahead(a, c)
           /\ a # b => Ahead(a, b) + Ahead(b, a) = N
  <1>1. /\ b >= a => Ahead(a, b) = b - a
        /\ b < a => Ahead(a, b) = b - a + N
    BY AheadOf
  <1>2. /\ c >= a => Ahead(a, c) = c - a
        /\ c < a => Ahead(a, c) = c - a + N
    BY AheadOf
  <1>3. /\ c >= b => Ahead(b, c) = c - b
        /\ c < b => Ahead(b, c) = c - b + N
    BY AheadOf
  <1>4. /\ a >= b => Ahead(b, a) = a - b
        /\ a < b => Ahead(b, a) = a - b + N
    BY AheadOf
  <1> QED
    BY <1>1, <1>2, <1>3, <1>4, FifoAssumption DEF Slots

\* The slot one further than the distance between two slots.
LEMMA EndOfRun ==
    ASSUME NEW a \in Slots, NEW b \in Slots
    PROVE  (a + (Ahead(a, b) + 1)) % N = NextPos(b)
  <1>1. /\ b >= a => Ahead(a, b) = b - a
        /\ b < a => Ahead(a, b) = b - a + N
        /\ Ahead(a, b) \in Slots
    BY AheadOf
  <1>2. Ahead(a, b) + 1 \in 0 .. N
    BY <1>1, FifoAssumption DEF Slots
  <1>3. (a + (Ahead(a, b) + 1)) % N = IF a + (Ahead(a, b) + 1) < N
                                      THEN a + (Ahead(a, b) + 1)
                                      ELSE a + (Ahead(a, b) + 1) - N
    BY <1>2, RingPosition
  <1>4. NextPos(b) = IF b + 1 = N THEN 0 ELSE b + 1
    BY NextPosition
  <1> QED
    BY <1>1, <1>3, <1>4, FifoAssumption DEF Slots

\* The invariant gives the layout of the ring.
LEMMA LayoutHolds == FifoInv => Layout
  <1> SUFFICES ASSUME FifoInv PROVE Layout
    OBVIOUS
  <1> USE FifoAssumption
  <1>1. /\ mItems \in Items
        /\ mReadHead \in Slots /\ mWriteHead \in Slots /\ mFreeHead \in Slots
        /\ HeadsInOrder
    BY DEF FifoInv, TypeOK, Items
  <1>2. /\ NextPos(mReadHead) \in Slots /\ NextPos(mFreeHead) \in Slots
        /\ FreeAt = IF sender = "freed" THEN NextPos(mFreeHead) ELSE mFreeHead
        /\ ReadAt = IF receiver = "performed" THEN NextPos(mReadHead)
                                              ELSE mReadHead
    <2>1. NextPos(mReadHead) \in Slots /\ NextPos(mFreeHead) \in Slots
      BY <1>1, NextPosition
    <2>2. (mFreeHead + 0) % N = mFreeHead /\ (mReadHead + 0) % N = mReadHead
      BY <1>1 DEF Slots
    <2> QED
      BY <2>1, <2>2 DEF FreeAt, ReadAt, Freed, Performed, NextPos
  <1>3. FreeAt \in Slots /\ ReadAt \in Slots
    BY <1>1, <1>2
  <1>4. /\ Ahead(mFreeHead, mReadHead) \in Slots
        /\ Ahead(mReadHead, mWriteHead) \in Slots
        /\ Ahead(mFreeHead, mWriteHead) \in Slots
        /\ Ahead(FreeAt, mReadHead) \in Slots
        /\ Ahead(FreeAt, mWriteHead) \in Slots
        /\ Ahead(FreeAt, ReadAt) \in Slots
        /\ Ahead(ReadAt, mWriteHead) \in Slots
    BY <1>1, <1>3, AheadOf
  <1>5. Ahead(mReadHead, mWriteHead) - Performed = Ahead(ReadAt, mWriteHead)
    BY <1>1, <1>2, <1>4, OneSlotOn DEF HeadsInOrder, Performed, Slots
  <1>6. /\ Ahead(FreeAt, mReadHead) = Ahead(mFreeHead, mReadHead) - Freed
        /\ Ahead(FreeAt, mWriteHead) = Ahead(mFreeHead, mWriteHead) - Freed
    <2>1. CASE sender = "freed"
      <3>1. mFreeHead # mReadHead /\ mFreeHead # mWriteHead
        <4>1. /\ Ahead(mFreeHead, mReadHead) = 0 <=> mFreeHead = mReadHead
              /\ Ahead(mFreeHead, mWriteHead) = 0 <=> mFreeHead = mWriteHead
          BY <1>1, AheadOf
        <4> QED
          BY <1>1, <1>4, <2>1, <4>1 DEF HeadsInOrder, Slots
      <3> QED
        BY <1>1, <1>2, <2>1, <3>1, OneSlotOn DEF Freed
    <2>2. CASE sender # "freed"
      BY <1>2, <1>4, <2>2 DEF Freed, Slots
    <2> QED
      BY <2>1, <2>2
  <1>7. /\ Ahead(FreeAt, ReadAt) = Ahead(FreeAt, mReadHead) + Performed
        /\ Ahead(FreeAt, ReadAt) <= Ahead(FreeAt, mWriteHead)
    <2>1. Ahead(FreeAt, mReadHead) <= Ahead(FreeAt, mWriteHead)
      BY <1>1, <1>4, <1>6 DEF HeadsInOrder, Freed, Slots
    <2>2. CASE receiver = "performed"
      <3>1. Ahead(FreeAt, mReadHead) # Ahead(FreeAt, mWriteHead)
        BY <1>1, <1>3, <2>2, SameDistance DEF HeadsInOrder
      <3>2. NextPos(mReadHead) # FreeAt
        BY <1>1, <1>3, <1>4, <2>1, <3>1, OneSlotOn DEF Slots
      <3>3. Ahead(FreeAt, NextPos(mReadHead)) = Ahead(FreeAt, mReadHead) + 1
        BY <1>1, <1>3, <3>2, OneSlotOn
      <3> QED
        BY <1>2, <1>4, <2>1, <2>2, <3>1, <3>3 DEF Performed, Slots
    <2>3. CASE receiver # "performed"
      BY <1>2, <1>4, <2>1, <2>3 DEF Performed, Slots
    <2> QED
      BY <2>2, <2>3
  <1>8. Ahead(mFreeHead, mReadHead) + Performed - Freed = Ahead(FreeAt, ReadAt)
    BY <1>4, <1>6, <1>7 DEF Performed, Freed, Slots
  <1>9. Ahead(FreeAt, ReadAt) + Ahead(ReadAt, mWriteHead)
            = Ahead(FreeAt, mWriteHead)
    BY <1>1, <1>3, <1>7, DistancesAdd
  <1> QED
    BY <1>1, <1>3, <1>5, <1>8, <1>9 DEF Layout

\* The same of the state after a step.
LEMMA LayoutHoldsNext == FifoInv' => Layout'
  BY LayoutHolds, PTL

-----------------------------------------------------------------------------
\* The two sequences of the refinement mapping.
Waiting == Contents((mReadHead + Performed) % N,
                    Ahead(mReadHead, mWriteHead) - Performed)
Handled == Contents((mFreeHead + Freed) % N,
                    Ahead(mFreeHead, mReadHead) + Performed - Freed)

\* They are the runs of slots that the layout names.
LEMMA MappedRuns ==
    /\ Layout => /\ Waiting = Run(mItems, ReadAt, Ahead(ReadAt, mWriteHead))
                 /\ Handled = Run(mItems, FreeAt, Ahead(FreeAt, ReadAt))
    /\ Layout' => /\ Waiting' = Run(mItems', ReadAt', Ahead(ReadAt', mWriteHead'))
                  /\ Handled' = Run(mItems', FreeAt', Ahead(FreeAt', ReadAt'))
  BY DEF Layout, Waiting, Handled, Contents, Run, ReadAt, FreeAt, Ahead

\* A step that moves neither slot contents nor FreeAt, ReadAt or the write
\* head is no step of the queue.
LEMMA NothingMoves ==
    ASSUME Layout, Layout',
           UNCHANGED <<mItems, FreeAt, ReadAt, mWriteHead>>
    PROVE  UNCHANGED <<Waiting, Handled>>
  BY MappedRuns

\* Initially the queue is empty.
LEMMA InitRefines == Init => Abstract!QueueInit
  <1> SUFFICES ASSUME Init PROVE Abstract!QueueInit
    OBVIOUS
  <1>1. 0 \in Slots /\ (0 + 0) % N = 0
    BY FifoAssumption DEF Slots
  <1>2. Ahead(0, 0) = 0
    BY <1>1, AheadOf
  <1>3. Waiting = << >> /\ Handled = << >>
    BY <1>1, <1>2 DEF Init, Waiting, Handled, Performed, Freed, Contents
  <1> QED
    BY <1>3 DEF Abstract!QueueInit, Waiting, Handled

\* Moving the write head puts the stored message in the queue, performing
\* takes the first one out, freeing gives its room back, and every other
\* step of the two threads is invisible.
LEMMA StepRefines ==
    FifoInv /\ FifoInv' /\ [Next]_vars => [Abstract!QueueNext]_(Abstract!queueVars)
  <1> SUFFICES ASSUME FifoInv, FifoInv', [Next]_vars
               PROVE  \/ \E m \in Messages :
                             /\ Len(Waiting) + Len(Handled) < N - 1
                             /\ Waiting' = Append(Waiting, m)
                             /\ Handled' = Handled
                      \/ \E left \in Messages \cup {Spent} :
                             /\ Waiting # << >>
                             /\ left \in {Head(Waiting), Spent}
                             /\ Waiting' = Tail(Waiting)
                             /\ Handled' = Append(Handled, left)
                      \/ /\ Handled # << >>
                         /\ Handled' = Tail(Handled)
                         /\ Waiting' = Waiting
                      \/ UNCHANGED <<Waiting, Handled>>
    BY DEF Abstract!QueueNext, Abstract!queueVars, Abstract!Put, Abstract!Get,
           Abstract!Reclaim, Abstract!HasRoom, Waiting, Handled
  <1> USE FifoAssumption
  <1>0. Layout /\ Layout'
    BY LayoutHolds, LayoutHoldsNext
  <1> DEFINE h == Ahead(FreeAt, ReadAt)
             w == Ahead(ReadAt, mWriteHead)
  <1>a. /\ mItems \in Items /\ mItems' \in Items
        /\ FreeAt \in Slots /\ ReadAt \in Slots /\ mWriteHead \in Slots
        /\ NextPos(FreeAt) \in Slots /\ NextPos(ReadAt) \in Slots
        /\ NextPos(mWriteHead) \in Slots
        /\ h + w = Ahead(FreeAt, mWriteHead)
    BY <1>0, NextPosition DEF Layout
  <1>b. h \in 0 .. N - 1 /\ w \in 0 .. N - 1 /\ h + w \in 0 .. N - 1
    BY <1>a, AheadOf DEF Slots
  <1>c. /\ Waiting = Run(mItems, ReadAt, w)
        /\ Handled = Run(mItems, FreeAt, h)
        /\ Waiting' = Run(mItems', ReadAt', Ahead(ReadAt', mWriteHead'))
        /\ Handled' = Run(mItems', FreeAt', Ahead(FreeAt', ReadAt'))
    BY <1>0, MappedRuns
  <1>d. Len(Waiting) = w /\ Len(Handled) = h
    <2>1. w \in 0 .. N /\ h \in 0 .. N
      BY <1>b
    <2> QED
      BY <1>a, <1>c, <2>1, RunIsSequence
  <1> HIDE DEF h, w
  <1>1. CASE \E m \in Messages : Send(m)
    BY <1>0, <1>1, NothingMoves
    DEF Send, FreeAt, ReadAt, Freed, Performed
  <1>2. CASE FreeEnds
    BY <1>0, <1>2, NothingMoves
    DEF FreeEnds, FreeAt, ReadAt, Freed, Performed
  <1>3. CASE Refuse
    BY <1>0, <1>3, NothingMoves
    DEF Refuse, FreeAt, ReadAt, Freed, Performed
  <1>4. CASE UNCHANGED vars
    BY <1>0, <1>4, NothingMoves
    DEF vars, FreeAt, ReadAt, Freed, Performed
  <1>5. CASE AdvanceFree
    <2>1. FreeAt' = FreeAt /\ ReadAt' = ReadAt
      <3>1. mFreeHead \in Slots
        BY DEF FifoInv, TypeOK
      <3>2. NextPos(mFreeHead) \in Slots
        BY <3>1, NextPosition
      <3>3. (NextPos(mFreeHead) + 0) % N = NextPos(mFreeHead)
        BY <3>2 DEF Slots
      <3> QED
        BY <1>5, <3>3
        DEF AdvanceFree, FreeAt, ReadAt, Freed, Performed, NextPos
    <2> QED
      BY <1>0, <1>5, <2>1, NothingMoves DEF AdvanceFree
  <1>6. CASE AdvanceRead
    <2>1. FreeAt' = FreeAt /\ ReadAt' = ReadAt
      <3>1. mReadHead \in Slots
        BY DEF FifoInv, TypeOK
      <3>2. NextPos(mReadHead) \in Slots
        BY <3>1, NextPosition
      <3>3. (NextPos(mReadHead) + 0) % N = NextPos(mReadHead)
        BY <3>2 DEF Slots
      <3> QED
        BY <1>6, <3>3
        DEF AdvanceRead, FreeAt, ReadAt, Freed, Performed, NextPos
    <2> QED
      BY <1>0, <1>6, <2>1, NothingMoves DEF AdvanceRead
  <1>7. CASE Store
    <2> DEFINE s == NextPos(mWriteHead)
    <2>1. /\ FreeAt' = FreeAt /\ ReadAt' = ReadAt /\ mWriteHead' = mWriteHead
          /\ \A p \in Slots : p # s => mItems'[p] = mItems[p]
      BY <1>7, <1>a DEF Store, FreeAt, ReadAt, Freed, Performed, Items
    <2>2. s # FreeAt
      <3>1. FreeAt = mFreeHead
        BY <1>7 DEF Store, FreeAt, Freed, FifoInv, TypeOK, Slots
      <3> QED
        BY <1>7, <3>1 DEF Store, Full
    <2>3. Ahead(FreeAt, s) = h + w + 1
      BY <1>a, <1>b, <2>2, OneSlotOn
    <2>4. s = ReadAt \/ Ahead(ReadAt, s) = w + 1
      BY <1>a, OneSlotOn DEF w
    <2>5. Run(mItems', FreeAt, h) = Run(mItems, FreeAt, h)
      <3>1. h < Ahead(FreeAt, s)
        BY <1>b, <2>3
      <3> QED
        BY <1>a, <1>b, <2>1, <3>1, RunElsewhere
    <2>6. Run(mItems', ReadAt, w) = Run(mItems, ReadAt, w)
      <3>1. s = ReadAt \/ w < Ahead(ReadAt, s)
        BY <1>b, <2>4
      <3> QED
        BY <1>a, <1>b, <2>1, <3>1, RunElsewhere
    <2> QED
      BY <1>c, <2>1, <2>5, <2>6 DEF h, w
  <1>8. CASE AdvanceWrite
    <2>1. /\ FreeAt' = FreeAt /\ ReadAt' = ReadAt /\ mItems' = mItems
          /\ mWriteHead' = NextPos(mWriteHead)
      BY <1>8 DEF AdvanceWrite, FreeAt, ReadAt, Freed, Performed
    <2>2. NextPos(mWriteHead) # FreeAt
      <3>1. FreeAt = mFreeHead
        BY <1>8 DEF AdvanceWrite, FreeAt, Freed, FifoInv, TypeOK, Slots
      <3> QED
        BY <1>8, <3>1 DEF AdvanceWrite, FifoInv, HeadsInOrder
    <2>3. Ahead(FreeAt, NextPos(mWriteHead)) = h + w + 1
      BY <1>a, <1>b, <2>2, OneSlotOn
    <2>4. h + w < N - 1
      BY <1>a, <1>b, <2>3, AheadOf DEF Slots
    <2>5. NextPos(mWriteHead) # ReadAt
      BY <1>b, <2>3 DEF h
    <2>6. Ahead(ReadAt, NextPos(mWriteHead)) = w + 1
      BY <1>a, <2>5, OneSlotOn DEF w
    <2>7. Waiting' = Append(Waiting, mItems[NextPos(mWriteHead)])
      <3>1. (ReadAt + (w + 1)) % N = NextPos(mWriteHead)
        BY <1>a, EndOfRun DEF w
      <3>2. Run(mItems, ReadAt, w + 1)
                = Append(Run(mItems, ReadAt, w), mItems[(ReadAt + (w + 1)) % N])
        BY <1>a, <1>b, RunAppend
      <3> QED
        BY <1>c, <2>1, <2>6, <3>1, <3>2
    <2>8. mItems[NextPos(mWriteHead)] \in Messages
      BY <1>8 DEF AdvanceWrite, FifoInv, HeadsInOrder, Loaded
    <2>9. Handled' = Handled
      BY <1>c, <2>1 DEF h
    <2> QED
      BY <1>b, <1>d, <2>4, <2>7, <2>8, <2>9
  <1>9. CASE \E left \in Messages \cup {Spent} : PerformItem(left)
    <2> PICK left \in Messages \cup {Spent} : PerformItem(left)
      BY <1>9
    <2> DEFINE s == NextPos(ReadAt)
    <2>1. /\ FreeAt' = FreeAt /\ ReadAt' = s /\ mWriteHead' = mWriteHead
          /\ \A p \in Slots : p # s => mItems'[p] = mItems[p]
          /\ mItems'[s] = left
          /\ left \in {mItems[s], Spent}
          /\ ReadAt # mWriteHead
      <3>1. ReadAt = mReadHead
        BY DEF PerformItem, ReadAt, Performed, FifoInv, TypeOK, Slots
      <3>2. ReadAt' = NextPos(mReadHead)
        BY DEF PerformItem, ReadAt, Performed, NextPos
      <3> QED
        BY <1>a, <3>1, <3>2 DEF PerformItem, FreeAt, Freed, HasData, Items
    <2>2. w \in 1 .. N - 1
      <3>1. w # 0
        BY <1>a, <2>1, AheadOf DEF w
      <3> QED
        BY <1>b, <3>1
    <2>3. s # FreeAt /\ Ahead(FreeAt, s) = h + 1
      <3>1. s # FreeAt
        <4>1. s = FreeAt => h = N - 1
          BY <1>a, OneSlotOn DEF h
        <4> QED
          BY <1>b, <2>2, <4>1
      <3> QED
        BY <1>a, <3>1, OneSlotOn DEF h
    <2>4. Ahead(s, mWriteHead) = w - 1
      BY <1>a, <2>1, OneSlotOn DEF w
    <2>5. /\ Waiting # << >> /\ Head(Waiting) = mItems[s]
          /\ Waiting' = Tail(Waiting)
      <3>1. /\ Tail(Run(mItems, ReadAt, w)) = Run(mItems, s, w - 1)
            /\ Head(Run(mItems, ReadAt, w)) = mItems[s]
            /\ Run(mItems, ReadAt, w) # << >>
        <4>1. w \in 1 .. N
          BY <2>2
        <4> QED
          BY <1>a, <4>1, RunTail
      <3>2. Run(mItems', s, w - 1) = Run(mItems, s, w - 1)
        <4>1. w - 1 \in 0 .. N - 1
          BY <2>2
        <4> QED
          BY <1>a, <2>1, <4>1, RunElsewhere
      <3> QED
        BY <1>c, <2>1, <2>4, <3>1, <3>2
    <2>6. Handled' = Append(Handled, left)
      <3>1. (FreeAt + (h + 1)) % N = s
        BY <1>a, EndOfRun DEF h
      <3>2. Run(mItems', FreeAt, h + 1)
                = Append(Run(mItems', FreeAt, h), mItems'[(FreeAt + (h + 1)) % N])
        BY <1>a, <1>b, RunAppend
      <3>3. Run(mItems', FreeAt, h) = Run(mItems, FreeAt, h)
        <4>1. h < Ahead(FreeAt, s)
          BY <1>b, <2>3
        <4> QED
          BY <1>a, <1>b, <2>1, <4>1, RunElsewhere
      <3> QED
        BY <1>c, <2>1, <2>3, <3>1, <3>2, <3>3
    <2> QED
      BY <2>1, <2>5, <2>6
  <1>10. CASE FreeItem
    <2> DEFINE s == NextPos(FreeAt)
    <2>1. /\ FreeAt' = s /\ ReadAt' = ReadAt /\ mWriteHead' = mWriteHead
          /\ \A p \in Slots : p # s => mItems'[p] = mItems[p]
      <3>1. FreeAt = mFreeHead
        BY <1>10 DEF FreeItem, FreeAt, Freed, FifoInv, TypeOK, Slots
      <3>2. FreeAt' = NextPos(mFreeHead)
        BY <1>10 DEF FreeItem, FreeAt, Freed, NextPos
      <3> QED
        BY <1>10, <1>a, <3>1, <3>2 DEF FreeItem, ReadAt, Performed, Items
    <2>2. FreeAt # ReadAt /\ h \in 1 .. N - 1
      <3>1. h = Ahead(mFreeHead, mReadHead) + Performed
        <4>1. Ahead(mFreeHead, mReadHead) + Performed - 0 = h
          BY <1>0, <1>10 DEF FreeItem, Layout, Freed, h
        <4>2. Ahead(mFreeHead, mReadHead) \in Slots
          BY AheadOf DEF FifoInv, TypeOK
        <4> QED
          BY <4>1, <4>2 DEF Performed, Slots
      <3>2. Ahead(mFreeHead, mReadHead) # 0 /\ Ahead(mFreeHead, mReadHead) \in Slots
        BY <1>10, AheadOf DEF FreeItem, NeedsFree, FifoInv, TypeOK
      <3>3. h # 0
        BY <3>1, <3>2 DEF Performed, Slots
      <3> QED
        BY <1>a, <1>b, <3>3, AheadOf DEF h
    <2>3. Ahead(s, ReadAt) = h - 1
      BY <1>a, <2>2, OneSlotOn DEF h
    <2>4. s = ReadAt \/ w < Ahead(ReadAt, s)
      <3>1. h - 1 + Ahead(ReadAt, s) = N \/ s = ReadAt
        BY <1>a, <2>3, DistancesAdd
      <3>2. Ahead(ReadAt, s) \in Slots
        BY <1>a, AheadOf
      <3> QED
        BY <1>b, <2>2, <3>1, <3>2 DEF Slots
    <2>5. Waiting' = Waiting
      <3>1. Run(mItems', ReadAt, w) = Run(mItems, ReadAt, w)
        BY <1>a, <1>b, <2>1, <2>4, RunElsewhere
      <3> QED
        BY <1>c, <2>1, <3>1 DEF w
    <2>6. Handled # << >> /\ Handled' = Tail(Handled)
      <3>1. /\ Tail(Run(mItems, FreeAt, h)) = Run(mItems, s, h - 1)
            /\ Run(mItems, FreeAt, h) # << >>
        <4>1. h \in 1 .. N
          BY <2>2
        <4> QED
          BY <1>a, <4>1, RunTail
      <3>2. Run(mItems', s, h - 1) = Run(mItems, s, h - 1)
        <4>1. h - 1 \in 0 .. N - 1
          BY <2>2
        <4> QED
          BY <1>a, <2>1, <4>1, RunElsewhere
      <3> QED
        BY <1>c, <2>1, <2>3, <3>1, <3>2
    <2> QED
      BY <2>5, <2>6
  <1> QED
    BY <1>1, <1>2, <1>3, <1>4, <1>5, <1>6, <1>7, <1>8, <1>9, <1>10 DEF Next

\* The ring of slots and heads that two threads share without a lock
\* implements the bounded queue, whatever its size: no message is lost,
\* duplicated or overtaken, and none is reclaimed before it is performed.
THEOREM RingIsAQueue == Spec => IsBoundedQueue
  <1>1. FifoInv /\ FifoInv' /\ [Next]_vars
            => [Abstract!QueueNext]_(Abstract!queueVars)
    BY StepRefines
  <1> QED
    BY <1>1, InitRefines, FifoInvariant, PTL
    DEF Spec, IsBoundedQueue, Abstract!QueueSpec

=============================================================================
