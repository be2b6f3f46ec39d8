------------------------------- MODULE MsgFifo -------------------------------
(***************************************************************************)
(* The ring buffer between two threads of scsynth (MsgFifo.h).  No lock is *)
(* taken: the sending thread reclaims what has been performed and writes,  *)
(* the receiving thread performs, and each moves only its own heads.  A    *)
(* head is moved after a memory barrier and after the slot it uncovers has *)
(* been dealt with; every access to a head of the other thread is a step   *)
(* of its own here.                                                        *)
(*                                                                         *)
(* Senders of one ring exclude each other (mDriverLock), so there is one.  *)
(* Loads are taken to be performed in program order: there is no barrier   *)
(* between HasData and the read of the item.                               *)
(***************************************************************************)
EXTENDS Integers, Sequences

CONSTANTS
    Messages,   \* the messages that are sent
    Spent,      \* a message whose data performing has taken over
    N           \* the number of slots, a power of two (1024)

ASSUME FifoAssumption ==
    /\ N \in Nat \ {0, 1}
    /\ Spent \notin Messages

VARIABLES
    mItems,                             \* the slots
    mReadHead, mWriteHead, mFreeHead,   \* the heads, each at its last slot
    sender,     \* where the sending thread stands
    data,       \* the message it is sending
    receiver    \* where the receiving thread stands

vars == <<mItems, mReadHead, mWriteHead, mFreeHead, sender, data, receiver>>

Slots == 0 .. N - 1
SenderSteps == {"idle", "reclaiming", "freed", "writing", "stored"}

\* Only the low bits are kept, which is the remainder by a power of two.
NextPos(pos) == (pos + 1) % N

HasData == mReadHead # mWriteHead
NeedsFree == mFreeHead # mReadHead

\* Mutant of Full: room is made when a message is performed, not reclaimed.
FullUntilPerformed == NextPos(mWriteHead) = mReadHead

\* Write's test: the slot after the last one written is still to be reclaimed.
Full == NextPos(mWriteHead) = mFreeHead

-----------------------------------------------------------------------------
Init ==
    /\ mItems = [s \in Slots |-> Spent]
    /\ mReadHead = 0 /\ mWriteHead = 0 /\ mFreeHead = 0
    /\ sender = "idle" /\ data = Spent
    /\ receiver = "idle"

\* A message is sent: Free first, then Write.
Send(m) ==
    /\ sender = "idle"
    /\ sender' = "reclaiming"
    /\ data' = m
    /\ UNCHANGED <<mItems, mReadHead, mWriteHead, mFreeHead, receiver>>

\* A round of Free: the message at the next slot is freed, if it still has
\* its data.
FreeItem ==
    /\ sender = "reclaiming"
    /\ NeedsFree
    /\ sender' = "freed"
    /\ mItems' = [mItems EXCEPT ![NextPos(mFreeHead)] = Spent]
    /\ UNCHANGED <<mReadHead, mWriteHead, mFreeHead, data, receiver>>

AdvanceFree ==
    /\ sender = "freed"
    /\ sender' = "reclaiming"
    /\ mFreeHead' = NextPos(mFreeHead)
    /\ UNCHANGED <<mItems, mReadHead, mWriteHead, data, receiver>>

FreeEnds ==
    /\ sender = "reclaiming"
    /\ ~NeedsFree
    /\ sender' = "writing"
    /\ UNCHANGED <<mItems, mReadHead, mWriteHead, mFreeHead, data, receiver>>

\* Write answers false.
Refuse ==
    /\ sender = "writing"
    /\ Full
    /\ sender' = "idle"
    /\ data' = Spent
    /\ UNCHANGED <<mItems, mReadHead, mWriteHead, mFreeHead, receiver>>

Store ==
    /\ sender = "writing"
    /\ ~Full
    /\ sender' = "stored"
    /\ mItems' = [mItems EXCEPT ![NextPos(mWriteHead)] = data]
    /\ UNCHANGED <<mReadHead, mWriteHead, mFreeHead, data, receiver>>

AdvanceWrite ==
    /\ sender = "stored"
    /\ sender' = "idle"
    /\ data' = Spent
    /\ mWriteHead' = NextPos(mWriteHead)
    /\ UNCHANGED <<mItems, mReadHead, mFreeHead, receiver>>

\* Mutant of PerformItem: the slot at the read head, not the one after it.
PerformItemAtHead(left) ==
    /\ receiver = "idle"
    /\ HasData
    /\ receiver' = "performed"
    /\ left \in {mItems[mReadHead], Spent}
    /\ mItems' = [mItems EXCEPT ![mReadHead] = left]
    /\ UNCHANGED <<mReadHead, mWriteHead, mFreeHead, sender, data>>

\* A round of Perform: the message at the next slot is performed, and its
\* data may be taken over.
PerformItem(left) ==
    /\ receiver = "idle"
    /\ HasData
    /\ receiver' = "performed"
    /\ left \in {mItems[NextPos(mReadHead)], Spent}
    /\ mItems' = [mItems EXCEPT ![NextPos(mReadHead)] = left]
    /\ UNCHANGED <<mReadHead, mWriteHead, mFreeHead, sender, data>>

AdvanceRead ==
    /\ receiver = "performed"
    /\ receiver' = "idle"
    /\ mReadHead' = NextPos(mReadHead)
    /\ UNCHANGED <<mItems, mWriteHead, mFreeHead, sender, data>>

Next ==
    \/ \E m \in Messages : Send(m)
    \/ FreeItem \/ AdvanceFree \/ FreeEnds
    \/ Refuse \/ Store \/ AdvanceWrite
    \/ \E left \in Messages \cup {Spent} : PerformItem(left)
    \/ AdvanceRead

Spec == Init /\ [][Next]_vars

-----------------------------------------------------------------------------
\* How many slots b is ahead of a in the ring.
Ahead(a, b) == (b - a) % N

\* Whether performing or reclaiming is done but the head not yet moved.
Performed == IF receiver = "performed" THEN 1 ELSE 0
Freed == IF sender = "freed" THEN 1 ELSE 0

\* What stands in the slots after a head.
Contents(head, count) == [k \in 1 .. count |-> mItems[(head + k) % N]]

TypeOK ==
    /\ mItems \in [Slots -> Messages \cup {Spent}]
    /\ mReadHead \in Slots /\ mWriteHead \in Slots /\ mFreeHead \in Slots
    /\ sender \in SenderSteps
    /\ data \in Messages \cup {Spent}
    /\ receiver \in {"idle", "performed"}

\* Round the ring the free head is followed by the read head and that by the
\* write head, and a thread between its work on a slot and the move of its
\* head works on a slot of its own: the sender never touches a slot whose
\* message is unperformed or being performed, the receiver never one that is
\* unwritten or reclaimed, although neither waits for the other.
HeadsInOrder ==
    /\ Ahead(mFreeHead, mReadHead) <= Ahead(mFreeHead, mWriteHead)
    /\ sender = "freed" => mFreeHead # mReadHead
    /\ receiver = "performed" => mReadHead # mWriteHead
    /\ sender = "stored" => /\ NextPos(mWriteHead) # mFreeHead
                            /\ mItems[NextPos(mWriteHead)] = data

\* The ring implements a bounded queue with room for N - 1 messages.
Abstract ==
    INSTANCE FifoQueue WITH
        Capacity <- N - 1,
        waiting <- Contents((mReadHead + Performed) % N,
                            Ahead(mReadHead, mWriteHead) - Performed),
        handled <- Contents((mFreeHead + Freed) % N,
                            Ahead(mFreeHead, mReadHead) + Performed - Freed)

\* Every message the ring takes in is performed once and in its turn, and its
\* slot given back after that: steps of the two threads, in any order, are
\* steps of the queue.
IsBoundedQueue == Abstract!QueueSpec

=============================================================================
