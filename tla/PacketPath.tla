----------------------------- MODULE PacketPath ------------------------------
(***************************************************************************)
(* The way of a packet through the threads of scsynth: the thread of the   *)
(* UDP port allocates it and puts it in a queue, the audio thread performs *)
(* it or keeps it in the scheduler until its time has come, and its memory *)
(* is freed by the UDP thread, which reclaims it from the queue, or by the *)
(* non-real-time thread, to which the audio thread returns it in a second  *)
(* queue.                                                                  *)
(*                                                                         *)
(* The queues are what MsgFifo, the scheduler what SchedulerHeap is shown  *)
(* to implement.  Nobody counts references: whether a packet is freed once *)
(* depends on the flags the threads leave in the queues.                   *)
(*                                                                         *)
(* Left out: what the commands in a packet do, save /clearSched; the queue *)
(* of asynchronous commands; TCP; the end of the server.                   *)
(***************************************************************************)
EXTENDS Integers, Sequences, FiniteSets

CONSTANTS
    Kinds,          \* the packets explored: messages, bundles, /clearSched
    Times,          \* the times bundles may be stamped with
    ToRoom,         \* messages the queue to the engine has room for (1023)
    FromRoom,       \* messages the queue from it has room for (1023)
    SchedulerRoom,  \* events the scheduler has room for (2048)
    MaxPackets      \* bound: how many packets arrive

ASSUME PathAssumption ==
    /\ Kinds \subseteq {"message", "bundle", "clearSched"}
    /\ Times \subseteq Nat
    /\ ToRoom \in Nat /\ FromRoom \in Nat /\ SchedulerRoom \in Nat
    /\ MaxPackets \in Nat

VARIABLES
    arrived,    \* how many packets have arrived
    kind, stamp,    \* what a packet is, and the time of a bundle
    udp,        \* where the thread of the UDP port stands
    toWaiting, toHandled,       \* mOscPacketsToEngine
    scheduled,  \* mScheduler
    fromWaiting, fromHandled,   \* mFromEngine
    audio,      \* where the audio thread stands
    nextTime,   \* the end of the buffer it computes, a local of Run
    nrt,        \* where the non-real-time thread stands
    signalled,  \* whether the audio thread has signalled since it last looked
    freed,      \* history: how often a packet's memory was freed
    lost,       \* history: packets nobody will free
    performed   \* history: the packets performed, in order

packetVars == <<arrived, kind, stamp, udp>>
toVars == <<toWaiting, toHandled>>
fromVars == <<fromWaiting, fromHandled>>
nrtVars == <<nrt, signalled>>
audioVars == <<audio, nextTime>>
history == <<freed, lost, performed>>
vars == <<packetVars, toVars, scheduled, fromVars, audioVars, nrtVars, history>>

Packets == 1 .. MaxPackets
NoData == 0     \* a message of a queue whose packet has been taken over
Immediately == {0, 1}   \* the stamps that mean no time at all
Events == [time : Times, packet : Packets]

ToEngine == INSTANCE FifoQueue WITH
    Messages <- Packets, Spent <- NoData, Capacity <- ToRoom,
    waiting <- toWaiting, handled <- toHandled

FromEngine == INSTANCE FifoQueue WITH
    Messages <- Packets, Spent <- NoData, Capacity <- FromRoom,
    waiting <- fromWaiting, handled <- fromHandled

Scheduler == INSTANCE EventQueue WITH
    Event <- Events, Room <- SchedulerRoom, events <- scheduled

-----------------------------------------------------------------------------
Init ==
    /\ arrived = 0
    /\ kind = [p \in Packets |-> "none"] /\ stamp = [p \in Packets |-> 0]
    /\ udp = "listening"
    /\ ToEngine!QueueInit /\ FromEngine!QueueInit /\ Scheduler!EventInit
    /\ audio = "idle" /\ nextTime = 0
    /\ nrt = "entering" /\ signalled = FALSE
    /\ freed = [p \in Packets |-> 0] /\ lost = {} /\ performed = << >>

-----------------------------------------------------------------------------
(***************************************************************************)
(* The thread of the UDP port.                                             *)
(***************************************************************************)
\* A datagram arrives and is copied to a packet of its own.
Receive(k, t) ==
    /\ udp = "listening"
    /\ arrived < MaxPackets
    /\ arrived' = arrived + 1
    /\ kind' = [kind EXCEPT ![arrived + 1] = k]
    /\ stamp' = [stamp EXCEPT ![arrived + 1] = IF k = "bundle" THEN t ELSE 0]
    /\ udp' = "reclaiming"
    /\ UNCHANGED <<toVars, scheduled, fromVars, audioVars, nrtVars, history>>

\* Freeing the packet a message has, if it has one.
FreeOSCPacket(p) ==
    freed' = IF p = NoData THEN freed ELSE [freed EXCEPT ![p] = @ + 1]

\* ProcessOSCPacket first reclaims what the audio thread has performed.
ReclaimPacket ==
    /\ udp = "reclaiming"
    /\ ToEngine!Reclaim
    /\ FreeOSCPacket(Head(toHandled))
    /\ UNCHANGED <<packetVars, scheduled, fromVars, audioVars, nrtVars, lost,
                   performed>>

ReclaimEnds ==
    /\ udp = "reclaiming"
    /\ toHandled = << >>
    /\ udp' = "writing"
    /\ UNCHANGED <<arrived, kind, stamp, toVars, scheduled, fromVars,
                   audioVars, nrtVars, history>>

\* Then it writes the packet; a packet that is refused is freed on the spot.
SendPacket ==
    /\ udp = "writing"
    /\ udp' = "listening"
    /\ \/ ToEngine!Put(arrived) /\ UNCHANGED freed
       \/ ~ToEngine!HasRoom /\ FreeOSCPacket(arrived) /\ UNCHANGED toVars
    /\ UNCHANGED <<arrived, kind, stamp, scheduled, fromVars, audioVars,
                   nrtVars, lost, performed>>

-----------------------------------------------------------------------------
(***************************************************************************)
(* The audio thread.  The clock is the time of day, so a buffer may also   *)
(* end before the one computed last.                                       *)
(***************************************************************************)
\* A callback begins: messages sent to the non-real-time thread and
\* performed there are reclaimed; there is nothing left of them to free.
RunBegins(t) ==
    /\ audio = "idle"
    /\ audio' = "draining"
    /\ nextTime' = t
    /\ fromHandled' = << >>
    /\ UNCHANGED <<packetVars, toVars, scheduled, fromWaiting, nrtVars, history>>

\* A message, or a bundle stamped to be performed at once.
AtOnce(p) == kind[p] # "bundle" \/ stamp[p] \in Immediately

\* It is performed, and its packet left where it is; /clearSched forgets all
\* that is scheduled.
PerformNow ==
    /\ audio = "draining"
    /\ toWaiting # << >>
    /\ LET p == Head(toWaiting) IN
         /\ AtOnce(p)
         /\ ToEngine!Get(p)
         /\ performed' = Append(performed, p)
         /\ IF kind[p] = "clearSched"
              THEN /\ Scheduler!Clear
                   /\ lost' = lost \cup { e.packet : e \in scheduled }
              ELSE UNCHANGED <<scheduled, lost>>
    /\ UNCHANGED <<packetVars, fromVars, audioVars, nrtVars, freed>>

\* Mutant of ScheduleBundle: the message keeps the packet it hands over.
ScheduleKeeping ==
    /\ audio = "draining"
    /\ toWaiting # << >>
    /\ LET p == Head(toWaiting)
           e == [time |-> stamp[p], packet |-> p]
       IN  /\ ~AtOnce(p)
           /\ Scheduler!Enter(e)
           /\ ToEngine!Get(p)
           /\ lost' = IF e \in scheduled' THEN lost ELSE lost \cup {p}
    /\ UNCHANGED <<packetVars, fromVars, audioVars, nrtVars, freed, performed>>

\* Any other bundle is scheduled, late or not, and its packet taken from the message.
\* A scheduler with no room for it says so to nobody.
ScheduleBundle ==
    /\ audio = "draining"
    /\ toWaiting # << >>
    /\ LET p == Head(toWaiting)
           e == [time |-> stamp[p], packet |-> p]
       IN  /\ ~AtOnce(p)
           /\ Scheduler!Enter(e)
           /\ ToEngine!Get(NoData)
           /\ lost' = IF e \in scheduled' THEN lost ELSE lost \cup {p}
    /\ UNCHANGED <<packetVars, fromVars, audioVars, nrtVars, freed, performed>>

DrainEnds ==
    /\ audio = "draining"
    /\ toWaiting = << >>
    /\ audio' = "scheduling"
    /\ UNCHANGED <<packetVars, toVars, scheduled, fromVars, nextTime, nrtVars,
                   history>>

\* The events the callback has still to perform.
Due == { e \in scheduled : e.time <= nextTime }

\* Returning a packet; with the queue full it is lost.
FreeInNRT(p) ==
    \/ FromEngine!Put(p) /\ UNCHANGED lost
    \/ ~FromEngine!HasRoom /\ lost' = lost \cup {p} /\ UNCHANGED fromVars

\* Mutant of PerformEvent: any event that is due, not the earliest.
PerformAnyDue(e) ==
    /\ audio = "scheduling"
    /\ e \in Due
    /\ scheduled' = scheduled \ {e}
    /\ performed' = Append(performed, e.packet)
    /\ FreeInNRT(e.packet)
    /\ UNCHANGED <<packetVars, toVars, audioVars, nrtVars, freed>>

\* An event that is due is performed, and its packet returned to be freed.
PerformEvent(e) ==
    /\ audio = "scheduling"
    /\ e \in Due
    /\ Scheduler!Leave(e)
    /\ performed' = Append(performed, e.packet)
    /\ FreeInNRT(e.packet)
    /\ UNCHANGED <<packetVars, toVars, audioVars, nrtVars, freed>>

\* The buffer is computed and the other thread signalled: the counter first,
\* then whoever sleeps.  Signal does not take the mutex WaitNext holds.
Signal ==
    /\ audio = "scheduling"
    /\ Due = {}
    /\ audio' = "waking"
    /\ signalled' = TRUE
    /\ UNCHANGED <<packetVars, toVars, scheduled, fromVars, nextTime, nrt,
                   history>>

\* Mutant of Wake: the counter is thought to be enough.
WakeNobody ==
    /\ audio = "waking"
    /\ audio' = "idle" /\ nextTime' = 0
    /\ UNCHANGED <<packetVars, toVars, scheduled, fromVars, nrtVars, history>>

Wake ==
    /\ audio = "waking"
    /\ audio' = "idle" /\ nextTime' = 0
    /\ nrt' = IF nrt = "asleep" THEN "looking" ELSE nrt
    /\ UNCHANGED <<packetVars, toVars, scheduled, fromVars, signalled, history>>

-----------------------------------------------------------------------------
(***************************************************************************)
(* The non-real-time thread.  WaitNext forgets the signals given so far.   *)
(***************************************************************************)
WaitNext ==
    /\ nrt = "entering"
    /\ nrt' = "looking"
    /\ signalled' = FALSE
    /\ UNCHANGED <<packetVars, toVars, scheduled, fromVars, audioVars, history>>

\* It looks for a signal and, if there was none, is about to sleep.
Look ==
    /\ nrt = "looking"
    /\ nrt' = IF signalled THEN "performing" ELSE "dozing"
    /\ UNCHANGED <<packetVars, toVars, scheduled, fromVars, audioVars,
                   signalled, history>>

\* A signal between the look and this step is slept through.
FallAsleep ==
    /\ nrt = "dozing"
    /\ nrt' = "asleep"
    /\ UNCHANGED <<packetVars, toVars, scheduled, fromVars, audioVars,
                   signalled, history>>

\* The packets returned by the audio thread are freed.
FreeReturned ==
    /\ nrt = "performing"
    /\ FromEngine!Get(NoData)
    /\ FreeOSCPacket(Head(fromWaiting))
    /\ UNCHANGED <<packetVars, toVars, scheduled, audioVars, nrtVars, lost,
                   performed>>

PerformEnds ==
    /\ nrt = "performing"
    /\ fromWaiting = << >>
    /\ nrt' = "entering"
    /\ UNCHANGED <<packetVars, toVars, scheduled, fromVars, audioVars,
                   signalled, history>>

Next ==
    \/ \E k \in Kinds, t \in Times : Receive(k, t)
    \/ ReclaimPacket \/ ReclaimEnds \/ SendPacket
    \/ \E t \in Times \ Immediately : RunBegins(t)
    \/ PerformNow \/ ScheduleBundle \/ DrainEnds
    \/ \E e \in scheduled : PerformEvent(e)
    \/ Signal \/ Wake
    \/ WaitNext \/ Look \/ FallAsleep \/ FreeReturned \/ PerformEnds

Spec == Init /\ [][Next]_vars

(***************************************************************************)
(* The callback is called for ever and runs to its end, the threads get    *)
(* their share of the processor, and the clock passes every stamp.         *)
(***************************************************************************)
InRun == PerformNow \/ ScheduleBundle \/ DrainEnds \/ Signal \/ Wake
         \/ \E e \in scheduled : PerformEvent(e)

Fairness ==
    /\ SF_vars(\E t \in Times : RunBegins(t) /\ \A u \in Times : u <= t)
    /\ WF_vars(InRun)
    /\ WF_vars(WaitNext \/ Look \/ FallAsleep \/ FreeReturned \/ PerformEnds)

FairSpec == Spec /\ Fairness

-----------------------------------------------------------------------------
Places(seq, p) == Cardinality({ k \in DOMAIN seq : seq[k] = p })

\* In how many places a packet's memory is held, freed memory counted as one.
Owners(p) ==
    (IF udp # "listening" /\ p = arrived THEN 1 ELSE 0)
    + Places(toWaiting, p) + Places(toHandled, p)
    + Cardinality({ e \in scheduled : e.packet = p })
    + Places(fromWaiting, p) + Places(fromHandled, p)
    + freed[p]

TypeOK ==
    /\ arrived \in 0 .. MaxPackets
    /\ kind \in [Packets -> Kinds \cup {"none"}] /\ stamp \in [Packets -> Nat]
    /\ udp \in {"listening", "reclaiming", "writing"}
    /\ \A seq \in {toWaiting, toHandled, fromWaiting, fromHandled} :
          seq \in Seq(Packets \cup {NoData})
    /\ scheduled \subseteq Events
    /\ audio \in {"idle", "draining", "scheduling", "waking"} /\ nextTime \in Nat
    /\ nrt \in {"entering", "looking", "dozing", "asleep", "performing"}
    /\ signalled \in BOOLEAN
    /\ freed \in [Packets -> Nat] /\ lost \subseteq Packets
    /\ performed \in Seq(Packets)

\* Every packet that has arrived has one owner: it is held in one place and
\* not freed, or was freed once and is held nowhere, whichever of the three
\* threads is ahead.  Packets are lost only where a queue or the scheduler
\* is full and in /clearSched.
OneOwner ==
    \A p \in 1 .. arrived : Owners(p) = IF p \in lost THEN 0 ELSE 1

\* Whether q may not be performed before p, which arrived first.
Precedes(p, q) ==
    /\ p < q
    /\ IF AtOnce(p) THEN AtOnce(q) ELSE ~AtOnce(q) /\ stamp[p] < stamp[q]

\* No packet is performed twice; of two packets to be performed at once the
\* first to arrive is performed first, and of two timed bundles that arrive
\* in the order of their stamps the one with the lower stamp, in the same
\* callback or another, late or not, with the clock set back or not.
PerformedInOrder ==
    \A k, l \in DOMAIN performed : k < l =>
        /\ performed[k] # performed[l]
        /\ ~Precedes(performed[l], performed[k])

IsPerformed(p) == \E k \in DOMAIN performed : performed[k] = p

\* A packet the queue has taken is performed and, if it was scheduled, freed,
\* unless it is lost: although the clock may be set back, and the thread that
\* frees it sleeps through some signals and forgets others.
AcceptedRunsItsCourse ==
    \A p \in Packets :
        Places(toWaiting, p) > 0
        ~> \/ p \in lost
           \/ IsPerformed(p) /\ (AtOnce(p) \/ freed[p] = 1)

=============================================================================
