-------------------------- MODULE PacketPath_proofs --------------------------
(***************************************************************************)
(* Theorems about PacketPath for every number of packets, every room of    *)
(* the queues and the scheduler and every set of stamps: a packet has one  *)
(* owner at a time and is freed at most once, and packets are performed in *)
(* the order they are owed.                                                *)
(*                                                                         *)
(* OneOwner is about packets that have arrived; what makes it inductive is *)
(* that the others are held nowhere, and that the audio thread, which      *)
(* forgets the messages handled by the non-real-time thread, finds no      *)
(* packet in them.  The argument counts: Append, Tail, Enter and Leave     *)
(* change the number of places that hold a packet by one.                  *)
(*                                                                         *)
(* PerformedInOrder relates packets performed already.  The invariant adds *)
(* what is owed to those still queued or scheduled: the queue is in the    *)
(* order of arrival, behind all that left it, and no scheduled bundle      *)
(* should have been performed before one that was.                         *)
(***************************************************************************)
EXTENDS PacketPath, SequenceTheorems, FiniteSetTheorems, TLAPS

\* What the queues and the scheduler hold.
ProperlyHeld ==
    /\ toWaiting \in Seq(1 .. arrived)
    /\ fromWaiting \in Seq(Packets) /\ fromHandled \in Seq({NoData})
    /\ IsFiniteSet(scheduled) /\ \A e \in scheduled : e.packet \in 1 .. arrived
    /\ udp # "listening" => arrived > 0
    /\ lost \subseteq 1 .. arrived

HeldInv == TypeOK /\ ProperlyHeld

\* A packet has one owner from its arrival until it is lost.
OwnedOnce ==
    \A p \in Packets : Owners(p) = IF p \in (1 .. arrived) \ lost THEN 1 ELSE 0

OwnerInv == HeldInv /\ OwnedOnce

\* The packets that have left the hands of the UDP thread.
Sent == 1 .. IF udp = "listening" THEN arrived ELSE arrived - 1

\* The queue to the engine is in the order of arrival, and what the audio
\* thread has taken from it arrived before all that is left in it.
InTurn ==
    /\ \A k \in 1 .. Len(toWaiting) : toWaiting[k] \in Sent
    /\ \A j \in 1 .. Len(performed) : performed[j] \in Sent
    /\ \A e \in scheduled : e.packet \in Sent
    /\ \A k, l \in 1 .. Len(toWaiting) : k < l => toWaiting[k] < toWaiting[l]
    /\ \A k \in 1 .. Len(toWaiting) :
         /\ \A j \in 1 .. Len(performed) : performed[j] < toWaiting[k]
         /\ \A e \in scheduled : e.packet < toWaiting[k]

\* A scheduled bundle is timed by its stamp and was not performed, and no
\* bundle was performed that has to wait for it.
StillOwed ==
    \A e \in scheduled :
        /\ ~AtOnce(e.packet) /\ e.time = stamp[e.packet]
        /\ \A j \in 1 .. Len(performed) :
             performed[j] # e.packet /\ ~Precedes(e.packet, performed[j])

OrderInv == HeldInv /\ InTurn /\ StillOwed /\ PerformedInOrder

-----------------------------------------------------------------------------
(***************************************************************************)
(* Counting.                                                               *)
(***************************************************************************)
\* The number of places of a sequence that hold p is a natural number, zero
\* only if there is none.
LEMMA PlacesType ==
    ASSUME NEW S, NEW s \in Seq(S), NEW p
    PROVE  /\ IsFiniteSet({ k \in DOMAIN s : s[k] = p })
           /\ Places(s, p) \in Nat
           /\ Places(s, p) = 0 <=> \A k \in 1 .. Len(s) : s[k] # p
  <1>1. DOMAIN s = 1 .. Len(s) /\ Len(s) \in Nat
    OBVIOUS
  <1>2. IsFiniteSet(1 .. Len(s))
    BY <1>1, FS_Interval
  <1>3. IsFiniteSet({ k \in DOMAIN s : s[k] = p })
    BY <1>1, <1>2, FS_Subset
  <1>4. Places(s, p) \in Nat
    BY <1>3, FS_CardinalityType DEF Places
  <1>5. Places(s, p) = 0 <=> { k \in DOMAIN s : s[k] = p } = {}
    BY <1>3, FS_EmptySet DEF Places
  <1> QED
    BY <1>1, <1>3, <1>4, <1>5

\* No place of the empty sequence holds anything.
LEMMA PlacesEmpty ==
    ASSUME NEW p
    PROVE  Places(<< >>, p) = 0
  <1>1. { k \in DOMAIN << >> : << >>[k] = p } = {}
    OBVIOUS
  <1> QED
    BY <1>1, FS_EmptySet DEF Places

\* Appending p is one place more.
LEMMA PlacesAppend ==
    ASSUME NEW S, NEW s \in Seq(S), NEW x \in S, NEW p
    PROVE  /\ x = p => Places(Append(s, x), p) = Places(s, p) + 1
           /\ x # p => Places(Append(s, x), p) = Places(s, p)
  <1> DEFINE old == { k \in DOMAIN s : s[k] = p }
             new == { k \in DOMAIN Append(s, x) : Append(s, x)[k] = p }
  <1>1. /\ Len(s) \in Nat /\ DOMAIN s = 1 .. Len(s)
        /\ DOMAIN Append(s, x) = 1 .. Len(s) + 1
        /\ Append(s, x)[Len(s) + 1] = x
        /\ \A k \in 1 .. Len(s) : Append(s, x)[k] = s[k]
    OBVIOUS
  <1>2. IsFiniteSet(old)
    BY PlacesType
  <1>3. CASE x = p
    <2>1. new = old \cup {Len(s) + 1}
      BY <1>1, <1>3
    <2>2. Len(s) + 1 \notin old
      BY <1>1
    <2> QED
      BY <1>2, <1>3, <2>1, <2>2, FS_AddElement DEF Places
  <1>4. CASE x # p
    <2>1. new = old
      BY <1>1, <1>4
    <2> QED
      BY <1>4, <2>1 DEF Places
  <1> QED
    BY <1>3, <1>4

\* Taking the first element off is one place less, if p was the first.
LEMMA PlacesTail ==
    ASSUME NEW S, NEW s \in Seq(S), s # << >>, NEW p
    PROVE  /\ Head(s) = p => Places(s, p) = Places(Tail(s), p) + 1
           /\ Head(s) # p => Places(s, p) = Places(Tail(s), p)
  <1> DEFINE old == { k \in DOMAIN s : s[k] = p }
             new == { k \in DOMAIN Tail(s) : Tail(s)[k] = p }
             moved == old \ {1}
             f == [k \in new |-> k + 1]
  <1>1. /\ Len(s) \in Nat \ {0} /\ DOMAIN s = 1 .. Len(s)
        /\ DOMAIN Tail(s) = 1 .. Len(s) - 1
        /\ Tail(s) \in Seq(S)
        /\ Head(s) = s[1]
        /\ \A k \in 1 .. Len(s) - 1 : Tail(s)[k] = s[k + 1]
    OBVIOUS
  <1>2. IsFiniteSet(old) /\ IsFiniteSet(new)
    <2>1. IsFiniteSet(old)
      BY PlacesType
    <2>2. IsFiniteSet(new)
      <3>1. \A t \in Seq(S) : IsFiniteSet({ k \in DOMAIN t : t[k] = p })
        BY PlacesType
      <3> QED
        BY <1>1, <3>1, Zenon
    <2> QED
      BY <2>1, <2>2
  <1>3. f \in Bijection(new, moved)
    <2>1. f \in [new -> moved]
      BY <1>1
    <2>2. \A k, l \in new : f[k] = f[l] => k = l
      BY <1>1
    <2>3. ASSUME NEW m \in moved PROVE \E k \in new : f[k] = m
      <3>1. m - 1 \in new
        BY <1>1
      <3>2. f[m - 1] = m
        BY <1>1, <3>1
      <3> QED
        BY <3>1, <3>2
    <2> QED
      BY <2>1, <2>2, <2>3 DEF Bijection, Injection, Surjection, IsInjective
  <1>4. IsFiniteSet(moved) /\ Cardinality(moved) = Cardinality(new)
    <2>1. ExistsBijection(new, moved)
      BY <1>3 DEF ExistsBijection
    <2> HIDE DEF new, moved, f
    <2> QED
      BY <1>2, <2>1, FS_Bijection
  <1>5. CASE Head(s) = p
    <2>1. 1 \in old
      BY <1>1, <1>5
    <2>2. Cardinality(moved) = Cardinality(old) - 1
      BY <1>2, <2>1, FS_RemoveElement
    <2>3. Cardinality(old) \in Nat /\ Cardinality(new) \in Nat
      BY <1>2, FS_CardinalityType
    <2>4. Cardinality(old) = Cardinality(new) + 1
      <3> HIDE DEF old, new, moved, f
      <3> QED
        BY <1>4, <2>2, <2>3
    <2> QED
      BY <1>5, <2>4 DEF Places
  <1>6. CASE Head(s) # p
    <2>1. moved = old
      BY <1>1, <1>6
    <2>2. Cardinality(old) = Cardinality(new)
      BY <1>4, <2>1
    <2> QED
      BY <1>6, <2>2 DEF Places
  <1> QED
    BY <1>5, <1>6

\* The scheduled events of a packet.
EventsOf(ev, p) == { e \in ev : e.packet = p }

\* Their number is a natural number, zero only if there is none.
LEMMA EventsType ==
    ASSUME NEW ev, IsFiniteSet(ev), NEW p
    PROVE  /\ IsFiniteSet(EventsOf(ev, p))
           /\ Cardinality(EventsOf(ev, p)) \in Nat
           /\ Cardinality(EventsOf(ev, p)) = 0 <=> \A e \in ev : e.packet # p
  <1>1. IsFiniteSet(EventsOf(ev, p))
    BY FS_Subset DEF EventsOf
  <1>2. Cardinality(EventsOf(ev, p)) \in Nat
    BY <1>1, FS_CardinalityType
  <1>3. Cardinality(EventsOf(ev, p)) = 0 <=> EventsOf(ev, p) = {}
    BY <1>1, FS_EmptySet
  <1> QED
    BY <1>1, <1>2, <1>3 DEF EventsOf

\* A new event of the packet is one more.
LEMMA EventsMore ==
    ASSUME NEW ev, IsFiniteSet(ev), NEW e, e \notin ev, NEW p
    PROVE  /\ e.packet = p => Cardinality(EventsOf(ev \cup {e}, p))
                                = Cardinality(EventsOf(ev, p)) + 1
           /\ e.packet # p => Cardinality(EventsOf(ev \cup {e}, p))
                                = Cardinality(EventsOf(ev, p))
  <1>1. IsFiniteSet(EventsOf(ev, p)) /\ e \notin EventsOf(ev, p)
    BY EventsType DEF EventsOf
  <1>2. e.packet = p => EventsOf(ev \cup {e}, p) = EventsOf(ev, p) \cup {e}
    BY DEF EventsOf
  <1>3. e.packet # p => EventsOf(ev \cup {e}, p) = EventsOf(ev, p)
    BY DEF EventsOf
  <1> QED
    BY <1>1, <1>2, <1>3, FS_AddElement

\* An event that leaves is one less.
LEMMA EventsLess ==
    ASSUME NEW ev, IsFiniteSet(ev), NEW e \in ev, NEW p
    PROVE  /\ e.packet = p => Cardinality(EventsOf(ev, p))
                                = Cardinality(EventsOf(ev \ {e}, p)) + 1
           /\ e.packet # p => Cardinality(EventsOf(ev, p))
                                = Cardinality(EventsOf(ev \ {e}, p))
  <1> DEFINE less == ev \ {e}
  <1>1. IsFiniteSet(less) /\ e \notin less /\ ev = less \cup {e}
    BY FS_Subset
  <1> HIDE DEF less
  <1> QED
    BY <1>1, EventsMore
-----------------------------------------------------------------------------
(***************************************************************************)
(* What is held where, and the types.                                      *)
(***************************************************************************)
\* The parts of a step's effect on the sequences, for the provers.
LEMMA SeqFacts ==
    ASSUME NEW S, NEW s \in Seq(S)
    PROVE  /\ \A x \in S : Append(s, x) \in Seq(S)
           /\ s # << >> => Tail(s) \in Seq(S) /\ Head(s) \in S
           /\ \A T : S \subseteq T => s \in Seq(T)
  <1>1. \A x \in S : Append(s, x) \in Seq(S)
    OBVIOUS
  <1>2. s # << >> => Tail(s) \in Seq(S) /\ Head(s) \in S
    OBVIOUS
  <1>3. ASSUME NEW T, S \subseteq T PROVE s \in Seq(T)
    BY <1>3
  <1> QED
    BY <1>1, <1>2, <1>3

\* Freeing what a message has counts for its packet, if it has one, and for
\* no other.
LEMMA FreeCounts ==
    ASSUME freed \in [Packets -> Nat],
           NEW p \in Packets \cup {NoData}, FreeOSCPacket(p)
    PROVE  /\ freed' \in [Packets -> Nat]
           /\ \A q \in Packets : /\ q = p => freed'[q] = freed[q] + 1
                                 /\ q # p => freed'[q] = freed[q]
  <1>1. \A q \in Packets : q # NoData
    BY DEF Packets, NoData
  <1>2. CASE p = NoData
    BY <1>1, <1>2 DEF FreeOSCPacket
  <1>3. CASE p \in Packets
    <2>1. freed' = [freed EXCEPT ![p] = @ + 1]
      BY <1>1, <1>3 DEF FreeOSCPacket
    <2> QED
      BY <1>3, <2>1
  <1> QED
    BY <1>2, <1>3

\* At the start nothing is held.
LEMMA HeldInit == Init => HeldInv
  <1> SUFFICES ASSUME Init PROVE HeldInv
    OBVIOUS
  <1> USE DEF Init, ToEngine!QueueInit, FromEngine!QueueInit, Scheduler!EventInit
  <1>1. TypeOK
    <2>1. << >> \in Seq(Packets \cup {NoData}) /\ << >> \in Seq(Packets)
      OBVIOUS
    <2>2. kind \in [Packets -> Kinds \cup {"none"}] /\ stamp \in [Packets -> Nat]
      OBVIOUS
    <2>3. freed \in [Packets -> Nat] /\ arrived \in 0 .. MaxPackets
      BY PathAssumption
    <2> QED
      BY <2>1, <2>2, <2>3 DEF TypeOK
  <1>2. IsFiniteSet({})
    BY FS_EmptySet
  <1>3. ProperlyHeld
    BY <1>2 DEF ProperlyHeld
  <1> QED
    BY <1>1, <1>3 DEF HeldInv

\* Every step keeps the types, and packets only where they belong.
LEMMA HeldStep == HeldInv /\ [Next]_vars => HeldInv'
  <1> SUFFICES ASSUME HeldInv, [Next]_vars PROVE HeldInv'
    OBVIOUS
  <1> USE DEF HeldInv, TypeOK, ProperlyHeld, packetVars, toVars, fromVars, nrtVars,
          audioVars, history
  <1>0. /\ arrived \in Nat /\ MaxPackets \in Nat /\ arrived <= MaxPackets
        /\ 1 .. arrived \subseteq Packets /\ NoData \notin Packets
        /\ \A p \in Packets : p \in Nat
        /\ Packets \subseteq Packets \cup {NoData}
        /\ {NoData} \subseteq Packets \cup {NoData}
    BY PathAssumption DEF Packets, NoData
  <1>1. ASSUME NEW k \in Kinds, NEW t \in Times, Receive(k, t) PROVE HeldInv'
    <2>1. arrived' \in 0 .. MaxPackets /\ 1 .. arrived \subseteq 1 .. arrived'
      BY <1>0, <1>1 DEF Receive
    <2>2. kind' \in [Packets -> Kinds \cup {"none"}] /\ stamp' \in [Packets -> Nat]
      BY <1>0, <1>1, PathAssumption DEF Receive
    <2>3. toWaiting' \in Seq(1 .. arrived')
      BY <1>1, <2>1, SeqFacts DEF Receive
    <2> QED
      BY <1>0, <1>1, <2>1, <2>2, <2>3 DEF Receive
  <1>2. ASSUME ReclaimPacket PROVE HeldInv'
    <2>1. toHandled # << >> /\ toHandled' = Tail(toHandled) /\ toWaiting' = toWaiting
      BY <1>2 DEF ReclaimPacket, ToEngine!Reclaim
    <2>2. toHandled' \in Seq(Packets \cup {NoData})
      BY <2>1, SeqFacts
    <2>3. freed' \in [Packets -> Nat]
      <3>1. Head(toHandled) \in Packets \cup {NoData}
        BY <2>1, SeqFacts
      <3>2. FreeOSCPacket(Head(toHandled))
        BY <1>2 DEF ReclaimPacket
      <3> QED
        BY <3>1, <3>2, FreeCounts
    <2> QED
      BY <1>0, <1>2, <2>1, <2>2, <2>3 DEF ReclaimPacket
  <1>3. ASSUME ReclaimEnds PROVE HeldInv'
    BY <1>3 DEF ReclaimEnds
  <1>4. ASSUME SendPacket PROVE HeldInv'
    <2>1. arrived \in 1 .. arrived
      BY <1>0, <1>4 DEF SendPacket
    <2>2. CASE ToEngine!Put(arrived) /\ UNCHANGED freed
      <3>1. toWaiting' = Append(toWaiting, arrived) /\ toHandled' = toHandled
        BY <2>2 DEF ToEngine!Put
      <3>2. toWaiting' \in Seq(1 .. arrived) /\ toWaiting' \in Seq(Packets \cup {NoData})
        BY <1>0, <2>1, <3>1, SeqFacts
      <3> QED
        BY <1>0, <1>4, <2>2, <3>1, <3>2 DEF SendPacket
    <2>3. CASE ~ToEngine!HasRoom /\ FreeOSCPacket(arrived) /\ UNCHANGED toVars
      <3>1. freed' \in [Packets -> Nat]
        BY <1>0, <2>1, <2>3 DEF FreeOSCPacket
      <3> QED
        BY <1>0, <1>4, <2>3, <3>1 DEF SendPacket
    <2> QED
      BY <1>4, <2>2, <2>3 DEF SendPacket
  <1>5. ASSUME NEW t \in Times \ Immediately, RunBegins(t) PROVE HeldInv'
    <2>1. fromHandled' \in Seq({NoData}) /\ fromHandled' \in Seq(Packets \cup {NoData})
      BY <1>5 DEF RunBegins
    <2> QED
      BY <1>5, <2>1, PathAssumption DEF RunBegins
  <1>6. ASSUME PerformNow PROVE HeldInv'
    <2> DEFINE p == Head(toWaiting)
    <2>1. p \in 1 .. arrived /\ p \in Packets /\ Tail(toWaiting) \in Seq(1 .. arrived)
      BY <1>0, <1>6, SeqFacts DEF PerformNow
    <2>2. toWaiting' = Tail(toWaiting) /\ toHandled' = Append(toHandled, p)
      BY <1>6 DEF PerformNow, ToEngine!Get
    <2>3. performed' \in Seq(Packets)
      BY <1>6, <2>1, SeqFacts DEF PerformNow
    <2>4. toHandled' \in Seq(Packets \cup {NoData})
      BY <2>1, <2>2, SeqFacts
    <2>5. toWaiting' \in Seq(Packets \cup {NoData})
      BY <1>0, <2>1, <2>2, SeqFacts
    <2>6. \/ scheduled' = scheduled /\ lost' = lost
          \/ scheduled' = {} /\ lost' = lost \cup { e.packet : e \in scheduled }
      BY <1>6 DEF PerformNow, Scheduler!Clear
    <2>7. scheduled' \subseteq Events /\ IsFiniteSet(scheduled')
      BY <2>6, FS_EmptySet
    <2>8. lost' \subseteq 1 .. arrived /\ \A e \in scheduled' : e.packet \in 1 .. arrived
      BY <2>6
    <2>9. UNCHANGED <<packetVars, fromVars, audioVars, nrtVars, freed>>
      BY <1>6 DEF PerformNow
    <2> HIDE DEF p
    <2> QED
      BY <1>0, <2>1, <2>2, <2>3, <2>4, <2>5, <2>7, <2>8, <2>9
  <1>7. ASSUME ScheduleBundle PROVE HeldInv'
    <2> DEFINE p == Head(toWaiting)
               e == [time |-> stamp[p], packet |-> p]
    <2>1. p \in 1 .. arrived /\ p \in Packets /\ Tail(toWaiting) \in Seq(1 .. arrived)
      BY <1>0, <1>7, SeqFacts DEF ScheduleBundle
    <2>2. toWaiting' = Tail(toWaiting) /\ toHandled' = Append(toHandled, NoData)
      BY <1>7 DEF ScheduleBundle, ToEngine!Get
    <2>3. toHandled' \in Seq(Packets \cup {NoData})
      BY <2>2, SeqFacts
    <2>4. toWaiting' \in Seq(Packets \cup {NoData})
      BY <1>0, <2>1, <2>2, SeqFacts
    <2>5. e \in Events /\ (scheduled' = scheduled \/ scheduled' = scheduled \cup {e})
      BY <1>7 DEF ScheduleBundle, Scheduler!Enter
    <2>6. scheduled' \subseteq Events /\ IsFiniteSet(scheduled')
      <3> HIDE DEF e
      <3>1. IsFiniteSet(scheduled \cup {e})
        BY FS_AddElement
      <3> QED
        BY <2>5, <3>1
    <2>7. \A f \in scheduled' : f.packet \in 1 .. arrived
      BY <2>1, <2>5
    <2>8. lost' \subseteq 1 .. arrived
      BY <1>7, <2>1 DEF ScheduleBundle
    <2>9. UNCHANGED <<packetVars, fromVars, audioVars, nrtVars, freed, performed>>
      BY <1>7 DEF ScheduleBundle
    <2> HIDE DEF p, e
    <2> QED
      BY <1>0, <2>1, <2>2, <2>3, <2>4, <2>6, <2>7, <2>8, <2>9
  <1>8. ASSUME DrainEnds PROVE HeldInv'
    BY <1>8 DEF DrainEnds
  <1>9. ASSUME NEW e \in scheduled, PerformEvent(e) PROVE HeldInv'
    <2>1. e.packet \in 1 .. arrived /\ e.packet \in Packets
      BY <1>0
    <2>2. scheduled' = scheduled \ {e} /\ performed' = Append(performed, e.packet)
      BY <1>9 DEF PerformEvent, Scheduler!Leave
    <2>3. scheduled' \subseteq Events /\ IsFiniteSet(scheduled')
      BY <2>2, FS_Subset
    <2>4. performed' \in Seq(Packets)
      BY <2>1, <2>2, SeqFacts
    <2>5. /\ fromHandled' = fromHandled
          /\ fromWaiting' \in Seq(Packets) /\ lost' \subseteq 1 .. arrived
      <3>1. CASE FromEngine!Put(e.packet) /\ UNCHANGED lost
        BY <2>1, <3>1, SeqFacts DEF FromEngine!Put
      <3>2. CASE ~FromEngine!HasRoom /\ lost' = lost \cup {e.packet} /\ UNCHANGED fromVars
        BY <2>1, <3>2
      <3> QED
        BY <1>9, <3>1, <3>2 DEF PerformEvent, FreeInNRT
    <2>6. fromWaiting' \in Seq(Packets \cup {NoData})
      BY <1>0, <2>5, SeqFacts
    <2>7. UNCHANGED <<packetVars, toVars, audioVars, nrtVars, freed>>
      BY <1>9 DEF PerformEvent
    <2> QED
      BY <1>0, <2>2, <2>3, <2>4, <2>5, <2>6, <2>7
  <1>10. ASSUME Signal PROVE HeldInv'
    BY <1>10 DEF Signal
  <1>11. ASSUME Wake PROVE HeldInv'
    BY <1>11 DEF Wake
  <1>12. ASSUME WaitNext PROVE HeldInv'
    BY <1>12 DEF WaitNext
  <1>13. ASSUME Look PROVE HeldInv'
    BY <1>13 DEF Look
  <1>14. ASSUME FallAsleep PROVE HeldInv'
    BY <1>14 DEF FallAsleep
  <1>15. ASSUME FreeReturned PROVE HeldInv'
    <2>1. /\ fromWaiting # << >> /\ fromWaiting' = Tail(fromWaiting)
          /\ fromHandled' = Append(fromHandled, NoData)
      BY <1>15 DEF FreeReturned, FromEngine!Get
    <2>2. /\ fromWaiting' \in Seq(Packets) /\ fromHandled' \in Seq({NoData})
          /\ Head(fromWaiting) \in Packets
      BY <2>1, SeqFacts
    <2>3. /\ fromWaiting' \in Seq(Packets \cup {NoData})
          /\ fromHandled' \in Seq(Packets \cup {NoData})
      BY <1>0, <2>2, SeqFacts
    <2>4. freed' \in [Packets -> Nat]
      <3>1. FreeOSCPacket(Head(fromWaiting))
        BY <1>15 DEF FreeReturned
      <3> QED
        BY <2>2, <3>1, FreeCounts
    <2> QED
      BY <1>0, <1>15, <2>2, <2>3, <2>4 DEF FreeReturned
  <1>16. ASSUME PerformEnds PROVE HeldInv'
    BY <1>16 DEF PerformEnds
  <1>17. CASE UNCHANGED vars
    BY <1>17 DEF vars
  <1> QED
    BY <1>1, <1>2, <1>3, <1>4, <1>5, <1>6, <1>7, <1>8, <1>9, <1>10, <1>11,
       <1>12, <1>13, <1>14, <1>15, <1>16, <1>17 DEF Next

-----------------------------------------------------------------------------
(***************************************************************************)
(* One owner.                                                              *)
(***************************************************************************)
\* Whether the UDP thread holds the packet, as a number.
InHand(p) == IF udp # "listening" /\ p = arrived THEN 1 ELSE 0

\* The owners of a packet add up, place by place; messages that were handled
\* by the non-real-time thread hold none.
OwnersAddUp ==
    \A p \in Packets :
        /\ Owners(p) = InHand(p) + Places(toWaiting, p) + Places(toHandled, p)
                       + Cardinality(EventsOf(scheduled, p))
                       + Places(fromWaiting, p) + freed[p]
        /\ InHand(p) \in Nat /\ Places(toWaiting, p) \in Nat
        /\ Places(toHandled, p) \in Nat
        /\ Cardinality(EventsOf(scheduled, p)) \in Nat
        /\ Places(fromWaiting, p) \in Nat /\ freed[p] \in Nat

\* They do wherever packets are held properly.
LEMMA OwnersSum == HeldInv => OwnersAddUp
  <1> SUFFICES ASSUME HeldInv, NEW p \in Packets
               PROVE  /\ Owners(p) = InHand(p) + Places(toWaiting, p) + Places(toHandled, p)
                                      + Cardinality(EventsOf(scheduled, p))
                                      + Places(fromWaiting, p) + freed[p]
                      /\ InHand(p) \in Nat /\ Places(toWaiting, p) \in Nat
                      /\ Places(toHandled, p) \in Nat
                      /\ Cardinality(EventsOf(scheduled, p)) \in Nat
                      /\ Places(fromWaiting, p) \in Nat /\ freed[p] \in Nat
    BY DEF OwnersAddUp
  <1>1. Places(toWaiting, p) \in Nat /\ Places(fromWaiting, p) \in Nat
    BY PlacesType DEF HeldInv, ProperlyHeld
  <1>2. Places(toHandled, p) \in Nat
    BY PlacesType DEF HeldInv, TypeOK
  <1>3. Places(fromHandled, p) = 0
    <2>1. p # NoData
      BY DEF Packets, NoData
    <2>2. fromHandled \in Seq({NoData})
      BY DEF HeldInv, ProperlyHeld
    <2>3. \A k \in 1 .. Len(fromHandled) : fromHandled[k] # p
      BY <2>1, <2>2
    <2> QED
      BY <2>2, <2>3, PlacesType
  <1>4. Cardinality(EventsOf(scheduled, p)) \in Nat
    BY EventsType DEF HeldInv, ProperlyHeld
  <1>5. freed[p] \in Nat
    BY DEF HeldInv, TypeOK
  <1>6. InHand(p) \in Nat
    BY DEF InHand
  <1>7. Owners(p) = InHand(p) + Places(toWaiting, p) + Places(toHandled, p)
                    + Cardinality(EventsOf(scheduled, p)) + Places(fromWaiting, p)
                    + Places(fromHandled, p) + freed[p]
    BY DEF Owners, InHand, EventsOf
  <1>8. Owners(p) = InHand(p) + Places(toWaiting, p) + Places(toHandled, p)
                    + Cardinality(EventsOf(scheduled, p)) + Places(fromWaiting, p)
                    + freed[p]
    BY <1>1, <1>2, <1>3, <1>4, <1>5, <1>6, <1>7
  <1> QED
    BY <1>1, <1>2, <1>4, <1>5, <1>6, <1>8

\* At the start no packet has arrived and none is held.
LEMMA OwnerInit == Init => OwnedOnce
  <1> SUFFICES ASSUME Init, NEW p \in Packets PROVE Owners(p) = 0
    <2>1. ASSUME Init, NEW p \in Packets PROVE p \notin (1 .. arrived) \ lost
      BY <2>1 DEF Init
    <2> QED
      BY <2>1 DEF OwnedOnce
  <1>1. HeldInv
    BY HeldInit
  <1>2. /\ Places(toWaiting, p) = 0 /\ Places(toHandled, p) = 0
        /\ Places(fromWaiting, p) = 0
    BY PlacesEmpty DEF Init, ToEngine!QueueInit, FromEngine!QueueInit
  <1>3. Cardinality(EventsOf(scheduled, p)) = 0
    <2>1. scheduled = {}
      BY DEF Init, Scheduler!EventInit
    <2> QED
      BY <1>1, <2>1, EventsType DEF HeldInv, ProperlyHeld
  <1>4. freed[p] = 0 /\ InHand(p) = 0
    BY DEF Init, InHand
  <1> QED
    BY <1>1, <1>2, <1>3, <1>4, OwnersSum DEF OwnersAddUp

\* Every step leaves every packet that has arrived and is not lost with one
\* owner, and the others with none.
LEMMA OwnerStep == HeldInv /\ OwnedOnce /\ [Next]_vars => OwnedOnce'
  <1> SUFFICES ASSUME HeldInv, OwnedOnce, [Next]_vars PROVE OwnedOnce'
    OBVIOUS
  <1>0. HeldInv'
    BY HeldStep
  <1> SUFFICES ASSUME NEW p \in Packets
               PROVE  (Owners(p) = IF p \in (1 .. arrived) \ lost THEN 1 ELSE 0)'
    BY DEF OwnedOnce
  <1> DEFINE live == p \in (1 .. arrived) \ lost
             tw == Places(toWaiting, p)
             th == Places(toHandled, p)
             fw == Places(fromWaiting, p)
             sc == Cardinality(EventsOf(scheduled, p))
             ih == InHand(p)
             fr == freed[p]
  <1>a. /\ ih \in Nat /\ tw \in Nat /\ th \in Nat /\ sc \in Nat /\ fw \in Nat /\ fr \in Nat
        /\ live => ih + tw + th + sc + fw + fr = 1
        /\ ~live => ih + tw + th + sc + fw + fr = 0
    BY OwnersSum DEF OwnedOnce, OwnersAddUp
  <1>z. /\ ~live => ih = 0 /\ tw = 0 /\ th = 0 /\ sc = 0 /\ fw = 0 /\ fr = 0
        /\ sc # 0 => ih = 0 /\ tw = 0 /\ th = 0 /\ fw = 0 /\ fr = 0
    <2> HIDE DEF live, ih, tw, th, sc, fw, fr
    <2>1. ih + tw + th + sc + fw + fr = 1 \/ ih + tw + th + sc + fw + fr = 0
      BY <1>a
    <2> QED
      BY <1>a, <2>1
  <1>b. /\ Owners(p)' = ih' + tw' + th' + sc' + fw' + fr'
        /\ ih' \in Nat /\ tw' \in Nat /\ th' \in Nat /\ sc' \in Nat /\ fw' \in Nat /\ fr' \in Nat
    <2>1. (HeldInv => OwnersAddUp)'
      BY OwnersSum, PTL
    <2> QED
      BY <1>0, <2>1 DEF OwnersAddUp
  <1>c. /\ arrived \in Nat /\ toWaiting \in Seq(1 .. arrived)
        /\ toHandled \in Seq(Packets \cup {NoData}) /\ fromWaiting \in Seq(Packets)
        /\ IsFiniteSet(scheduled) /\ scheduled \subseteq Events
        /\ freed \in [Packets -> Nat] /\ p \in Nat /\ p # NoData
        /\ 1 .. arrived \subseteq Packets /\ NoData \in Packets \cup {NoData}
        /\ udp # "listening" => arrived \in 1 .. arrived
    BY PathAssumption DEF HeldInv, TypeOK, ProperlyHeld, Packets, NoData
  <1> USE DEF packetVars, toVars, fromVars, nrtVars, audioVars, history
  <1>x. ASSUME ih' = ih, tw' = tw, th' = th, sc' = sc, fw' = fw, fr' = fr,
               live' <=> live
        PROVE  Owners(p)' = IF live' THEN 1 ELSE 0
    BY <1>a, <1>b, <1>x
  <1>s. UNCHANGED <<toVars, scheduled, fromWaiting>> =>
            tw' = tw /\ th' = th /\ sc' = sc /\ fw' = fw
    OBVIOUS
  <1>h. UNCHANGED <<arrived, udp>> => ih' = ih
    BY DEF InHand
  <1>l. UNCHANGED <<arrived, lost>> => (live' <=> live)
    OBVIOUS
  <1>1. ASSUME NEW k \in Kinds, NEW t \in Times, Receive(k, t)
        PROVE  Owners(p)' = IF live' THEN 1 ELSE 0
    <2>1. tw' = tw /\ th' = th /\ sc' = sc /\ fw' = fw /\ fr' = fr
      BY <1>1, <1>s DEF Receive
    <2>2. /\ p = arrived + 1 => ih' = 1 /\ live' /\ ~live
          /\ p # arrived + 1 => ih' = ih /\ (live' <=> live)
      BY <1>1, <1>c DEF Receive, InHand, HeldInv, ProperlyHeld
    <2>3. CASE p = arrived + 1
      <3>1. ih = 0 /\ tw = 0 /\ th = 0 /\ sc = 0 /\ fw = 0 /\ fr = 0
        BY <1>z, <2>2, <2>3
      <3>2. live'
        BY <2>2, <2>3
      <3>3. Owners(p)' = 1
        BY <1>b, <2>1, <2>2, <2>3, <3>1
      <3> QED
        BY <3>2, <3>3
    <2>4. CASE p # arrived + 1
      BY <1>x, <2>1, <2>2, <2>4
    <2> QED
      BY <2>3, <2>4
  <1>2. ASSUME ReclaimPacket PROVE Owners(p)' = IF live' THEN 1 ELSE 0
    <2>1. /\ toHandled # << >> /\ toHandled' = Tail(toHandled)
          /\ UNCHANGED <<toWaiting, scheduled, fromWaiting, arrived, udp, lost>>
          /\ FreeOSCPacket(Head(toHandled))
      BY <1>2 DEF ReclaimPacket, ToEngine!Reclaim
    <2>2. /\ Head(toHandled) = p => th = th' + 1
          /\ Head(toHandled) # p => th = th'
      BY <1>c, <2>1, PlacesTail
    <2>3. Head(toHandled) \in Packets \cup {NoData}
      BY <1>c, <2>1, SeqFacts
    <2>4. /\ Head(toHandled) = p => fr' = fr + 1
          /\ Head(toHandled) # p => fr' = fr
      BY <1>c, <2>1, <2>3, FreeCounts
    <2>5. tw' = tw /\ sc' = sc /\ fw' = fw /\ ih' = ih /\ (live' <=> live)
      BY <2>1, <1>h, <1>l
    <2> QED
      BY <1>a, <1>b, <2>2, <2>4, <2>5
  <1>3. ASSUME ReclaimEnds PROVE Owners(p)' = IF live' THEN 1 ELSE 0
    <2>1. ih' = ih /\ fr' = fr
      BY <1>3 DEF ReclaimEnds, InHand
    <2> QED
      BY <1>3, <1>x, <1>s, <1>l, <2>1 DEF ReclaimEnds
  <1>4. ASSUME SendPacket PROVE Owners(p)' = IF live' THEN 1 ELSE 0
    <2>1. /\ UNCHANGED <<arrived, scheduled, fromWaiting, lost>>
          /\ udp = "writing" /\ udp' = "listening"
      BY <1>4 DEF SendPacket
    <2>2. ih' = 0 /\ (p = arrived => ih = 1) /\ (p # arrived => ih = 0)
      BY <2>1 DEF InHand
    <2>3. sc' = sc /\ fw' = fw /\ (live' <=> live)
      BY <2>1, <1>l
    <2>4. arrived \in 1 .. arrived /\ arrived \in Packets
      BY <1>c, <2>1
    <2>5. CASE ToEngine!Put(arrived) /\ UNCHANGED freed
      <3>1. toWaiting' = Append(toWaiting, arrived) /\ th' = th /\ fr' = fr
        BY <2>5 DEF ToEngine!Put
      <3>2. /\ arrived = p => tw' = tw + 1
            /\ arrived # p => tw' = tw
        BY <1>c, <2>4, <3>1, PlacesAppend
      <3> QED
        BY <1>a, <1>b, <2>2, <2>3, <3>1, <3>2
    <2>6. CASE ~ToEngine!HasRoom /\ FreeOSCPacket(arrived) /\ UNCHANGED toVars
      <3>1. tw' = tw /\ th' = th
        BY <2>6
      <3>2. /\ arrived = p => fr' = fr + 1
            /\ arrived # p => fr' = fr
        BY <1>c, <2>4, <2>6, FreeCounts
      <3> QED
        BY <1>a, <1>b, <2>2, <2>3, <3>1, <3>2
    <2> QED
      BY <1>4, <2>5, <2>6 DEF SendPacket
  <1>5. ASSUME NEW t \in Times \ Immediately, RunBegins(t)
        PROVE  Owners(p)' = IF live' THEN 1 ELSE 0
    BY <1>5, <1>x, <1>s, <1>h, <1>l DEF RunBegins
  <1>6. ASSUME PerformNow PROVE Owners(p)' = IF live' THEN 1 ELSE 0
    <2> DEFINE q == Head(toWaiting)
    <2>1. /\ toWaiting # << >> /\ toWaiting' = Tail(toWaiting)
          /\ toHandled' = Append(toHandled, q)
          /\ UNCHANGED <<arrived, udp, fromWaiting, freed>>
      BY <1>6 DEF PerformNow, ToEngine!Get
    <2>2. q \in Packets \cup {NoData}
      BY <1>c, <2>1, SeqFacts
    <2>3. (q = p => tw = tw' + 1) /\ (q # p => tw = tw')
      BY <1>c, <2>1, PlacesTail
    <2>4. (q = p => th' = th + 1) /\ (q # p => th' = th)
      BY <1>c, <2>1, <2>2, PlacesAppend
    <2>5. ih' = ih /\ fw' = fw /\ fr' = fr
      BY <2>1, <1>h
    <2>6. \/ scheduled' = scheduled /\ lost' = lost
          \/ scheduled' = {} /\ lost' = lost \cup { e.packet : e \in scheduled }
      BY <1>6 DEF PerformNow, Scheduler!Clear
    <2>7. CASE scheduled' = scheduled /\ lost' = lost
      <3>1. sc' = sc /\ (live' <=> live)
        BY <2>1, <2>7
      <3>2. tw' + th' = tw + th
        BY <1>a, <1>b, <2>3, <2>4
      <3> QED
        BY <1>a, <1>b, <2>5, <3>1, <3>2
    <2>8. CASE scheduled' = {} /\ lost' = lost \cup { e.packet : e \in scheduled }
      <3>1. IsFiniteSet({})
        BY FS_EmptySet
      <3>2. sc' = 0
        BY <2>8, <3>1, EventsType
      <3>3. sc = 0 <=> \A e \in scheduled : e.packet # p
        BY <1>c, EventsType
      <3>4. CASE sc = 0
        <4>1. live' <=> live
          BY <2>1, <2>8, <3>3, <3>4
        <4> QED
          BY <1>a, <1>b, <2>3, <2>4, <2>5, <3>2, <3>4, <4>1
      <3>5. CASE sc # 0
        <4>1. ~live'
          BY <2>8, <3>3, <3>5
        <4>2. ih = 0 /\ tw = 0 /\ th = 0 /\ fw = 0 /\ fr = 0
          BY <1>z, <3>5
        <4>3. ih' = 0 /\ tw' = 0 /\ th' = 0 /\ fw' = 0 /\ fr' = 0
          BY <1>a, <1>b, <2>3, <2>4, <2>5, <4>2
        <4>4. Owners(p)' = 0
          BY <1>b, <3>2, <4>3
        <4> QED
          BY <4>1, <4>4
      <3> QED
        BY <3>4, <3>5
    <2> QED
      BY <2>6, <2>7, <2>8
  <1>7. ASSUME ScheduleBundle PROVE Owners(p)' = IF live' THEN 1 ELSE 0
    <2> DEFINE q == Head(toWaiting)
               e == [time |-> stamp[q], packet |-> q]
    <2>1. /\ toWaiting # << >> /\ toWaiting' = Tail(toWaiting)
          /\ toHandled' = Append(toHandled, NoData)
          /\ UNCHANGED <<arrived, udp, fromWaiting, freed>>
      BY <1>7 DEF ScheduleBundle, ToEngine!Get
    <2>2. (q = p => tw = tw' + 1) /\ (q # p => tw = tw')
      BY <1>c, <2>1, PlacesTail
    <2>3. th' = th
      BY <1>c, <2>1, PlacesAppend
    <2>4. ih' = ih /\ fw' = fw /\ fr' = fr
      BY <2>1, <1>h
    <2>5. e \notin scheduled /\ e.packet = q
      BY <1>7 DEF ScheduleBundle, Scheduler!Enter
    <2>6. \/ scheduled' = scheduled /\ lost' = lost \cup {q}
          \/ scheduled' = scheduled \cup {e} /\ lost' = lost
      BY <1>7, <2>5 DEF ScheduleBundle, Scheduler!Enter
    <2>7. CASE scheduled' = scheduled /\ lost' = lost \cup {q}
      <3>1. sc' = sc
        BY <2>7
      <3>2. (q = p => ~live') /\ (q # p => (live' <=> live))
        BY <2>1, <2>7
      <3> QED
        BY <1>a, <1>b, <2>2, <2>3, <2>4, <3>1, <3>2
    <2>8. CASE scheduled' = scheduled \cup {e} /\ lost' = lost
      <3>1. (q = p => sc' = sc + 1) /\ (q # p => sc' = sc)
        <4> HIDE DEF e
        <4> QED
          BY <1>c, <2>5, <2>8, EventsMore
      <3>2. live' <=> live
        BY <2>1, <2>8
      <3> QED
        BY <1>a, <1>b, <2>2, <2>3, <2>4, <3>1, <3>2
    <2> QED
      BY <2>6, <2>7, <2>8
  <1>8. ASSUME DrainEnds PROVE Owners(p)' = IF live' THEN 1 ELSE 0
    BY <1>8, <1>x, <1>s, <1>h, <1>l DEF DrainEnds
  <1>9. ASSUME NEW e \in scheduled, PerformEvent(e)
        PROVE  Owners(p)' = IF live' THEN 1 ELSE 0
    <2>1. /\ scheduled' = scheduled \ {e}
          /\ UNCHANGED <<toWaiting, toHandled, arrived, udp, freed>>
      BY <1>9 DEF PerformEvent, Scheduler!Leave
    <2>2. (e.packet = p => sc = sc' + 1) /\ (e.packet # p => sc = sc')
      BY <1>c, <2>1, EventsLess
    <2>3. tw' = tw /\ th' = th /\ ih' = ih /\ fr' = fr
      BY <2>1, <1>h
    <2>4. e.packet \in Packets
      BY <1>c DEF Events
    <2>5. CASE FromEngine!Put(e.packet) /\ UNCHANGED lost
      <3>1. fromWaiting' = Append(fromWaiting, e.packet)
        BY <2>5 DEF FromEngine!Put
      <3>2. (e.packet = p => fw' = fw + 1) /\ (e.packet # p => fw' = fw)
        BY <1>c, <2>4, <3>1, PlacesAppend
      <3>3. live' <=> live
        BY <2>1, <2>5
      <3> QED
        BY <1>a, <1>b, <2>2, <2>3, <3>2, <3>3
    <2>6. CASE ~FromEngine!HasRoom /\ lost' = lost \cup {e.packet} /\ UNCHANGED fromVars
      <3>1. fw' = fw
        BY <2>6
      <3>2. (e.packet = p => ~live') /\ (e.packet # p => (live' <=> live))
        BY <2>1, <2>6
      <3> QED
        BY <1>a, <1>b, <2>2, <2>3, <3>1, <3>2
    <2> QED
      BY <1>9, <2>5, <2>6 DEF PerformEvent, FreeInNRT
  <1>10. ASSUME Signal PROVE Owners(p)' = IF live' THEN 1 ELSE 0
    BY <1>10, <1>x, <1>s, <1>h, <1>l DEF Signal
  <1>11. ASSUME Wake PROVE Owners(p)' = IF live' THEN 1 ELSE 0
    BY <1>11, <1>x, <1>s, <1>h, <1>l DEF Wake
  <1>12. ASSUME WaitNext PROVE Owners(p)' = IF live' THEN 1 ELSE 0
    BY <1>12, <1>x, <1>s, <1>h, <1>l DEF WaitNext
  <1>13. ASSUME Look PROVE Owners(p)' = IF live' THEN 1 ELSE 0
    BY <1>13, <1>x, <1>s, <1>h, <1>l DEF Look
  <1>14. ASSUME FallAsleep PROVE Owners(p)' = IF live' THEN 1 ELSE 0
    BY <1>14, <1>x, <1>s, <1>h, <1>l DEF FallAsleep
  <1>15. ASSUME FreeReturned PROVE Owners(p)' = IF live' THEN 1 ELSE 0
    <2> DEFINE q == Head(fromWaiting)
    <2>1. /\ fromWaiting # << >> /\ fromWaiting' = Tail(fromWaiting)
          /\ UNCHANGED <<toWaiting, toHandled, scheduled, arrived, udp, lost>>
          /\ FreeOSCPacket(q)
      BY <1>15 DEF FreeReturned, FromEngine!Get
    <2>2. q \in Packets
      BY <1>c, <2>1, SeqFacts
    <2>3. (q = p => fw = fw' + 1) /\ (q # p => fw = fw')
      BY <1>c, <2>1, PlacesTail
    <2>4. (q = p => fr' = fr + 1) /\ (q # p => fr' = fr)
      BY <1>c, <2>1, <2>2, FreeCounts
    <2>5. tw' = tw /\ th' = th /\ sc' = sc /\ ih' = ih /\ (live' <=> live)
      BY <2>1, <1>h, <1>l
    <2> QED
      BY <1>a, <1>b, <2>3, <2>4, <2>5
  <1>16. ASSUME PerformEnds PROVE Owners(p)' = IF live' THEN 1 ELSE 0
    BY <1>16, <1>x, <1>s, <1>h, <1>l DEF PerformEnds
  <1>17. CASE UNCHANGED vars
    BY <1>17, <1>x, <1>s, <1>h, <1>l DEF vars
  <1> QED
    BY <1>1, <1>2, <1>3, <1>4, <1>5, <1>6, <1>7, <1>8, <1>9, <1>10, <1>11,
       <1>12, <1>13, <1>14, <1>15, <1>16, <1>17 DEF Next

\* For every number of packets, every size of the queues and the scheduler
\* and every set of stamps, however the threads take turns: OneOwner's
\* inductive form.
THEOREM OwnerInvariant == Spec => []OwnerInv
  <1>1. Init => OwnerInv
    BY HeldInit, OwnerInit DEF OwnerInv
  <1>2. OwnerInv /\ [Next]_vars => OwnerInv'
    BY HeldStep, OwnerStep DEF OwnerInv
  <1> QED
    BY <1>1, <1>2, PTL DEF Spec

\* A packet that has arrived is held in one place and not freed, or was freed
\* once and is held nowhere, or is lost where a queue or the scheduler was
\* full or /clearSched forgot it: no packet is freed twice, or used after
\* it was freed.
THEOREM AlwaysOneOwner == Spec => []OneOwner
  <1>1. OwnerInv => OneOwner
    <2> SUFFICES ASSUME OwnerInv, NEW p \in 1 .. arrived
                 PROVE  Owners(p) = IF p \in lost THEN 0 ELSE 1
      BY DEF OneOwner
    <2>1. p \in Packets
      BY PathAssumption DEF OwnerInv, HeldInv, TypeOK, Packets
    <2> QED
      BY <2>1 DEF OwnerInv, OwnedOnce
  <1> QED
    BY <1>1, OwnerInvariant, PTL

-----------------------------------------------------------------------------
(***************************************************************************)
(* The order in which packets are performed.                               *)
(***************************************************************************)
Ordered == InTurn /\ StillOwed /\ PerformedInOrder

\* At the start nothing is queued, scheduled or performed.
LEMMA OrderInit == Init => Ordered
  BY DEF Init, Ordered, InTurn, StillOwed, PerformedInOrder, ToEngine!QueueInit,
     Scheduler!EventInit

\* Performing a packet that was not performed, and that has not to be
\* performed before any that was, keeps the order.
LEMMA PerformedNext ==
    ASSUME HeldInv, PerformedInOrder, UNCHANGED <<kind, stamp>>,
           NEW q \in Packets, performed' = Append(performed, q),
           \A j \in 1 .. Len(performed) :
             performed[j] # q /\ ~Precedes(q, performed[j])
    PROVE  PerformedInOrder'
  <1>1. performed \in Seq(Packets) /\ DOMAIN performed = 1 .. Len(performed)
        /\ Len(performed) \in Nat
    BY DEF HeldInv, TypeOK
  <1>2. /\ DOMAIN performed' = 1 .. Len(performed) + 1
        /\ performed'[Len(performed) + 1] = q
        /\ \A j \in 1 .. Len(performed) : performed'[j] = performed[j]
    BY <1>1
  <1>3. \A a, b : Precedes(a, b)' = Precedes(a, b)
    BY DEF Precedes, AtOnce
  <1> SUFFICES ASSUME NEW k \in DOMAIN performed', NEW l \in DOMAIN performed', k < l
               PROVE  /\ performed'[k] # performed'[l]
                      /\ ~Precedes(performed'[l], performed'[k])
    BY <1>3 DEF PerformedInOrder, Precedes, AtOnce
  <1>4. k \in 1 .. Len(performed) /\ performed'[k] = performed[k]
    BY <1>1, <1>2
  <1>5. CASE l = Len(performed) + 1
    BY <1>2, <1>4, <1>5
  <1>6. CASE l \in 1 .. Len(performed)
    <2>1. performed'[l] = performed[l]
      BY <1>2, <1>6
    <2> QED
      BY <1>1, <1>4, <1>6, <2>1 DEF PerformedInOrder
  <1> QED
    BY <1>1, <1>2, <1>5, <1>6

\* Every step keeps the queue in the order of arrival, the scheduled bundles
\* owed and what was performed in order.
LEMMA OrderStep == HeldInv /\ Ordered /\ [Next]_vars => Ordered'
  <1> SUFFICES ASSUME HeldInv, Ordered, [Next]_vars PROVE Ordered'
    OBVIOUS
  <1> USE DEF packetVars, toVars, fromVars, nrtVars, audioVars, history
  <1>a. InTurn /\ StillOwed /\ PerformedInOrder
    BY DEF Ordered
  <1>b. /\ arrived \in Nat /\ toWaiting \in Seq(1 .. arrived)
        /\ performed \in Seq(Packets) /\ scheduled \subseteq Events
        /\ 1 .. arrived \subseteq Packets /\ \A p \in Packets : p \in Nat
        /\ kind \in [Packets -> Kinds \cup {"none"}] /\ stamp \in [Packets -> Nat]
        /\ udp # "listening" => arrived > 0
    BY PathAssumption DEF HeldInv, TypeOK, ProperlyHeld, Packets
  <1>c. /\ udp = "listening" => Sent = 1 .. arrived
        /\ udp # "listening" => Sent = 1 .. arrived - 1
        /\ Sent \subseteq 1 .. arrived
    BY <1>b DEF Sent
  <1>x. ASSUME UNCHANGED <<arrived, kind, stamp, udp, toWaiting, scheduled, performed>>
        PROVE  Ordered'
    BY <1>a, <1>x DEF Ordered, InTurn, StillOwed, PerformedInOrder, Sent, Precedes, AtOnce
  <1>1. ASSUME NEW k \in Kinds, NEW t \in Times, Receive(k, t) PROVE Ordered'
    <2>1. /\ UNCHANGED <<toWaiting, scheduled, performed>>
          /\ udp = "listening" /\ udp' # "listening" /\ arrived' = arrived + 1
      BY <1>1 DEF Receive
    <2>2. Sent' = Sent
      BY <1>b, <1>c, <2>1 DEF Sent
    <2>3. \A p \in Sent : p \in Packets /\ p # arrived + 1
      BY <1>b, <1>c
    <2>4. \A p \in Sent : kind'[p] = kind[p] /\ stamp'[p] = stamp[p]
      BY <1>1, <1>b, <2>3 DEF Receive
    <2> DEFINE Once(p) == kind'[p] # "bundle" \/ stamp'[p] \in Immediately
               Before(p, q) ==
                 /\ p < q
                 /\ IF Once(p) THEN Once(q) ELSE ~Once(q) /\ stamp'[p] < stamp'[q]
    <2>5. \A p, q \in Sent : (Before(p, q) <=> Precedes(p, q)) /\ (Once(p) <=> AtOnce(p))
      BY <2>4 DEF Precedes, AtOnce
    <2>6. InTurn'
      BY <1>a, <2>1, <2>2 DEF InTurn
    <2>7. StillOwed'
      <3>1. ASSUME NEW e \in scheduled
            PROVE  /\ ~Once(e.packet) /\ e.time = stamp'[e.packet]
                   /\ \A j \in 1 .. Len(performed) :
                        performed[j] # e.packet /\ ~Before(e.packet, performed[j])
        <4>1. e.packet \in Sent /\ \A j \in 1 .. Len(performed) : performed[j] \in Sent
          BY <1>a DEF InTurn
        <4>2. /\ ~AtOnce(e.packet) /\ e.time = stamp[e.packet]
              /\ \A j \in 1 .. Len(performed) :
                   performed[j] # e.packet /\ ~Precedes(e.packet, performed[j])
          BY <1>a DEF StillOwed
        <4> HIDE DEF Once, Before
        <4> QED
          BY <2>4, <2>5, <4>1, <4>2
      <3> QED
        BY <2>1, <3>1 DEF StillOwed, AtOnce, Precedes
    <2>8. PerformedInOrder'
      <3>1. ASSUME NEW a \in DOMAIN performed, NEW b \in DOMAIN performed, a < b
            PROVE  performed[a] # performed[b] /\ ~Before(performed[b], performed[a])
        <4>1. performed[a] \in Sent /\ performed[b] \in Sent
          BY <1>a, <1>b DEF InTurn
        <4>2. performed[a] # performed[b] /\ ~Precedes(performed[b], performed[a])
          BY <1>a, <3>1 DEF PerformedInOrder
        <4> HIDE DEF Once, Before
        <4> QED
          BY <2>5, <4>1, <4>2
      <3> QED
        BY <2>1, <3>1 DEF PerformedInOrder, AtOnce, Precedes
    <2> QED
      BY <2>6, <2>7, <2>8 DEF Ordered
  <1>2. ASSUME ReclaimPacket PROVE Ordered'
    BY <1>2, <1>x DEF ReclaimPacket, ToEngine!Reclaim
  <1>3. ASSUME ReclaimEnds PROVE Ordered'
    BY <1>a, <1>3 DEF ReclaimEnds, Ordered, InTurn, StillOwed, PerformedInOrder, Sent,
       Precedes, AtOnce
  <1>4. ASSUME SendPacket PROVE Ordered'
    <2>1. /\ UNCHANGED <<arrived, kind, stamp, scheduled, performed>>
          /\ udp # "listening" /\ udp' = "listening"
      BY <1>4 DEF SendPacket
    <2>2. /\ Sent' = 1 .. arrived /\ Sent = 1 .. arrived - 1 /\ Sent \subseteq Sent'
          /\ arrived \in Sent' /\ \A p \in Sent : p < arrived
      BY <1>b, <1>c, <2>1 DEF Sent
    <2>3. StillOwed' /\ PerformedInOrder'
      BY <1>a, <2>1 DEF StillOwed, PerformedInOrder, Precedes, AtOnce
    <2>4. toWaiting' = Append(toWaiting, arrived) \/ toWaiting' = toWaiting
      BY <1>4 DEF SendPacket, ToEngine!Put
    <2>5. CASE toWaiting' = toWaiting
      BY <1>a, <2>1, <2>2, <2>3, <2>5 DEF Ordered, InTurn
    <2>6. CASE toWaiting' = Append(toWaiting, arrived)
      <3>1. /\ Len(toWaiting) \in Nat /\ Len(toWaiting') = Len(toWaiting) + 1
            /\ toWaiting'[Len(toWaiting) + 1] = arrived
            /\ \A k \in 1 .. Len(toWaiting) : toWaiting'[k] = toWaiting[k]
            /\ \A k \in 1 .. Len(toWaiting') : k \in 1 .. Len(toWaiting) \/ k = Len(toWaiting')
        BY <1>b, <2>6
      <3>2. \A k \in 1 .. Len(toWaiting) : toWaiting[k] \in Sent
        BY <1>a DEF InTurn
      <3>3. \A k \in 1 .. Len(toWaiting') : toWaiting'[k] \in Sent'
        BY <2>2, <3>1, <3>2
      <3>4. \A k, l \in 1 .. Len(toWaiting') : k < l => toWaiting'[k] < toWaiting'[l]
        <4> SUFFICES ASSUME NEW k \in 1 .. Len(toWaiting'), NEW l \in 1 .. Len(toWaiting'), k < l
                     PROVE  toWaiting'[k] < toWaiting'[l]
          OBVIOUS
        <4>1. k \in 1 .. Len(toWaiting)
          BY <3>1
        <4>2. CASE l \in 1 .. Len(toWaiting)
          BY <1>a, <3>1, <4>1, <4>2 DEF InTurn
        <4>3. CASE l = Len(toWaiting')
          BY <2>2, <3>1, <3>2, <4>1, <4>3
        <4> QED
          BY <3>1, <4>2, <4>3
      <3>5. ASSUME NEW k \in 1 .. Len(toWaiting')
            PROVE  /\ \A j \in 1 .. Len(performed) : performed[j] < toWaiting'[k]
                   /\ \A e \in scheduled : e.packet < toWaiting'[k]
        <4>1. CASE k \in 1 .. Len(toWaiting)
          BY <1>a, <3>1, <4>1 DEF InTurn
        <4>2. CASE k = Len(toWaiting')
          <5>1. toWaiting'[k] = arrived
            BY <3>1, <4>2
          <5> QED
            BY <1>a, <2>2, <5>1 DEF InTurn
        <4> QED
          BY <3>1, <4>1, <4>2
      <3>6. InTurn'
        BY <1>a, <2>1, <2>2, <3>3, <3>4, <3>5 DEF InTurn
      <3> QED
        BY <2>3, <3>6 DEF Ordered
    <2> QED
      BY <2>4, <2>5, <2>6
  <1>5. ASSUME NEW t \in Times \ Immediately, RunBegins(t) PROVE Ordered'
    BY <1>5, <1>x DEF RunBegins
  <1>t. ASSUME toWaiting # << >>, toWaiting' = Tail(toWaiting)
        PROVE  /\ Head(toWaiting) \in Sent /\ Head(toWaiting) \in Packets
               /\ \A j \in 1 .. Len(performed) : performed[j] < Head(toWaiting)
               /\ \A e \in scheduled : e.packet < Head(toWaiting)
               /\ Len(toWaiting') = Len(toWaiting) - 1
               /\ \A k \in 1 .. Len(toWaiting') :
                    k + 1 \in 1 .. Len(toWaiting) /\ toWaiting'[k] = toWaiting[k + 1]
               /\ \A k \in 1 .. Len(toWaiting') : Head(toWaiting) < toWaiting'[k]
               /\ \A k, l \in 1 .. Len(toWaiting') : k < l => toWaiting'[k] < toWaiting'[l]
    <2>1. /\ 1 \in 1 .. Len(toWaiting) /\ Head(toWaiting) = toWaiting[1]
          /\ Len(toWaiting) \in Nat
      BY <1>b, <1>t
    <2>2. /\ Len(toWaiting') = Len(toWaiting) - 1
          /\ \A k \in 1 .. Len(toWaiting') :
               k + 1 \in 1 .. Len(toWaiting) /\ toWaiting'[k] = toWaiting[k + 1]
      BY <1>b, <1>t
    <2>3. Head(toWaiting) \in Sent /\ Head(toWaiting) \in Packets
      BY <1>a, <1>b, <1>c, <2>1 DEF InTurn
    <2>4. /\ \A j \in 1 .. Len(performed) : performed[j] < Head(toWaiting)
          /\ \A e \in scheduled : e.packet < Head(toWaiting)
      BY <1>a, <2>1 DEF InTurn
    <2>5. \A k, l \in 1 .. Len(toWaiting) : k < l => toWaiting[k] < toWaiting[l]
      BY <1>a DEF InTurn
    <2>6. \A k \in 1 .. Len(toWaiting') : Head(toWaiting) < toWaiting'[k]
      BY <2>1, <2>2, <2>5
    <2>7. \A k, l \in 1 .. Len(toWaiting') : k < l => toWaiting'[k] < toWaiting'[l]
      BY <2>1, <2>2, <2>5
    <2> QED
      BY <2>2, <2>3, <2>4, <2>6, <2>7
  <1>6. ASSUME PerformNow PROVE Ordered'
    <2> DEFINE q == Head(toWaiting)
    <2>1. /\ toWaiting # << >> /\ toWaiting' = Tail(toWaiting) /\ AtOnce(q)
          /\ performed' = Append(performed, q)
          /\ UNCHANGED <<arrived, kind, stamp, udp>>
          /\ scheduled' \subseteq scheduled
      BY <1>6 DEF PerformNow, ToEngine!Get, Scheduler!Clear
    <2> HIDE DEF q
    <2>t. /\ q \in Sent /\ q \in Packets
          /\ \A j \in 1 .. Len(performed) : performed[j] < q
          /\ \A e \in scheduled : e.packet < q
          /\ \A k \in 1 .. Len(toWaiting') :
               k + 1 \in 1 .. Len(toWaiting) /\ toWaiting'[k] = toWaiting[k + 1]
          /\ \A k \in 1 .. Len(toWaiting') : q < toWaiting'[k]
          /\ \A k, l \in 1 .. Len(toWaiting') : k < l => toWaiting'[k] < toWaiting'[l]
      BY <1>t, <2>1 DEF q
    <2>2. /\ Len(performed) \in Nat /\ Len(performed') = Len(performed) + 1
          /\ \A j \in 1 .. Len(performed) : performed'[j] = performed[j]
          /\ \A j \in 1 .. Len(performed') : j \in 1 .. Len(performed) \/ performed'[j] = q
      <3>1. performed \in Seq(Packets) /\ q \in Packets
        BY <1>b, <2>t
      <3>2. performed' = Append(performed, q)
        BY <2>1
      <3> QED
        BY <3>1, <3>2
    <2>3. Sent' = Sent
      BY <2>1 DEF Sent
    <2>4. InTurn'
      <3>1. \A j \in 1 .. Len(performed') : performed'[j] \in Sent
        BY <1>a, <2>2, <2>t DEF InTurn
      <3>2. ASSUME NEW k \in 1 .. Len(toWaiting')
            PROVE  /\ toWaiting'[k] \in Sent
                   /\ \A j \in 1 .. Len(performed') : performed'[j] < toWaiting'[k]
                   /\ \A e \in scheduled' : e.packet < toWaiting'[k]
        <4>1. k + 1 \in 1 .. Len(toWaiting) /\ toWaiting'[k] = toWaiting[k + 1]
          BY <2>t
        <4> QED
          BY <1>a, <2>1, <2>2, <2>t, <4>1 DEF InTurn
      <3>3. \A e \in scheduled' : e.packet \in Sent
        BY <1>a, <2>1 DEF InTurn
      <3> QED
        BY <2>3, <2>t, <3>1, <3>2, <3>3 DEF InTurn
    <2>5. StillOwed'
      <3> SUFFICES ASSUME NEW e \in scheduled'
                   PROVE  /\ ~AtOnce(e.packet) /\ e.time = stamp[e.packet]
                          /\ \A j \in 1 .. Len(performed') :
                               performed'[j] # e.packet /\ ~Precedes(e.packet, performed'[j])
        BY <2>1 DEF StillOwed, AtOnce, Precedes
      <3>1. /\ ~AtOnce(e.packet) /\ e.time = stamp[e.packet]
            /\ \A j \in 1 .. Len(performed) :
                 performed[j] # e.packet /\ ~Precedes(e.packet, performed[j])
        BY <1>a, <2>1 DEF StillOwed
      <3>2. ~Precedes(e.packet, q)
        BY <2>1, <3>1 DEF Precedes
      <3>3. e.packet # q
        BY <2>1, <3>1
      <3> QED
        BY <2>2, <3>1, <3>2, <3>3
    <2>6. PerformedInOrder'
      <3>1. \A j \in 1 .. Len(performed) : performed[j] # q /\ ~Precedes(q, performed[j])
        <4>1. \A j \in 1 .. Len(performed) : performed[j] \in Nat
          BY <1>b
        <4> QED
          BY <1>b, <2>t, <4>1 DEF Precedes
      <3> QED
        BY <1>a, <2>1, <2>t, <3>1, PerformedNext
    <2> QED
      BY <2>4, <2>5, <2>6 DEF Ordered
  <1>7. ASSUME ScheduleBundle PROVE Ordered'
    <2> DEFINE q == Head(toWaiting)
               f == [time |-> stamp[q], packet |-> q]
    <2>1. /\ toWaiting # << >> /\ toWaiting' = Tail(toWaiting) /\ ~AtOnce(q)
          /\ UNCHANGED <<arrived, kind, stamp, udp, performed>>
          /\ (scheduled' = scheduled \/ scheduled' = scheduled \cup {f})
          /\ f.packet = q /\ f.time = stamp[q]
      BY <1>7 DEF ScheduleBundle, ToEngine!Get, Scheduler!Enter
    <2> HIDE DEF q, f
    <2>t. /\ q \in Sent /\ q \in Packets
          /\ \A j \in 1 .. Len(performed) : performed[j] < q
          /\ \A e \in scheduled : e.packet < q
          /\ \A k \in 1 .. Len(toWaiting') :
               k + 1 \in 1 .. Len(toWaiting) /\ toWaiting'[k] = toWaiting[k + 1]
          /\ \A k \in 1 .. Len(toWaiting') : q < toWaiting'[k]
          /\ \A k, l \in 1 .. Len(toWaiting') : k < l => toWaiting'[k] < toWaiting'[l]
      BY <1>t, <2>1 DEF q
    <2>2. \A e \in scheduled' : e \in scheduled \/ (e.packet = q /\ e.time = stamp[q])
      BY <2>1
    <2>3. Sent' = Sent
      BY <2>1 DEF Sent
    <2>4. InTurn'
      <3>1. \A e \in scheduled' : e.packet \in Sent
        BY <1>a, <2>2, <2>t DEF InTurn
      <3>2. ASSUME NEW k \in 1 .. Len(toWaiting')
            PROVE  /\ toWaiting'[k] \in Sent
                   /\ \A j \in 1 .. Len(performed) : performed[j] < toWaiting'[k]
                   /\ \A e \in scheduled' : e.packet < toWaiting'[k]
        <4>1. k + 1 \in 1 .. Len(toWaiting) /\ toWaiting'[k] = toWaiting[k + 1]
          BY <2>t
        <4>2. /\ toWaiting'[k] \in Sent
              /\ \A j \in 1 .. Len(performed) : performed[j] < toWaiting'[k]
              /\ \A e \in scheduled : e.packet < toWaiting'[k]
          BY <1>a, <4>1 DEF InTurn
        <4>3. q < toWaiting'[k]
          BY <2>t
        <4> QED
          BY <2>2, <4>2, <4>3
      <3> QED
        BY <1>a, <2>1, <2>3, <2>t, <3>1, <3>2 DEF InTurn
    <2>5. StillOwed'
      <3> SUFFICES ASSUME NEW e \in scheduled'
                   PROVE  /\ ~AtOnce(e.packet) /\ e.time = stamp[e.packet]
                          /\ \A j \in 1 .. Len(performed) :
                               performed[j] # e.packet /\ ~Precedes(e.packet, performed[j])
        BY <2>1 DEF StillOwed, AtOnce, Precedes
      <3>1. CASE e \in scheduled
        BY <1>a, <3>1 DEF StillOwed
      <3>2. CASE e.packet = q /\ e.time = stamp[q]
        <4>1. \A j \in 1 .. Len(performed) : performed[j] \in Nat
          BY <1>b
        <4>2. \A j \in 1 .. Len(performed) : performed[j] # q /\ ~Precedes(q, performed[j])
          BY <1>b, <2>t, <4>1 DEF Precedes
        <4> QED
          BY <2>1, <3>2, <4>2
      <3> QED
        BY <2>2, <3>1, <3>2
    <2>6. PerformedInOrder'
      BY <1>a, <2>1 DEF PerformedInOrder, Precedes, AtOnce
    <2> QED
      BY <2>4, <2>5, <2>6 DEF Ordered
  <1>8. ASSUME DrainEnds PROVE Ordered'
    BY <1>8, <1>x DEF DrainEnds
  <1>9. ASSUME NEW e \in scheduled, PerformEvent(e) PROVE Ordered'
    <2> DEFINE q == e.packet
    <2>1. /\ scheduled' = scheduled \ {e} /\ performed' = Append(performed, q)
          /\ UNCHANGED <<arrived, kind, stamp, udp, toWaiting>>
          /\ \A f \in scheduled : e.time <= f.time
      BY <1>9 DEF PerformEvent, Scheduler!Leave, Scheduler!Earliest
    <2>2. q \in Packets /\ q \in Sent
      BY <1>a, <1>b DEF Events, InTurn
    <2>3. /\ Len(performed) \in Nat /\ Len(performed') = Len(performed) + 1
          /\ \A j \in 1 .. Len(performed) : performed'[j] = performed[j]
          /\ \A j \in 1 .. Len(performed') : j \in 1 .. Len(performed) \/ performed'[j] = q
      BY <1>b, <2>1, <2>2
    <2>4. Sent' = Sent
      BY <2>1 DEF Sent
    <2>5. InTurn'
      <3>1. \A j \in 1 .. Len(performed') : performed'[j] \in Sent
        BY <1>a, <2>2, <2>3 DEF InTurn
      <3>2. \A k \in 1 .. Len(toWaiting) :
               \A j \in 1 .. Len(performed') : performed'[j] < toWaiting[k]
        BY <1>a, <2>3 DEF InTurn
      <3> QED
        BY <1>a, <2>1, <2>4, <3>1, <3>2 DEF InTurn
    <2>6. ~AtOnce(q) /\ e.time = stamp[q]
      BY <1>a DEF StillOwed
    <2>7. StillOwed'
      <3> SUFFICES ASSUME NEW f \in scheduled'
                   PROVE  /\ ~AtOnce(f.packet) /\ f.time = stamp[f.packet]
                          /\ \A j \in 1 .. Len(performed') :
                               performed'[j] # f.packet /\ ~Precedes(f.packet, performed'[j])
        BY <2>1 DEF StillOwed, AtOnce, Precedes
      <3>1. f \in scheduled /\ f # e
        BY <2>1
      <3>2. /\ ~AtOnce(f.packet) /\ f.time = stamp[f.packet]
            /\ \A j \in 1 .. Len(performed) :
                 performed[j] # f.packet /\ ~Precedes(f.packet, performed[j])
        BY <1>a, <3>1 DEF StillOwed
      <3>3. f.packet # q
        <4>1. e \in Events /\ f \in Events
          BY <1>b, <3>1
        <4> QED
          BY <2>6, <3>1, <3>2, <4>1 DEF Events
      <3>4. ~Precedes(f.packet, q)
        <4>1. stamp[q] <= stamp[f.packet]
          BY <2>1, <2>6, <3>1, <3>2
        <4>2. stamp[q] \in Nat /\ stamp[f.packet] \in Nat
          BY <1>b, <2>2, <3>1 DEF Events
        <4> QED
          BY <2>6, <3>2, <4>1, <4>2 DEF Precedes
      <3> HIDE DEF q
      <3> QED
        BY <2>3, <3>2, <3>3, <3>4
    <2>8. PerformedInOrder'
      <3>1. \A j \in 1 .. Len(performed) : performed[j] # q /\ ~Precedes(q, performed[j])
        BY <1>a DEF StillOwed
      <3> QED
        BY <1>a, <2>1, <2>2, <3>1, PerformedNext
    <2> QED
      BY <2>5, <2>7, <2>8 DEF Ordered
  <1>10. ASSUME Signal PROVE Ordered'
    BY <1>10, <1>x DEF Signal
  <1>11. ASSUME Wake PROVE Ordered'
    BY <1>11, <1>x DEF Wake
  <1>12. ASSUME WaitNext PROVE Ordered'
    BY <1>12, <1>x DEF WaitNext
  <1>13. ASSUME Look PROVE Ordered'
    BY <1>13, <1>x DEF Look
  <1>14. ASSUME FallAsleep PROVE Ordered'
    BY <1>14, <1>x DEF FallAsleep
  <1>15. ASSUME FreeReturned PROVE Ordered'
    BY <1>15, <1>x DEF FreeReturned
  <1>16. ASSUME PerformEnds PROVE Ordered'
    BY <1>16, <1>x DEF PerformEnds
  <1>17. CASE UNCHANGED vars
    BY <1>17, <1>x DEF vars
  <1> QED
    BY <1>1, <1>2, <1>3, <1>4, <1>5, <1>6, <1>7, <1>8, <1>9, <1>10, <1>11,
       <1>12, <1>13, <1>14, <1>15, <1>16, <1>17 DEF Next

\* The inductive form of PerformedInOrder, for every value of the constants.
THEOREM OrderInvariant == Spec => []OrderInv
  <1>1. Init => OrderInv
    BY HeldInit, OrderInit DEF OrderInv, Ordered
  <1>2. OrderInv /\ [Next]_vars => OrderInv'
    BY HeldStep, OrderStep DEF OrderInv, Ordered
  <1> QED
    BY <1>1, <1>2, PTL DEF Spec

\* No packet is performed twice, packets to be performed at once are performed
\* in the order they arrived, and of two bundles that arrived in the order of
\* their stamps the earlier is performed first, however many there are and
\* wherever the clock is set.
THEOREM AlwaysInOrder == Spec => []PerformedInOrder
  <1>1. OrderInv => PerformedInOrder
    BY DEF OrderInv
  <1> QED
    BY <1>1, OrderInvariant, PTL

=============================================================================
