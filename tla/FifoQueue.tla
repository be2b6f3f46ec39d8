------------------------------ MODULE FifoQueue ------------------------------
(***************************************************************************)
(* What the server's threads are promised by a MsgFifo: a bounded queue    *)
(* whose messages are performed by one thread in the order in which        *)
(* another put them in, and then handed back to that other thread, which   *)
(* reclaims them in the same order.  A message takes up room until it is   *)
(* reclaimed.                                                              *)
(***************************************************************************)
EXTENDS Integers, Sequences

CONSTANTS
    Messages,   \* the messages that may be put in
    Spent,      \* what performing leaves of a message that was taken over
    Capacity    \* how many messages there is room for

VARIABLES
    waiting,    \* the messages still to be performed
    handled     \* what is left of the messages performed and not reclaimed

queueVars == <<waiting, handled>>

QueueInit == waiting = << >> /\ handled = << >>

HasRoom == Len(waiting) + Len(handled) < Capacity

Put(m) ==
    /\ HasRoom
    /\ waiting' = Append(waiting, m)
    /\ UNCHANGED handled

\* The first message is performed, which leaves it as it was or spent.
Get(left) ==
    /\ waiting # << >>
    /\ left \in {Head(waiting), Spent}
    /\ waiting' = Tail(waiting)
    /\ handled' = Append(handled, left)

Reclaim ==
    /\ handled # << >>
    /\ handled' = Tail(handled)
    /\ UNCHANGED waiting

QueueNext ==
    \/ \E m \in Messages : Put(m)
    \/ \E left \in Messages \cup {Spent} : Get(left)
    \/ Reclaim

QueueSpec == QueueInit /\ [][QueueNext]_queueVars

=============================================================================
