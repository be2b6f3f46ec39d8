--------------------------- MODULE MCSchedulerHeap ---------------------------
(***************************************************************************)
(* SchedulerHeap for TLC.  Packets are interchangeable: the heap compares  *)
(* only the times of their events.                                         *)
(***************************************************************************)
EXTENDS SchedulerHeap, TLC

Symmetry == Permutations(Packets)

=============================================================================
