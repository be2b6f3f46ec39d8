---------------------------- MODULE MCMatingScan ----------------------------
(***************************************************************************)
(* MatingScan for TLC.  Scans are entered with at most MaxHerd worms, and  *)
(* MaxWorms leaves room for more babies than BirthsBounded allows, so that *)
(* the bound on worms does not help the property.                          *)
(***************************************************************************)
EXTENDS MatingScan

CONSTANT MaxHerd

MCInit == \E n \in 0 .. MaxHerd : InitWith(n)

MCNext ==
    \/ Len(worms) <= MaxHerd /\ StartScan(worms)
    \/ Apart
    \/ MeetOnly
    \/ MeetAndBear
    \/ NextWorm
    \/ \E w \in Worm : Len(worms) <= MaxHerd /\ TimePasses(w)

MCSpec == MCInit /\ [][MCNext]_scanVars /\ ScanFairness

=============================================================================
