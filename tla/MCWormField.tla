----------------------------- MODULE MCWormField -----------------------------
(***************************************************************************)
(* WormField for TLC.  The player draws at most MaxDrawn worms, so that    *)
(* the last of the MaxWorms is born of two others in a scan.               *)
(***************************************************************************)
EXTENDS WormField

CONSTANT MaxDrawn   \* bound: how many worms the player draws

\* All steps but SecondsPass.  With MaxWorms = MaxDrawn + 1 there is one birth,
\* and the time that passes changes only the dates of its parents, which
\* matter to a second one.
MCNext ==
    \/ born < MaxDrawn /\ StartCreatingWorm
    \/ \E p \in Pitches : AddNote(p)
    \/ StopCreatingWorm
    \/ ClearStuff
    \/ PostTick
    \/ ControllerTick
    \/ ScanRound
    \/ Birth
    \/ \E w \in Worm : SequenceTick(w)
    \/ \E w \in Worm : CreatingTick(w)
    \/ \E w \in Worm, off \in BOOLEAN : FinishedTick(w, off)

MCSpec == Init /\ [][MCNext \/ SecondsPass]_vars

MCFairSpec == Init /\ [][MCNext]_vars /\ Fairness

=============================================================================
