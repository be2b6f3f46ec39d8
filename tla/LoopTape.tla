------------------------------ MODULE LoopTape ------------------------------
(***************************************************************************)
(* What a worm is promised by its sequence: a loop of tape.  While it is   *)
(* recorded, the tape gets longer by one empty tick at a time and notes    *)
(* land on its last tick.  While it is played, the first tick sounds and   *)
(* goes to the end.  A note may fade from the tape; none ever appears.     *)
(*                                                                         *)
(* There is no position and no arithmetic here: playback starts with what  *)
(* was recorded first and replays the ticks in the order of the recording. *)
(***************************************************************************)
EXTENDS Integers, Sequences

CONSTANT Notes

VARIABLES
    tape,       \* the ticks from the next one to play to the last one played
    recorded,   \* whether the recording is over
    sounding    \* the notes of the tick just played

tapeVars == <<tape, recorded, sounding>>

TapeInit ==
    /\ tape = << {} >>
    /\ recorded = FALSE
    /\ sounding = {}

Lengthen ==
    /\ ~recorded
    /\ tape' = Append(tape, {})
    /\ UNCHANGED <<recorded, sounding>>

Note(n) ==
    /\ ~recorded
    /\ tape' = [tape EXCEPT ![Len(tape)] = @ \cup {n}]
    /\ UNCHANGED <<recorded, sounding>>

Finish ==
    /\ ~recorded
    /\ recorded' = TRUE
    /\ UNCHANGED <<tape, sounding>>

Sound ==
    /\ recorded
    /\ sounding' = Head(tape)
    /\ tape' = Append(Tail(tape), Head(tape))
    /\ UNCHANGED recorded

Fade ==
    /\ recorded
    /\ Len(tape') = Len(tape)
    /\ \A k \in DOMAIN tape : tape'[k] \subseteq tape[k]
    /\ UNCHANGED <<recorded, sounding>>

TapeNext ==
    \/ Lengthen
    \/ \E n \in Notes : Note(n)
    \/ Finish
    \/ Sound
    \/ Fade

TapeSpec == TapeInit /\ [][TapeNext]_tapeVars

=============================================================================
