---------------------------- MODULE MCEWSequence ----------------------------
(***************************************************************************)
(* EWSequence for TLC, and the loop of tape it implements when it is used  *)
(* the way PWWorm uses it.                                                 *)
(***************************************************************************)
EXTENDS EWSequence

\* The timeline read round from the tick after pos to the tick at pos.
TapeOfTimeline ==
    SubSeq(timeline, pos + 2, Len(timeline)) \o SubSeq(timeline, 1, pos + 1)

Tape == INSTANCE LoopTape WITH
            Notes <- Events,
            tape <- TapeOfTimeline,
            recorded <- ~recording,
            sounding <- fired

\* A worm's recording is replayed from its first tick, tick for tick and for
\* ever, with every note in the tick it was played in and fewer notes only
\* because some have decayed.
ReplaysRecording == Tape!TapeSpec

=============================================================================
