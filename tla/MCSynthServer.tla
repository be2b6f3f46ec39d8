---------------------------- MODULE MCSynthServer ----------------------------
(***************************************************************************)
(* SynthServer for TLC.  Worms are interchangeable: the model never        *)
(* compares them and numbers only their nodes.                             *)
(***************************************************************************)
EXTENDS SynthServer, TLC

Symmetry == Permutations(Worms)

=============================================================================
