------------------------------ MODULE MCObusIo ------------------------------
(***************************************************************************)
(* ObusIo for TLC.                                                         *)
(***************************************************************************)
EXTENDS ObusIo, TLC

Symmetry == Permutations(Io) \cup Permutations(Buf)

=============================================================================
