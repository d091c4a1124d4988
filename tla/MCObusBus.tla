----------------------------- MODULE MCObusBus ------------------------------
(***************************************************************************)
(* ObusBus for TLC.                                                        *)
(***************************************************************************)
EXTENDS ObusBus, TLC

Symmetry == Permutations(Conn) \cup Permutations(Handle) \cup Permutations(CallHandle)

=============================================================================
