------------------------------- MODULE MCSfsck -------------------------------
(* Instance of Sfsck for TLC. *)
EXTENDS Sfsck, TLC

Symmetry == Permutations(Names)
ExtentsValue == {<<0, 1>>, <<0, 5>>}
=============================================================================
