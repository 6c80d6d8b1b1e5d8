--------------------------- MODULE MCUndoManager ---------------------------
(***************************************************************************)
(* Instances of UndoManager for TLC. Notes are alike, and so are values.   *)
(***************************************************************************)
EXTENDS UndoManager

Symmetry == Permutations(Notes) \cup Permutations(Value)
=============================================================================
