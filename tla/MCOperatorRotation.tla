-------------------------- MODULE MCOperatorRotation --------------------------
(* Small instances of the rotation, and what the model's list operator is. *)
EXTENDS RotationTurns, TLC

Symmetry == Permutations(Operators) \cup Permutations(Calls)

(* Without is the filter LREM performs: SelectSeq, for every short list. *)
ASSUME WithoutIsSelectSeq ==
  \A list \in UNION {[1 .. n -> Operators] : n \in 0 .. 4}, gone \in SUBSET Operators :
    Without(list, gone) = SelectSeq(list, LAMBDA o : o \notin gone)
=============================================================================
