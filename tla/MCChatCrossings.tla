---- MODULE MCChatCrossings ----
(* Model values of the runs of ChatCrossings. *)
EXTENDS ChatCrossings, TLC

(* Operators of one kind, and handlers in flight, are interchangeable. *)
Symmetry == Permutations(Operators \ Supervisors) \cup Permutations(Tasks)
=============================================================================
