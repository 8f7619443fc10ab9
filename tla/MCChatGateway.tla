---- MODULE MCChatGateway ----
(* Model values of the runs of ChatGateway. *)
EXTENDS ChatGateway, TLC

(* Operators of one kind, and handlers in flight, are interchangeable. *)
Symmetry == Permutations(Operators \ Supervisors) \cup Permutations(Tasks)
=============================================================================
