----------------------------- MODULE WaitingLine -----------------------------
(***************************************************************************)
(* What the chat promises its visitors: one line, served oldest first.     *)
(* A visitor enters behind everybody else, is served only from the head of *)
(* the line, may give up at any time, and once served leaves when the      *)
(* conversation ends.  Nobody comes back.                                  *)
(***************************************************************************)
EXTENDS Integers

CONSTANT NumVisitors

VARIABLES
  line,      \* the visitors who wait, numbered as they came
  served,    \* those who talk to an operator
  entered    \* how many have come so far

vars == <<line, served, entered>>

Init == line = {} /\ served = {} /\ entered = 0

Enter ==
  /\ entered < NumVisitors
  /\ entered' = entered + 1
  /\ line' = line \cup {entered + 1}
  /\ UNCHANGED served

Serve ==
  \E v \in line :
    /\ \A w \in line : v <= w
    /\ line' = line \ {v}
    /\ served' = served \cup {v}
    /\ UNCHANGED entered

GiveUp == \E v \in line : line' = line \ {v} /\ UNCHANGED <<served, entered>>

Finish == \E v \in served : served' = served \ {v} /\ UNCHANGED <<line, entered>>

Next == Enter \/ Serve \/ GiveUp \/ Finish

Spec == Init /\ [][Next]_vars
=============================================================================
