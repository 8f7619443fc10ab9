--------------------------- MODULE ChatCountdowns ---------------------------
(***************************************************************************)
(* No session stays open for ever: what the countdowns of the gateway      *)
(* guarantee, across restarts that lose them.                              *)
(***************************************************************************)
EXTENDS ChatGateway

(* History: the open sessions whose countdown a restart has wiped, until   *)
(* one is started again or the visitor has been back ("re-armed on the     *)
(* next message or visitor:rejoin").                                       *)
VARIABLE forgotten

Counting(s) == inactivity[s] # "none" \/ abandon[s] # "none"

(* A message or a rejoin has been handled to its end. *)
Revisited(s) ==
  \E t \in Tasks : /\ task[t].handler \in {"message", "rejoin"} /\ task[t].s = s
                   /\ task'[t].at = "idle"

CInit == Init /\ forgotten = {}

CNext ==
  /\ Next
  /\ \/ Restart /\ forgotten' = {s \in Sessions : session[s].status = "open"}
     \/ ~Restart /\ forgotten' = {s \in forgotten : ~Counting(s)' /\ ~Revisited(s)}

CSpec == CInit /\ [][CNext]_<<vars, forgotten>>

CFairSpec == CSpec /\ Fairness

Unattended(s) ==
  /\ session[s].status = "open"
  /\ Working(s) = {}
  /\ s \notin forgotten

(* A session in the queue that no handler is working on has a countdown    *)
(* running that will end it, however its start, its messages, its rejoins, *)
(* drains and closings interleave; after a restart it has one again when   *)
(* the visitor has written or rejoined, even if the handler decided by a   *)
(* row that others have changed meanwhile.                                 *)
QueuedHasCountdown ==
  \A s \in Sessions : Unattended(s) /\ session[s].operator = Nobody => Counting(s)

(* A session with an operator that no handler is working on has its        *)
(* inactivity countdown running; after a restart, the same.                *)
ActiveHasCountdown ==
  \A s \in Sessions :
    Unattended(s) /\ session[s].operator # Nobody => inactivity[s] # "none"

(* Every chat ends at last: when visitors and operators fall silent, the   *)
(* countdowns close what is open.                                          *)
EveryChatEnds ==
  \A s \in Sessions : session[s].status = "open" ~> session[s].status = "closed"
=============================================================================
