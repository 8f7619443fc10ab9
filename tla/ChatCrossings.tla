---------------------------- MODULE ChatCrossings ----------------------------
(***************************************************************************)
(* What handlers of the gateway can do to each other between two awaits.   *)
(* An operator's chats are counted by one command and a session is given   *)
(* to the operator by a later one; the next of the queue is read by one    *)
(* and assigned by another.  History variables record which of these       *)
(* readings somebody has crossed; what no crossing explains must not       *)
(* happen, whatever is in flight.                                          *)
(***************************************************************************)
EXTENDS ChatCountdowns

VARIABLES
  overtaken,  \* <<t, o>>: the count of o's chats that t goes by is out of date
  met,        \* sessions that two handlers have had in hand at the same time
  released    \* sessions whose operator has been taken away again

crossings == <<overtaken, met, released>>

(* Handlers that are to assign session s on their own account: a start,    *)
(* until it has found nobody, and a drain that has read s as the next.     *)
InHand(s) ==
  {t \in Tasks :
     /\ Automatic(t) /\ task[t].s = s
     /\ task[t].at \in {"pick", "counts", "rotate", "stamp", "assign", "notify", "greet"}}

(* Task t has asked whether o has room and is to assign by the answer.     *)
Decided(t, o) ==
  \/ task[t].at = "rotate" /\ o \in task[t].pool
  \/ /\ task[t].at \in {"stamp", "assign"} /\ task[t].o = o
     /\ Automatic(t) \/ task[t].handler = "reply"

(* Or it is a drain, which counts once and then adds its own assignments.  *)
GoesByCount(t, o) ==
  \/ Decided(t, o)
  \/ /\ task[t].handler \in Draining /\ task[t].o = o
     /\ task[t].at \in {"take", "notify", "greet", "arm"}

(* Somebody else gives o a chat meanwhile, or the limit is lowered.        *)
Overtakes(t, o) ==
  /\ task'[t] = task[t]
  /\ Load(o)' > Load(o) \/ (limit' < limit /\ Decided(t, o))

XInit == CInit /\ overtaken = {} /\ met = {} /\ released = {}

XNext ==
  /\ CNext
  /\ overtaken' = {c \in Tasks \X Operators :
                     /\ GoesByCount(c[1], c[2])'
                     /\ c \in overtaken \/ Overtakes(c[1], c[2])}
  /\ met' = met \cup {s \in Sessions : Cardinality(InHand(s)') > 1}
  /\ released' = released \cup {s \in Sessions : /\ session[s].operator # Nobody
                                                 /\ session'[s].operator = Nobody}

XSpec == XInit /\ [][XNext]_<<vars, forgotten, crossings>>

Reopens(s) == session[s].status = "closed" /\ session'[s].status = "open"

(* An assignment by a handler that has not counted (opening a chat claims  *)
(* it, PATCH assign) or whose count has been overtaken.                    *)
AssignsUnawares(t, o) ==
  /\ task[t].at = "assign" /\ task[t].o = o /\ task'[t] # task[t]
  /\ task[t].handler \in {"claim", "assign"} \/ <<t, o>> \in overtaken

(* maxActiveChats bounds the open chats of an operator: whatever starts,   *)
(* drains, replies and closes are in flight, an operator gets a chat       *)
(* beyond the limit only when a closed chat is reopened, by a path that    *)
(* does not count, or from a handler whose count another step has          *)
(* overtaken.  A count is never wrong by the handler's own doing.          *)
OverLimitUnawaresOnly ==
  [][\A o \in Operators :
       Load(o)' > Load(o) /\ Load(o)' > limit
       => (\E s \in Sessions : Reopens(s)) \/ (\E t \in Tasks : AssignsUnawares(t, o))
    ]_<<vars, forgotten, crossings>>

(* A visitor is greeted once, however often the chat is closed, reopened,  *)
(* claimed or reassigned, unless the operator was taken away again; and    *)
(* twice or more only if a start and a drain, or two drains, have had the  *)
(* session in hand at the same time: then once for each at most.           *)
GreetedTwiceByMeetingOnly ==
  \A s \in Sessions \ released :
    greetings[s] <= IF s \in met THEN Cardinality(Tasks) ELSE 1
=============================================================================
