----------------------------- MODULE ChatGateway -----------------------------
(***************************************************************************)
(* The chat gateway: sessions of visitors, the operators who staff them,   *)
(* the countdowns that end a silent session, and the handlers that move a  *)
(* session from the waiting queue to an operator and to its end.           *)
(*                                                                         *)
(* The server is one Node process.  A handler runs until it awaits; while  *)
(* it waits for the database or Redis any other handler or timer may run.  *)
(* So a handler in flight is a task, and a step of a task is either one    *)
(* database (or Redis) command or one block of synchronous code on the     *)
(* gateway's maps.  An await with no effect on this state is no step.      *)
(* Time is abstracted: an armed timer may fire at any moment.              *)
(***************************************************************************)
EXTENDS Integers, FiniteSets

CONSTANTS
  Operators,     \* users who can join as operators
  Supervisors,   \* those of them who hold the permission chat.close
  Nobody,        \* no operator (null)
  NumSessions,   \* how many sessions can be started; they are numbered by age
  Tasks,         \* how many handlers can be in flight at once
  Limits,        \* the values of maxActiveChats a supervisor may save
  FirstLimit,    \* the value loaded at boot
  Enabled,       \* the automatic messages that are switched on
  Handlers,      \* the requests that reach this instance
  MaxRequests    \* bound on the requests that arrive in a behaviour

ASSUME SupervisorsAreOperators == Supervisors \subseteq Operators /\ Nobody \notin Operators
ASSUME OperatorsAreFinite == IsFiniteSet(Operators)
ASSUME LimitsAreCounts == Limits \subseteq Nat \ {0} /\ FirstLimit \in Nat \ {0}
ASSUME BoundsAreCounts == NumSessions \in Nat /\ MaxRequests \in Nat
ASSUME TasksAreFinite == IsFiniteSet(Tasks)

VARIABLES
  session,      \* the ChatSession rows
  preference,   \* onlineOperators: what each operator asked for, or "offline"
  limit,        \* maxActiveChats as the gateway caches it
  inactivity,   \* inactivityTimers: per session, the stage of its countdown
  abandon,      \* queueAbandonTimers: the same for a session in the queue
  queueWait,    \* queueWaitTimers: sessions whose queue_wait message is due
  grace,        \* visitorDisconnectTimers: sessions whose visitor has vanished
  greetings,    \* greetings saved in each session
  task,         \* the handlers in flight
  requests      \* requests received so far

timers == <<inactivity, abandon, queueWait, grace>>
vars == <<session, preference, limit, timers, greetings, task, requests>>

Sessions == 1 .. NumSessions

Reasons == {"none", "client_closed", "operator_closed", "inactivity_timeout"}

(* The two-stage countdowns: no entry, warning due, close due, and an      *)
(* entry whose warning has fired with no close to follow.                  *)
Stages == {"none", "warning", "closing", "spent"}

(* Mutant: the query of the queue forgets operatorId = null. *)
WaitingOrServed(s) == session[s].status = "open"

Waiting(s) == session[s].status = "open" /\ session[s].operator = Nobody

Load(o) == Cardinality({s \in Sessions : session[s].status = "open" /\ session[s].operator = o})

NoSession == [status |-> "none", operator |-> Nobody, stamps |-> 0, reason |-> "none"]

Idle == [at |-> "idle", handler |-> "none", s |-> 0, o |-> Nobody, pool |-> {},
         n |-> 0, seen |-> NoSession]

Init ==
  /\ session = [s \in Sessions |-> NoSession]
  /\ preference = [o \in Operators |-> "offline"]
  /\ limit = FirstLimit
  /\ inactivity = [s \in Sessions |-> "none"]
  /\ abandon = [s \in Sessions |-> "none"]
  /\ queueWait = {}
  /\ grace = {}
  /\ greetings = [s \in Sessions |-> 0]
  /\ task = [t \in Tasks |-> Idle]
  /\ requests = 0

-----------------------------------------------------------------------------
(* Tasks *)

(* A request of this kind arrives and task t takes it. *)
Receives(handler, t) ==
  /\ handler \in Handlers
  /\ task[t].at = "idle"
  /\ requests < MaxRequests
  /\ requests' = requests + 1

Begin(t, handler, at, s, o) ==
  task' = [task EXCEPT ![t] =
             [Idle EXCEPT !.at = at, !.handler = handler, !.s = s, !.o = o]]

Go(t, at) == task' = [task EXCEPT ![t].at = at, ![t].seen = NoSession]

End(t) == task' = [task EXCEPT ![t] = Idle]

(* Tasks that work on session s. *)
Working(s) == {t \in Tasks : task[t].at # "idle" /\ task[t].s = s}

-----------------------------------------------------------------------------
(* Countdowns *)

StartOf(warning, close) == IF {warning, close} \cap Enabled = {} THEN "none" ELSE "warning"
(* Mutant: the close is scheduled only when it is switched off. *)
AfterWarningNothing(close) == IF close \in Enabled THEN "spent" ELSE "closing"
AfterWarning(close) == IF close \in Enabled THEN "closing" ELSE "spent"

ArmInactivity(s) ==
  inactivity' = [inactivity EXCEPT ![s] = StartOf("inactivity_warning", "inactivity_close")]

ArmAbandon(s) ==
  abandon' = [abandon EXCEPT ![s] = StartOf("queue_abandon_warning", "queue_abandon_close")]

(* queue_wait is armed in business hours only. *)
ArmQueueWait(s) ==
  queueWait' \in IF "queue_wait" \in Enabled
                   THEN {queueWait \cup {s}, queueWait \ {s}}
                   ELSE {queueWait \ {s}}

ClearSessionTimers(s) ==
  /\ inactivity' = [inactivity EXCEPT ![s] = "none"]
  /\ abandon' = [abandon EXCEPT ![s] = "none"]
  /\ queueWait' = queueWait \ {s}
  /\ grace' = grace \ {s}

(* The warning fires.  With the close message on, the close is scheduled.  *)
InactivityWarning(s) ==
  /\ inactivity[s] = "warning"
  /\ inactivity' = [inactivity EXCEPT ![s] = AfterWarning("inactivity_close")]
  /\ UNCHANGED <<session, preference, limit, abandon, queueWait, grace, greetings, task, requests>>

AbandonWarning(s) ==
  /\ abandon[s] = "warning"
  /\ abandon' = [abandon EXCEPT ![s] = AfterWarning("queue_abandon_close")]
  /\ UNCHANGED <<session, preference, limit, inactivity, queueWait, grace, greetings, task, requests>>

QueueWaitMessage(s) ==
  /\ s \in queueWait
  /\ queueWait' = queueWait \ {s}
  /\ UNCHANGED <<session, preference, limit, inactivity, abandon, grace, greetings, task, requests>>

(* autoCloseForInactivity goes straight to the close: nothing is read. *)
InactivityClose(t, s) ==
  /\ task[t].at = "idle"
  /\ inactivity[s] = "closing"
  /\ Begin(t, "inactivity", "close", s, Nobody)
  /\ ClearSessionTimers(s)
  /\ UNCHANGED <<session, preference, limit, greetings, requests>>

(* Mutant: every timer is cleared before the session is looked at. *)
AbandonCloseClearsFirst(t, s) ==
  /\ task[t].at = "idle"
  /\ abandon[s] = "closing"
  /\ ClearSessionTimers(s)
  /\ Begin(t, "abandon", "read", s, Nobody)
  /\ UNCHANGED <<session, preference, limit, greetings, requests>>

(* autoCloseForQueueAbandonment and closeAbandonedVisitorSession read the  *)
(* session first.                                                          *)
AbandonClose(t, s) ==
  /\ task[t].at = "idle"
  /\ abandon[s] = "closing"
  /\ abandon' = [abandon EXCEPT ![s] = "none"]
  /\ Begin(t, "abandon", "read", s, Nobody)
  /\ UNCHANGED <<session, preference, limit, inactivity, queueWait, grace, greetings, requests>>

GraceClose(t, s) ==
  /\ task[t].at = "idle"
  /\ s \in grace
  /\ grace' = grace \ {s}
  /\ Begin(t, "vanish", "read", s, Nobody)
  /\ UNCHANGED <<session, preference, limit, inactivity, abandon, queueWait, greetings, requests>>

-----------------------------------------------------------------------------
(* Requests of visitors *)

(* startSession creates the row; ids grow with age (FIFO by startedAt). *)
VisitorStart(t) ==
  /\ Receives("start", t)
  /\ \E s \in Sessions :
       /\ session[s].status = "none"
       /\ \A r \in 1 .. s - 1 : session[r].status # "none"
       /\ session' = [session EXCEPT ![s].status = "open"]
       /\ Begin(t, "start", "pick", s, Nobody)
  /\ UNCHANGED <<preference, limit, timers, greetings>>

Known(s) == session[s].status # "none"

(* A message is saved (whatever the session's status) before the session   *)
(* is read.                                                                *)
VisitorMessage(t, s) ==
  /\ Receives("message", t) /\ Known(s)
  /\ Begin(t, "message", "read", s, Nobody)
  /\ UNCHANGED <<session, preference, limit, timers, greetings>>

VisitorFormActivity(t, s) ==
  /\ Receives("form", t) /\ Known(s)
  /\ Begin(t, "form", "read", s, Nobody)
  /\ UNCHANGED <<session, preference, limit, timers, greetings>>

VisitorRejoin(t, s) ==
  /\ Receives("rejoin", t) /\ Known(s)
  /\ Begin(t, "rejoin", "read", s, Nobody)
  /\ UNCHANGED <<session, preference, limit, timers, greetings>>

VisitorCloseSession(t, s) ==
  /\ Receives("visitorClose", t) /\ Known(s)
  /\ Begin(t, "visitorClose", "close", s, Nobody)
  /\ ClearSessionTimers(s)
  /\ UNCHANGED <<session, preference, limit, greetings>>

VisitorLeaveContactInfo(t, s) ==
  /\ Receives("leave", t) /\ Known(s)
  /\ queueWait' = queueWait \ {s}
  /\ Begin(t, "leave", "read", s, Nobody)
  /\ UNCHANGED <<session, preference, limit, inactivity, abandon, grace, greetings>>

(* The visitor's socket drops (handleDisconnect). *)
VisitorDisconnect(s) ==
  /\ "disconnect" \in Handlers /\ Known(s)
  /\ requests < MaxRequests /\ requests' = requests + 1
  /\ grace' = grace \cup {s}
  /\ UNCHANGED <<session, preference, limit, inactivity, abandon, queueWait, greetings, task>>

-----------------------------------------------------------------------------
(* Requests of operators *)

(* handleOperatorJoin, from the registration on: a fresh join is online, a *)
(* reconnect keeps the preference; then the queue is drained.              *)
OperatorJoin(t, o) ==
  /\ Receives("join", t)
  /\ preference' = [preference EXCEPT ![o] = IF @ = "offline" THEN "online" ELSE @]
  /\ Begin(t, "join", "drain", 0, o)
  /\ UNCHANGED <<session, limit, timers, greetings>>

(* Mutant: going back online does not drain the queue. *)
SetStatusUndrained(t, o) ==
  /\ Receives("status", t)
  /\ preference[o] # "offline"
  /\ \E wish \in {"online", "away", "busy"} : preference' = [preference EXCEPT ![o] = wish]
  /\ Begin(t, "status", "sync", 0, o)
  /\ UNCHANGED <<session, limit, timers, greetings>>

SetStatus(t, o) ==
  /\ Receives("status", t)
  /\ preference[o] # "offline"
  /\ \E wish \in {"online", "away", "busy"} :
       /\ preference' = [preference EXCEPT ![o] = wish]
       /\ Begin(t, "status", IF wish = "online" THEN "drain" ELSE "sync", 0, o)
  /\ UNCHANGED <<session, limit, timers, greetings>>

(* markOperatorOffline: the grace window after a disconnect has passed, or *)
(* the operator logged out.  The rotation is synced afterwards.            *)
OperatorOffline(t, o) ==
  /\ Receives("offline", t)
  /\ preference[o] # "offline"
  /\ preference' = [preference EXCEPT ![o] = "offline"]
  /\ Begin(t, "offline", "sync", 0, o)
  /\ UNCHANGED <<session, limit, timers, greetings>>

OperatorJoinSession(t, s, o) ==
  /\ Receives("claim", t) /\ Known(s)
  /\ Begin(t, "claim", "read", s, o)
  /\ UNCHANGED <<session, preference, limit, timers, greetings>>

OperatorMessage(t, s, o) ==
  /\ Receives("reply", t) /\ Known(s)
  /\ Begin(t, "reply", "read", s, o)
  /\ UNCHANGED <<session, preference, limit, timers, greetings>>

(* Any operator may close any session ("closeAny"); "closeOwn" is a team   *)
(* whose operators only close the chats assigned to themselves.            *)
OperatorCloseSession(t, s, o) ==
  /\ \/ Receives("closeAny", t)
     \/ Receives("closeOwn", t) /\ session[s].operator = o
  /\ Known(s)
  /\ Begin(t, "operatorClose", "close", s, o)
  /\ ClearSessionTimers(s)
  /\ UNCHANGED <<session, preference, limit, greetings>>

ReopenSession(t, s) ==
  /\ Receives("reopen", t) /\ Known(s)
  /\ session' = [session EXCEPT ![s].status = "open"]
  /\ Begin(t, "reopen", "arm", s, Nobody)
  /\ UNCHANGED <<preference, limit, timers, greetings>>

-----------------------------------------------------------------------------
(* The REST controller changes the rows and nothing else. *)

RestClose(s) ==
  /\ "restClose" \in Handlers /\ Known(s)
  /\ requests < MaxRequests /\ requests' = requests + 1
  /\ session' = [session EXCEPT ![s].status = "closed", ![s].reason = "operator_closed"]
  /\ UNCHANGED <<preference, limit, timers, greetings, task>>

RestReopen(s) ==
  /\ "restReopen" \in Handlers /\ Known(s)
  /\ requests < MaxRequests /\ requests' = requests + 1
  /\ session' = [session EXCEPT ![s].status = "open"]
  /\ UNCHANGED <<preference, limit, timers, greetings, task>>

RestAssign(t, s) ==
  /\ Receives("restAssign", t) /\ Known(s)
  /\ \E o \in Operators \cup {Nobody} : Begin(t, "assign", "stamp", s, o)
  /\ UNCHANGED <<session, preference, limit, timers, greetings>>

(* updateChatConfig, then the cache is refreshed; no queue is drained. *)
SaveLimit ==
  /\ "config" \in Handlers
  /\ requests < MaxRequests /\ requests' = requests + 1
  /\ limit' \in Limits
  /\ UNCHANGED <<session, preference, timers, greetings, task>>

(* The process dies and boots again: every map and every handler is gone.  *)
Restart ==
  /\ "restart" \in Handlers
  /\ requests < MaxRequests /\ requests' = requests + 1
  /\ preference' = [o \in Operators |-> "offline"]
  /\ inactivity' = [s \in Sessions |-> "none"]
  /\ abandon' = [s \in Sessions |-> "none"]
  /\ queueWait' = {}
  /\ grace' = {}
  /\ task' = [t \in Tasks |-> Idle]
  /\ UNCHANGED <<session, limit, greetings>>

-----------------------------------------------------------------------------
(* The handlers that read the session first *)

ReadSession(t) ==
  /\ task[t].at = "read"
  /\ task[t].handler \in {"message", "form", "rejoin", "leave", "abandon", "vanish"}
  /\ task' = [task EXCEPT ![t].at = "react", ![t].seen = session[task[t].s]]
  /\ UNCHANGED <<session, preference, limit, timers, greetings, requests>>

Reacts(t, handler) == task[t].at = "react" /\ task[t].handler = handler

StillQueued(row) == row.status = "open" /\ row.operator = Nobody

MessageReacts(t) ==
  /\ Reacts(t, "message")
  /\ IF task[t].seen.operator # Nobody
       THEN ArmInactivity(task[t].s) /\ UNCHANGED abandon
       ELSE ArmAbandon(task[t].s) /\ UNCHANGED inactivity
  /\ End(t)
  /\ UNCHANGED <<session, preference, limit, queueWait, grace, greetings, requests>>

FormReacts(t) ==
  /\ Reacts(t, "form")
  /\ IF StillQueued(task[t].seen) THEN ArmAbandon(task[t].s) ELSE UNCHANGED abandon
  /\ End(t)
  /\ UNCHANGED <<session, preference, limit, inactivity, queueWait, grace, greetings, requests>>

(* A rejoin first takes back the grace timer; then it fetches the messages *)
(* and arms what this process does not have, by the row it read before.    *)
RejoinReacts(t) ==
  /\ Reacts(t, "rejoin")
  /\ grace' = grace \ {task[t].s}
  /\ task' = [task EXCEPT ![t].at = "rearm"]
  /\ UNCHANGED <<session, preference, limit, inactivity, abandon, queueWait, greetings, requests>>

(* Mutant: a rejoin has no thought for a session in the queue. *)
RejoinRearmsActiveOnly(t) ==
  /\ task[t].at = "rearm"
  /\ IF /\ task[t].seen.status = "open" /\ task[t].seen.operator # Nobody
        /\ inactivity[task[t].s] = "none"
       THEN ArmInactivity(task[t].s) ELSE UNCHANGED inactivity
  /\ End(t)
  /\ UNCHANGED <<session, preference, limit, abandon, queueWait, grace, greetings, requests>>

RejoinRearms(t) ==
  LET s == task[t].s
      row == task[t].seen
  IN
  /\ task[t].at = "rearm"
  /\ IF row.status = "open" /\ row.operator # Nobody /\ inactivity[s] = "none"
       THEN ArmInactivity(s) ELSE UNCHANGED inactivity
  /\ IF StillQueued(row) /\ s \notin queueWait THEN ArmQueueWait(s) ELSE UNCHANGED queueWait
  /\ IF StillQueued(row) /\ abandon[s] = "none" THEN ArmAbandon(s) ELSE UNCHANGED abandon
  /\ End(t)
  /\ UNCHANGED <<session, preference, limit, grace, greetings, requests>>

(* Who goes on to the close after reading: a visitor who leaves contact    *)
(* details, a queued session given up, a visitor who never came back.      *)
GoesOnToClose(t) ==
  \/ Reacts(t, "leave")
  \/ Reacts(t, "abandon") /\ StillQueued(task[t].seen)
  \/ Reacts(t, "vanish") /\ task[t].seen.status = "open"

CloseAfterRead(t) ==
  /\ GoesOnToClose(t)
  /\ ClearSessionTimers(task[t].s)
  /\ Go(t, "close")
  /\ UNCHANGED <<session, preference, limit, greetings, requests>>

NothingToClose(t) ==
  /\ Reacts(t, "abandon") \/ Reacts(t, "vanish")
  /\ ~GoesOnToClose(t)
  /\ End(t)
  /\ UNCHANGED <<session, preference, limit, timers, greetings, requests>>

(* operator:join_session claims an open unassigned session for whoever     *)
(* opens it, supervisors excepted, however many chats they have.           *)
ClaimReads(t) ==
  /\ task[t].at = "read" /\ task[t].handler = "claim"
  /\ IF StillQueued(session[task[t].s]) /\ task[t].o \notin Supervisors
       THEN Go(t, "stamp") ELSE End(t)
  /\ UNCHANGED <<session, preference, limit, timers, greetings, requests>>

(* operator:message claims an unassigned session below the limit, and      *)
(* otherwise is for the assigned operator and for supervisors.             *)
ReplyReads(t) ==
  LET o == task[t].o
      holder == session[task[t].s].operator
  IN
  /\ task[t].at = "read" /\ task[t].handler = "reply"
  /\ \/ holder = Nobody /\ o \notin Supervisors /\ Go(t, "capacity")
     \/ holder = o /\ Go(t, "arm")
     \/ holder \notin {Nobody, o} /\ o \in Supervisors /\ Go(t, "arm")
     \/ holder = Nobody /\ o \in Supervisors /\ End(t)
     \/ holder \notin {Nobody, o} /\ o \notin Supervisors /\ End(t)
  /\ UNCHANGED <<session, preference, limit, timers, greetings, requests>>

ReplyCounts(t) ==
  /\ task[t].at = "capacity"
  /\ IF Load(task[t].o) < limit THEN Go(t, "stamp") ELSE End(t)
  /\ UNCHANGED <<session, preference, limit, timers, greetings, requests>>

-----------------------------------------------------------------------------
(* Assignment: assignOperator reads assignedAt and then updates the row,   *)
(* with no condition on what the row has become meanwhile.                 *)

Stamp(t) ==
  /\ task[t].at = "stamp"
  /\ task' = [task EXCEPT ![t].at = "assign", ![t].seen = session[task[t].s]]
  /\ UNCHANGED <<session, preference, limit, timers, greetings, requests>>

(* Handlers that hand sessions out of the queue on their own account. *)
Draining == {"join", "status", "drain"}
Automatic(t) == task[t].handler \in Draining \cup {"start"}

(* Mutant: only a reassignment stamps assignedAt. *)
AssignedStampedLate(row, o, read) ==
  [row EXCEPT !.operator = o,
              !.stamps = IF o # Nobody /\ read.operator # Nobody /\ read.stamps = 0
                           THEN @ + 1 ELSE @]

Assigned(row, o, read) ==
  [row EXCEPT !.operator = o,
              !.stamps = IF o # Nobody /\ read.stamps = 0 THEN @ + 1 ELSE @]

Assign(t) ==
  LET s == task[t].s IN
  /\ task[t].at = "assign"
  /\ session' = [session EXCEPT ![s] = Assigned(@, task[t].o, task[t].seen)]
  /\ \/ Automatic(t) /\ Go(t, "notify")
     \/ task[t].handler = "reply" /\ Go(t, "arm")
     \/ task[t].handler \in {"claim", "assign"} /\ End(t)
  /\ UNCHANGED <<preference, limit, timers, greetings, requests>>

(* notifyAssignment: the waiting is over; greet, then start the countdown. *)
Notify(t) ==
  /\ task[t].at = "notify"
  /\ abandon' = [abandon EXCEPT ![task[t].s] = "none"]
  /\ queueWait' = queueWait \ {task[t].s}
  /\ Go(t, IF "greeting" \in Enabled THEN "greet" ELSE "arm")
  /\ UNCHANGED <<session, preference, limit, inactivity, grace, greetings, requests>>

Greet(t) ==
  /\ task[t].at = "greet"
  /\ greetings' = [greetings EXCEPT ![task[t].s] = @ + 1]
  /\ Go(t, "arm")
  /\ UNCHANGED <<session, preference, limit, timers, requests>>

(* Mutant: the drain does not count what it has assigned. *)
ArmUncounted(t) ==
  /\ task[t].at = "arm"
  /\ ArmInactivity(task[t].s)
  /\ \/ task[t].handler = "start" /\ Go(t, "recheck")
     \/ /\ task[t].handler \in Draining
        /\ task' = [task EXCEPT ![t].at = "take", ![t].s = 0, ![t].seen = NoSession]
     \/ task[t].handler \in {"reply", "reopen"} /\ End(t)
  /\ UNCHANGED <<session, preference, limit, abandon, queueWait, grace, greetings, requests>>

(* The inactivity countdown starts; a new session is read once more, a     *)
(* drain goes for the next in the queue, a reply or a reopening is done.   *)
Arm(t) ==
  /\ task[t].at = "arm"
  /\ ArmInactivity(task[t].s)
  /\ \/ task[t].handler = "start" /\ Go(t, "recheck")
     \/ /\ task[t].handler \in Draining
        /\ task' = [task EXCEPT ![t].at = "take", ![t].s = 0, ![t].n = @ + 1,
                                ![t].seen = NoSession]
     \/ task[t].handler \in {"reply", "reopen"} /\ End(t)
  /\ UNCHANGED <<session, preference, limit, abandon, queueWait, grace, greetings, requests>>

-----------------------------------------------------------------------------
(* tryAssignSession, for a session that has just started *)

(* computeEligibleOperatorIds *)
Eligible == {o \in Operators \ Supervisors : preference[o] = "online"}

Pick(t) ==
  /\ task[t].at = "pick"
  /\ task' = [task EXCEPT ![t].pool = Eligible,
                          ![t].at = IF Eligible = {} THEN "recheck" ELSE "counts"]
  /\ UNCHANGED <<session, preference, limit, timers, greetings, requests>>

(* Mutant: at the limit still counts as having room. *)
PickCountsOneMore(t) ==
  /\ task[t].at = "counts"
  /\ task' = [task EXCEPT ![t].at = "rotate", ![t].pool = {o \in @ : Load(o) <= limit}]
  /\ UNCHANGED <<session, preference, limit, timers, greetings, requests>>

PickCounts(t) ==
  /\ task[t].at = "counts"
  /\ task' = [task EXCEPT ![t].at = "rotate", ![t].pool = {o \in @ : Load(o) < limit}]
  /\ UNCHANGED <<session, preference, limit, timers, greetings, requests>>

(* The rotation (module OperatorRotation) names somebody under capacity.   *)
(* It names nobody when there is none, or when another call in flight      *)
(* changed the list under it.                                              *)
PickRotates(t) ==
  /\ task[t].at = "rotate"
  /\ \/ \E o \in task[t].pool :
          task' = [task EXCEPT ![t].at = "stamp", ![t].o = o, ![t].pool = {}]
     \/ /\ task[t].pool = {} \/ \E u \in Tasks \ {t} : task[u].at # "idle"
        /\ task' = [task EXCEPT ![t].at = "recheck", ![t].pool = {}]
  /\ UNCHANGED <<session, preference, limit, timers, greetings, requests>>

(* handleVisitorStart reads the row again and, if it is still unassigned,  *)
(* starts the countdowns of the queue.                                     *)
Recheck(t) ==
  /\ task[t].at = "recheck"
  /\ task' = [task EXCEPT ![t].at = "park", ![t].seen = session[task[t].s]]
  /\ UNCHANGED <<session, preference, limit, timers, greetings, requests>>

Park(t) ==
  /\ task[t].at = "park"
  /\ IF task[t].seen.operator = Nobody
       THEN ArmQueueWait(task[t].s) /\ ArmAbandon(task[t].s)
       ELSE UNCHANGED <<queueWait, abandon>>
  /\ End(t)
  /\ UNCHANGED <<session, preference, limit, inactivity, grace, greetings, requests>>

-----------------------------------------------------------------------------
(* Closing and draining *)

Reason(handler) ==
  CASE handler \in {"visitorClose", "leave", "vanish"} -> "client_closed"
    [] handler = "operatorClose" -> "operator_closed"
    [] handler \in {"inactivity", "abandon"} -> "inactivity_timeout"

(* closeSessionWithResolution updates the row whatever its status.  Whose  *)
(* capacity is then refilled: the closing operator's, or else that of the  *)
(* operator the row names.                                                 *)
Close(t) ==
  LET s == task[t].s
      drainFor == IF task[t].o # Nobody THEN task[t].o ELSE session[s].operator
  IN
  /\ task[t].at = "close"
  /\ session' = [session EXCEPT ![s].status = "closed", ![s].reason = Reason(task[t].handler)]
  /\ IF drainFor = Nobody THEN End(t) ELSE Begin(t, "drain", "drain", 0, drainFor)
  /\ UNCHANGED <<preference, limit, timers, greetings, requests>>

(* operator:join and operator:set_status end by syncing the rotation. *)
DrainEnds(t) ==
  IF task[t].handler = "drain" THEN End(t)
  ELSE Begin(t, task[t].handler, "sync", 0, task[t].o)

(* Mutant: the drain does not ask whether this is a supervisor. *)
DrainForSupervisors(t) ==
  /\ task[t].at = "drain"
  /\ IF preference[task[t].o] \in {"away", "busy"} THEN DrainEnds(t) ELSE Go(t, "count")
  /\ UNCHANGED <<session, preference, limit, timers, greetings, requests>>

(* drainQueue leaves out operators who are away or busy, and supervisors;  *)
(* an operator without an entry (offline) passes.                          *)
Drain(t) ==
  /\ task[t].at = "drain"
  /\ IF preference[task[t].o] \in {"away", "busy"} \/ task[t].o \in Supervisors
       THEN DrainEnds(t)
       ELSE Go(t, "count")
  /\ UNCHANGED <<session, preference, limit, timers, greetings, requests>>

DrainCounts(t) ==
  /\ task[t].at = "count"
  /\ task' = [task EXCEPT ![t].at = "take", ![t].n = Load(task[t].o)]
  /\ UNCHANGED <<session, preference, limit, timers, greetings, requests>>

(* Mutant: the queue is read the other way round. *)
Newest(s) == Waiting(s) /\ \A r \in Sessions : Waiting(r) => r <= s

(* getNextQueuedSession *)
Oldest(s) == Waiting(s) /\ \A r \in Sessions : Waiting(r) => s <= r

DrainTakes(t) ==
  /\ task[t].at = "take"
  /\ \/ /\ task[t].n < limit
        /\ \E s \in Sessions :
             Oldest(s) /\ task' = [task EXCEPT ![t].at = "stamp", ![t].s = s]
     \/ /\ task[t].n >= limit \/ \A s \in Sessions : ~Waiting(s)
        /\ DrainEnds(t)
  /\ UNCHANGED <<session, preference, limit, timers, greetings, requests>>

(* broadcastQueue: the rotation is read and synced; nothing changes here.  *)
Sync(t) ==
  /\ task[t].at = "sync"
  /\ End(t)
  /\ UNCHANGED <<session, preference, limit, timers, greetings, requests>>

(* The command a handler waits for is rejected, or was carried out and its *)
(* answer is lost: the handler's catch logs, and what was still to do is   *)
(* not done.  operator:join goes on to sync the rotation.                  *)
Fail(t) ==
  /\ "fail" \in Handlers
  /\ requests < MaxRequests /\ requests' = requests + 1
  /\ task[t].at \notin {"idle", "pick"}
  /\ IF task[t].handler = "join" /\ task[t].at # "sync" THEN DrainEnds(t) ELSE End(t)
  /\ UNCHANGED <<session, preference, limit, timers, greetings>>

-----------------------------------------------------------------------------

Requests(t) ==
  \/ VisitorStart(t)
  \/ \E o \in Operators : OperatorJoin(t, o) \/ SetStatus(t, o) \/ OperatorOffline(t, o)
  \/ \E s \in Sessions :
       \/ VisitorMessage(t, s) \/ VisitorFormActivity(t, s) \/ VisitorRejoin(t, s)
       \/ VisitorCloseSession(t, s) \/ VisitorLeaveContactInfo(t, s)
       \/ ReopenSession(t, s) \/ RestAssign(t, s)
       \/ \E o \in Operators :
            \/ OperatorJoinSession(t, s, o) \/ OperatorMessage(t, s, o)
            \/ OperatorCloseSession(t, s, o)

Instant ==
  \/ \E s \in Sessions : VisitorDisconnect(s) \/ RestClose(s) \/ RestReopen(s)
  \/ SaveLimit
  \/ Restart

Step(t) ==
  \/ ReadSession(t) \/ MessageReacts(t) \/ FormReacts(t) \/ RejoinReacts(t)
  \/ RejoinRearms(t) \/ CloseAfterRead(t) \/ NothingToClose(t)
  \/ ClaimReads(t) \/ ReplyReads(t) \/ ReplyCounts(t)
  \/ Stamp(t) \/ Assign(t) \/ Notify(t) \/ Greet(t) \/ Arm(t)
  \/ Pick(t) \/ PickCounts(t) \/ PickRotates(t) \/ Recheck(t) \/ Park(t)
  \/ Close(t) \/ Drain(t) \/ DrainCounts(t) \/ DrainTakes(t) \/ Sync(t)

TimersFire(s) ==
  \/ InactivityWarning(s) \/ AbandonWarning(s) \/ QueueWaitMessage(s)
  \/ \E t \in Tasks : InactivityClose(t, s) \/ AbandonClose(t, s) \/ GraceClose(t, s)

Next ==
  \/ \E t \in Tasks : Requests(t) \/ Step(t) \/ Fail(t)
  \/ \E s \in Sessions : TimersFire(s)
  \/ Instant

Spec == Init /\ [][Next]_vars

(* The database answers, and a timer that stays armed fires.  Requests are *)
(* up to the visitors and operators: no fairness.                          *)
Fairness ==
  /\ \A t \in Tasks : WF_vars(Step(t))
  /\ \A s \in Sessions :
       /\ WF_vars(InactivityWarning(s)) /\ WF_vars(AbandonWarning(s))
       /\ SF_vars(\E t \in Tasks : InactivityClose(t, s))
       /\ SF_vars(\E t \in Tasks : AbandonClose(t, s))

FairSpec == Spec /\ Fairness

-----------------------------------------------------------------------------
(* Properties *)

SessionType ==
  [status : {"none", "open", "closed"}, operator : Operators \cup {Nobody},
   stamps : Nat, reason : Reasons]

OfSession == {"read", "react", "rearm", "capacity", "stamp", "assign", "notify",
              "greet", "arm", "pick", "counts", "rotate", "recheck", "park", "close"}

OfOperator == {"drain", "count", "take", "sync"}

Places == {"idle"} \cup OfSession \cup OfOperator

HandlerNames ==
  {"none", "start", "message", "form", "rejoin", "visitorClose", "leave",
   "inactivity", "abandon", "vanish", "join", "status", "offline", "claim",
   "reply", "operatorClose", "reopen", "assign", "drain"}

TaskType ==
  [at : Places, handler : HandlerNames, s : 0 .. NumSessions,
   o : Operators \cup {Nobody}, pool : SUBSET Operators, n : Nat, seen : SessionType]

(* The rows, the maps and the handlers in flight keep their types.  A      *)
(* handler that works on a session has one, and one that drains the queue  *)
(* has an operator to drain it for (the drainFor guard of the close).      *)
TypeOK ==
  /\ session \in [Sessions -> SessionType]
  /\ preference \in [Operators -> {"online", "away", "busy", "offline"}]
  /\ limit \in Nat
  /\ inactivity \in [Sessions -> Stages]
  /\ abandon \in [Sessions -> Stages]
  /\ queueWait \subseteq Sessions
  /\ grace \subseteq Sessions
  /\ greetings \in [Sessions -> Nat]
  /\ task \in [Tasks -> TaskType]
  /\ requests \in Nat
  /\ \A t \in Tasks :
       /\ task[t].at \in OfSession => task[t].s \in Sessions
       /\ task[t].at \in OfOperator => task[t].o \in Operators

(* A session that has an operator has the time of its first pickup, so the *)
(* waiting time of the report is never missing: assignOperator reads       *)
(* assignedAt and writes the row in two commands, between which any number *)
(* of other handlers may assign the session or take the operator away.     *)
AssignedIsStamped ==
  \A s \in Sessions : session[s].operator # Nobody => session[s].stamps > 0

(* PATCH sessions/:id/assign is about to write session s. *)
ByRest(s) ==
  \E t \in Tasks : task[t].at = "assign" /\ task[t].handler = "assign" /\ task[t].s = s

(* Nobody but the REST endpoint makes a supervisor the operator of a chat: *)
(* not the rotation, not a drain after a join, a status change or a close, *)
(* not a claim and not a reply.                                            *)
SupervisorsByRestOnly ==
  [][\A s \in Sessions :
       session'[s].operator \in Supervisors /\ session'[s].operator # session[s].operator
       => ByRest(s)]_vars

(* How far handlers that count at the same time can overshoot the limit:   *)
(* each of them fills the operator up once, by the count it took.          *)
OvershootBounded == \A o \in Operators : Load(o) <= Cardinality(Tasks) * limit

Quiet == \A t \in Tasks : task[t].at = "idle"

(* When no handler is at work, nobody waits while an eligible operator has *)
(* room: every path that frees capacity drains the queue.                  *)
NoIdleCapacity ==
  Quiet => ~ \E s \in Sessions, o \in Eligible : Waiting(s) /\ Load(o) < limit

(* The queue is first in, first out: visitors are served as WaitingLine    *)
(* promises, whatever is closed, given up or drained in between.           *)
Line == INSTANCE WaitingLine WITH
          NumVisitors <- NumSessions,
          line <- {s \in Sessions : session[s].status = "open" /\ session[s].operator = Nobody},
          served <- {s \in Sessions : session[s].status = "open" /\ session[s].operator # Nobody},
          entered <- Cardinality({s \in Sessions : session[s].status # "none"})

ServedInOrder == Line!Spec
=============================================================================
