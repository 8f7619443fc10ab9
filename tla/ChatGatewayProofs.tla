-------------------------- MODULE ChatGatewayProofs --------------------------
(***************************************************************************)
(* What holds of the chat gateway for any number of operators, sessions    *)
(* and handlers in flight.  First the types, that an assigned session has  *)
(* its assignedAt, and that nobody but the REST endpoint assigns a chat to *)
(* a supervisor; then what the chat promises those who wait: limits,       *)
(* countdowns, one greeting, no idle operator beside a waiting visitor,    *)
(* and service in the order of arrival.                                    *)
(*                                                                         *)
(* The invariant of the first part (IInv) says of each handler in flight   *)
(* what it relies on: which session or operator it works for, that whoever *)
(* it is about to assign is no supervisor, and that the assignedAt it has  *)
(* read is not newer than the one the row has now.  A step changes one     *)
(* handler and never takes a stamp away, so the other handlers keep what   *)
(* they rely on (OneTask).                                                 *)
(*                                                                         *)
(* In the second part each property has an invariant of its own over what  *)
(* every handler in flight has read and is going to do, on top of IInv and *)
(* of two others that all of them need: which rows exist (KnownInv) and    *)
(* which handler can be at which place (RolesInv).  Then one lemma says    *)
(* for each invariant that steps keep it, action by action.                *)
(*                                                                         *)
(*   LimitInv      what an operator has, and what handlers have counted    *)
(*                 room for, is a limit a handler at most                  *)
(*   CountsInv     what a handler goes by is still so, unless another step *)
(*                 has overtaken it                                        *)
(*   CountdownInv  an open session has its countdown, or the handler that  *)
(*                 is going to start it, or was forgotten by a restart     *)
(*   GreetedInv    a session has a greeting to come for each handler that  *)
(*                 has it in hand, and two have it only after they met     *)
(*   FairInv       with one handler: somebody waits beside room only       *)
(*                 while the handler is about to fill it                   *)
(*                                                                         *)
(* The hypotheses of the theorems name the requests under which the code   *)
(* does not keep the promise: with any one of them added TLC finds a       *)
(* counterexample.  CountsInv and GreetedInv need none: they speak of      *)
(* whatever is in flight, and use the histories of ChatCrossings.          *)
(***************************************************************************)
EXTENDS ChatCrossings, FiniteSetTheorems, TLAPS

Closing == {"visitorClose", "leave", "vanish", "operatorClose", "inactivity", "abandon"}

(* The operator a handler has settled on is no supervisor. *)
Staffs(k) ==
  /\ k.at \in {"counts", "rotate"} => k.pool \cap Supervisors = {}
  /\ k.at \in {"capacity", "stamp", "assign"} /\ k.handler # "assign" => k.o \notin Supervisors
  /\ k.at \in {"notify", "greet", "arm"} /\ k.handler \in Draining => k.o \notin Supervisors
  /\ k.at \in {"count", "take"} => k.o \notin Supervisors

Placed(k) ==
  /\ k.at \in OfSession => k.s \in Sessions
  /\ k.at \in OfOperator => k.o \in Operators
  /\ k.handler \in Draining => k.o \in Operators
  /\ k.at = "close" => k.handler \in Closing
  /\ k.at = "react" => k.handler \in {"message", "form", "rejoin", "leave", "abandon", "vanish"}

TaskOK(k, rows) ==
  /\ k \in TaskType
  /\ Placed(k)
  /\ Staffs(k)
  /\ k.at = "assign" => k.seen.stamps <= rows[k.s].stamps

RowsOK(rows) ==
  /\ rows \in [Sessions -> SessionType]
  /\ \A s \in Sessions : rows[s].operator # Nobody => rows[s].stamps > 0

MapsOK ==
  /\ preference \in [Operators -> {"online", "away", "busy", "offline"}]
  /\ limit \in Nat
  /\ inactivity \in [Sessions -> Stages]
  /\ abandon \in [Sessions -> Stages]
  /\ queueWait \subseteq Sessions
  /\ grace \subseteq Sessions
  /\ greetings \in [Sessions -> Nat]
  /\ requests \in Nat

IInv ==
  /\ RowsOK(session)
  /\ MapsOK
  /\ task \in [Tasks -> TaskType]
  /\ \A t \in Tasks : TaskOK(task[t], session)

(* No row loses a stamp. *)
KeepsStamps == \A s \in Sessions : session[s].stamps <= session'[s].stamps

-----------------------------------------------------------------------------
(* Steps of one handler *)

(* A handler that relies on rows may rely on later ones. *)
LEMMA TaskOKLater ==
  ASSUME IInv, NEW u \in Tasks, RowsOK(session'), KeepsStamps
  PROVE  TaskOK(task[u], session')
<1>1. TaskOK(task[u], session) /\ task[u] \in TaskType
  BY DEF IInv
<1>2. CASE task[u].at # "assign"
  BY <1>1, <1>2 DEF TaskOK
<1>3. CASE task[u].at = "assign"
  <2>1. task[u].s \in Sessions
    BY <1>1, <1>3 DEF TaskOK, Placed, OfSession
  <2>2. /\ session[task[u].s] \in SessionType
        /\ session'[task[u].s] \in SessionType
        /\ task[u].seen \in SessionType
    BY <1>1, <2>1 DEF IInv, RowsOK, TaskType
  <2>3. /\ task[u].seen.stamps \in Nat
        /\ session[task[u].s].stamps \in Nat
        /\ session'[task[u].s].stamps \in Nat
    BY <2>2 DEF SessionType
  <2>4. task[u].seen.stamps <= session'[task[u].s].stamps
    BY <1>1, <1>3, <2>1, <2>3 DEF TaskOK, KeepsStamps
  <2> QED
    BY <1>1, <2>4 DEF TaskOK
<1> QED
  BY <1>2, <1>3

LEMMA OneTask ==
  ASSUME IInv, NEW t \in Tasks, NEW k, task' = [task EXCEPT ![t] = k], TaskOK(k, session'),
         RowsOK(session'), MapsOK', KeepsStamps
  PROVE  IInv'
<1>1. k \in TaskType
  BY DEF TaskOK
<1>2. task' \in [Tasks -> TaskType]
  BY <1>1 DEF IInv
<1>3. ASSUME NEW u \in Tasks PROVE TaskOK(task'[u], session')
  <2>1. CASE u = t
    BY <2>1 DEF IInv
  <2>2. CASE u # t
    BY <2>2, TaskOKLater DEF IInv
  <2> QED
    BY <2>1, <2>2
<1> QED
  BY <1>2, <1>3 DEF IInv

LEMMA NoTask ==
  ASSUME IInv, UNCHANGED task, RowsOK(session'), MapsOK', KeepsStamps
  PROVE  IInv'
<1>1. ASSUME NEW u \in Tasks PROVE TaskOK(task'[u], session')
  BY TaskOKLater
<1> QED
  BY <1>1 DEF IInv

LEMMA IdleOK == NoSession \in SessionType /\ Idle \in TaskType
<1>1. NoSession \in SessionType
  BY DEF NoSession, SessionType, Reasons
<1>2. 0 \in 0 .. NumSessions
  BY BoundsAreCounts
<1> QED
  BY <1>1, <1>2 DEF Idle, TaskType, Places, HandlerNames

LEMMA EndStep ==
  ASSUME IInv, NEW t \in Tasks, End(t), RowsOK(session'), MapsOK', KeepsStamps
  PROVE  IInv'
<1>1. TaskOK(Idle, session')
  BY IdleOK DEF TaskOK, Placed, Staffs, Idle, OfSession, OfOperator, Draining
<1> QED
  BY <1>1, OneTask DEF End

(* A handler begins, or begins anew, somewhere before its assignment. *)
LEMMA BeginStep ==
  ASSUME IInv, NEW t \in Tasks, NEW handler \in HandlerNames,
         NEW at \in Places \ {"assign", "capacity", "count", "take"},
         NEW s \in 0 .. NumSessions, NEW o \in Operators \cup {Nobody},
         at \in OfSession => s \in Sessions,
         at \in OfOperator \/ handler \in Draining => o \in Operators,
         at = "close" => handler \in Closing,
         at \in {"react", "notify", "greet"} => FALSE,
         at = "arm" => handler = "reopen",
         at = "stamp" => handler = "assign",
         Begin(t, handler, at, s, o),
         RowsOK(session'), MapsOK', KeepsStamps
  PROVE  IInv'
<1> DEFINE k == [Idle EXCEPT !.at = at, !.handler = handler, !.s = s, !.o = o]
<1>1. k \in TaskType
  BY IdleOK DEF Idle, TaskType, Places, HandlerNames
<1>2. /\ k.at = at /\ k.handler = handler /\ k.s = s /\ k.o = o /\ k.pool = {}
  BY DEF Idle
<1>3. Placed(k)
  BY <1>2 DEF Placed
<1>4. Staffs(k)
  BY <1>2 DEF Staffs, Draining
<1>5. TaskOK(k, session')
  BY <1>1, <1>2, <1>3, <1>4 DEF TaskOK
<1>6. task' = [task EXCEPT ![t] = k]
  BY DEF Begin
<1> HIDE DEF k
<1> QED
  BY <1>5, <1>6, OneTask

(* A handler goes on with what it has, and forgets the row it had read. *)
LEMMA GoStep ==
  ASSUME IInv, NEW t \in Tasks,
         NEW at \in Places \ {"assign", "react"},
         at \in OfSession => task[t].s \in Sessions,
         at \in OfOperator => task[t].o \in Operators,
         at = "close" => task[t].handler \in Closing,
         at \in {"counts", "rotate"} => task[t].pool \cap Supervisors = {},
         at \in {"capacity", "stamp"} /\ task[t].handler # "assign"
           => task[t].o \notin Supervisors,
         at \in {"notify", "greet", "arm"} /\ task[t].handler \in Draining
           => task[t].o \notin Supervisors,
         at \in {"count", "take"} => task[t].o \notin Supervisors,
         Go(t, at),
         RowsOK(session'), MapsOK', KeepsStamps
  PROVE  IInv'
<1> DEFINE k == [task[t] EXCEPT !.at = at, !.seen = NoSession]
<1>1. TaskOK(task[t], session) /\ task[t] \in TaskType
  BY DEF IInv
<1>2. k \in TaskType
  BY <1>1, IdleOK DEF TaskType, Places
<1>3. /\ k.at = at /\ k.handler = task[t].handler /\ k.s = task[t].s
      /\ k.o = task[t].o /\ k.pool = task[t].pool
  BY <1>1 DEF TaskType
<1>4. Placed(k)
  BY <1>1, <1>3 DEF Placed, TaskOK
<1>5. Staffs(k)
  BY <1>3 DEF Staffs
<1>6. TaskOK(k, session')
  BY <1>2, <1>3, <1>4, <1>5 DEF TaskOK
<1>7. task' = [task EXCEPT ![t] = k]
  BY <1>1 DEF Go, IInv, TaskType
<1> HIDE DEF k
<1> QED
  BY <1>6, <1>7, OneTask

-----------------------------------------------------------------------------
(* The parts of the state *)

LEMMA Facts ==
  ASSUME IInv
  PROVE  /\ session \in [Sessions -> SessionType]
         /\ \A s \in Sessions : /\ session[s].stamps \in Nat
                                /\ session[s].operator \in Operators \cup {Nobody}
         /\ \A t \in Tasks : /\ task[t] \in TaskType
                             /\ task[t].s \in 0 .. NumSessions
                             /\ task[t].o \in Operators \cup {Nobody}
                             /\ task[t].handler \in HandlerNames
                             /\ task[t].at \in OfSession => task[t].s \in Sessions
                             /\ task[t].at \in OfOperator => task[t].o \in Operators
                             /\ task[t].handler \in Draining => task[t].o \in Operators
                             /\ Placed(task[t]) /\ Staffs(task[t])
BY DEF IInv, RowsOK, TaskOK, TaskType, SessionType, Placed

LEMMA InFlight ==
  ASSUME IInv, NEW t \in Tasks
  PROVE  /\ task[t] \in TaskType /\ Placed(task[t]) /\ Staffs(task[t])
         /\ task[t].at \in OfSession => task[t].s \in Sessions
         /\ task[t].at \in OfOperator => task[t].o \in Operators
         /\ task[t].handler \in Draining => task[t].o \in Operators
BY DEF IInv, TaskOK, Placed

LEMMA SameRows ==
  ASSUME IInv, UNCHANGED session
  PROVE  RowsOK(session') /\ KeepsStamps
<1>1. \A s \in Sessions : session[s].stamps \in Nat
  BY Facts
<1> QED
  BY <1>1 DEF IInv, KeepsStamps

LEMMA SameMaps ==
  ASSUME IInv, UNCHANGED <<preference, limit, timers, greetings>>, requests' \in Nat
  PROVE  MapsOK'
BY DEF IInv, MapsOK, timers

LEMMA ReceivesOK ==
  ASSUME IInv, NEW t \in Tasks, NEW handler, Receives(handler, t)
  PROVE  requests' \in Nat /\ requests' = requests + 1
BY DEF IInv, MapsOK, Receives

LEMMA SessionsAreNumbered == \A s \in Sessions : s \in 0 .. NumSessions
BY BoundsAreCounts DEF Sessions

LEMMA CountdownStages ==
  /\ \A a, b : StartOf(a, b) \in Stages
  /\ \A b : AfterWarning(b) \in Stages
BY DEF StartOf, AfterWarning, Stages

LEMMA ClearedTimers ==
  ASSUME IInv, NEW s \in Sessions, ClearSessionTimers(s),
         UNCHANGED <<preference, limit, greetings>>, requests' \in Nat
  PROVE  MapsOK'
BY DEF IInv, MapsOK, ClearSessionTimers, Stages

LEMMA PlacesSplit ==
  /\ OfSession \subseteq Places /\ OfOperator \subseteq Places /\ "idle" \in Places
  /\ OfSession \cap OfOperator = {}
BY DEF Places, OfSession, OfOperator

LEMMA Armed ==
  ASSUME IInv, NEW s \in Sessions
  PROVE  /\ ArmInactivity(s) => inactivity' \in [Sessions -> Stages]
         /\ ArmAbandon(s) => abandon' \in [Sessions -> Stages]
         /\ ArmQueueWait(s) => queueWait' \subseteq Sessions
BY CountdownStages DEF IInv, MapsOK, ArmInactivity, ArmAbandon, ArmQueueWait

-----------------------------------------------------------------------------
(* Timers *)

LEMMA WarningsPreserve ==
  ASSUME IInv, NEW s \in Sessions,
         InactivityWarning(s) \/ AbandonWarning(s) \/ QueueWaitMessage(s)
  PROVE  IInv'
<1>1. RowsOK(session') /\ KeepsStamps /\ UNCHANGED task
  BY SameRows DEF InactivityWarning, AbandonWarning, QueueWaitMessage
<1>2. MapsOK'
  BY CountdownStages
  DEF IInv, MapsOK, InactivityWarning, AbandonWarning, QueueWaitMessage
<1> QED
  BY <1>1, <1>2, NoTask

LEMMA ClosesFire ==
  ASSUME IInv, NEW s \in Sessions, NEW t \in Tasks,
         InactivityClose(t, s) \/ AbandonClose(t, s) \/ GraceClose(t, s)
  PROVE  IInv'
<1>1. RowsOK(session') /\ KeepsStamps
  BY SameRows DEF InactivityClose, AbandonClose, GraceClose
<1>2. s \in 0 .. NumSessions
  BY SessionsAreNumbered
<1>3. CASE InactivityClose(t, s)
  <2>1. MapsOK'
    BY <1>3, ClearedTimers DEF InactivityClose, IInv, MapsOK
  <2> QED
    BY <1>1, <1>2, <1>3, <2>1, BeginStep, PlacesSplit
    DEF InactivityClose, Closing, HandlerNames, Draining, OfSession, OfOperator
<1>4. CASE AbandonClose(t, s) \/ GraceClose(t, s)
  <2>1. MapsOK'
    BY <1>4 DEF AbandonClose, GraceClose, IInv, MapsOK, Stages
  <2> QED
    BY <1>1, <1>2, <1>4, <2>1, BeginStep, PlacesSplit
    DEF AbandonClose, GraceClose, HandlerNames, Draining, OfSession, OfOperator
<1> QED
  BY <1>3, <1>4

-----------------------------------------------------------------------------
(* Requests of visitors *)

(* A row that is opened or closed keeps its operator and its stamps. *)
LEMMA RowKept ==
  ASSUME IInv, NEW s \in Sessions,
         NEW status \in {"none", "open", "closed"}, NEW reason \in Reasons,
         session' = [session EXCEPT ![s] = [session[s] EXCEPT !.status = status, !.reason = reason]]
  PROVE  RowsOK(session') /\ KeepsStamps
<1>1. session \in [Sessions -> SessionType] /\ session[s] \in SessionType
  BY Facts
<1>2. session[s].stamps \in Nat /\ \A r \in Sessions : session[r].stamps \in Nat
  BY Facts
<1> DEFINE row == [session[s] EXCEPT !.status = status, !.reason = reason]
<1>3. /\ row \in SessionType
      /\ row.operator = session[s].operator /\ row.stamps = session[s].stamps
  BY <1>1 DEF SessionType
<1>4. session' = [session EXCEPT ![s] = row]
  OBVIOUS
<1> HIDE DEF row
<1>5. session' \in [Sessions -> SessionType]
  BY <1>1, <1>3, <1>4
<1>6. \A r \in Sessions : /\ session'[r].operator = session[r].operator
                          /\ session'[r].stamps = session[r].stamps
  BY <1>1, <1>3, <1>4
<1> QED
  BY <1>2, <1>5, <1>6 DEF IInv, RowsOK, KeepsStamps

LEMMA RowOpened ==
  ASSUME IInv, NEW s \in Sessions, session' = [session EXCEPT ![s].status = "open"]
  PROVE  RowsOK(session') /\ KeepsStamps
<1>1. session[s] \in SessionType
  BY Facts
<1>2. session[s].reason \in Reasons
  BY <1>1 DEF SessionType
<1>3. [session[s] EXCEPT !.status = "open"]
        = [session[s] EXCEPT !.status = "open", !.reason = session[s].reason]
  BY <1>1 DEF SessionType
<1> QED
  BY <1>2, <1>3, RowKept

LEMMA VisitorStartPreserves ==
  ASSUME IInv, NEW t \in Tasks, VisitorStart(t)
  PROVE  IInv'
<1>1. PICK s \in Sessions : /\ session' = [session EXCEPT ![s].status = "open"]
                            /\ Begin(t, "start", "pick", s, Nobody)
  BY DEF VisitorStart
<1>2. RowsOK(session') /\ KeepsStamps
  BY <1>1, RowOpened
<1>3. MapsOK'
  BY ReceivesOK, SameMaps DEF VisitorStart
<1> QED
  BY <1>1, <1>2, <1>3, BeginStep, PlacesSplit, SessionsAreNumbered
  DEF HandlerNames, Draining, OfSession, OfOperator

(* Requests that only read the session next. *)
LEMMA VisitorReadsPreserve ==
  ASSUME IInv, NEW t \in Tasks, NEW s \in Sessions,
         VisitorMessage(t, s) \/ VisitorFormActivity(t, s) \/ VisitorRejoin(t, s)
  PROVE  IInv'
<1>1. RowsOK(session') /\ KeepsStamps
  BY SameRows DEF VisitorMessage, VisitorFormActivity, VisitorRejoin
<1>2. MapsOK'
  BY ReceivesOK, SameMaps DEF VisitorMessage, VisitorFormActivity, VisitorRejoin
<1>3. PICK handler \in {"message", "form", "rejoin"} : Begin(t, handler, "read", s, Nobody)
  BY DEF VisitorMessage, VisitorFormActivity, VisitorRejoin
<1> QED
  BY <1>1, <1>2, <1>3, BeginStep, PlacesSplit, SessionsAreNumbered
  DEF HandlerNames, Draining, OfSession, OfOperator

LEMMA VisitorClosesPreserve ==
  ASSUME IInv, NEW t \in Tasks, NEW s \in Sessions,
         VisitorCloseSession(t, s) \/ VisitorLeaveContactInfo(t, s)
  PROVE  IInv'
<1>1. RowsOK(session') /\ KeepsStamps
  BY SameRows DEF VisitorCloseSession, VisitorLeaveContactInfo
<1>2. CASE VisitorCloseSession(t, s)
  <2>1. MapsOK'
    BY <1>2, ReceivesOK, ClearedTimers DEF VisitorCloseSession
  <2> QED
    BY <1>1, <1>2, <2>1, BeginStep, PlacesSplit, SessionsAreNumbered
    DEF VisitorCloseSession, Closing, HandlerNames, Draining, OfSession, OfOperator
<1>3. CASE VisitorLeaveContactInfo(t, s)
  <2>1. MapsOK'
    BY <1>3, ReceivesOK DEF VisitorLeaveContactInfo, IInv, MapsOK
  <2> QED
    BY <1>1, <1>3, <2>1, BeginStep, PlacesSplit, SessionsAreNumbered
    DEF VisitorLeaveContactInfo, HandlerNames, Draining, OfSession, OfOperator
<1> QED
  BY <1>2, <1>3

-----------------------------------------------------------------------------
(* Requests of operators *)

LEMMA PresencePreserves ==
  ASSUME IInv, NEW t \in Tasks, NEW o \in Operators,
         OperatorJoin(t, o) \/ SetStatus(t, o) \/ OperatorOffline(t, o)
  PROVE  IInv'
<1>1. RowsOK(session') /\ KeepsStamps
  BY SameRows DEF OperatorJoin, SetStatus, OperatorOffline
<1>2. MapsOK'
  BY ReceivesOK DEF OperatorJoin, SetStatus, OperatorOffline, IInv, MapsOK, timers
<1>3. PICK handler \in {"join", "status", "offline"}, at \in {"drain", "sync"} :
        Begin(t, handler, at, 0, o)
  BY DEF OperatorJoin, SetStatus, OperatorOffline
<1>4. 0 \in 0 .. NumSessions
  BY BoundsAreCounts
<1> QED
  BY <1>1, <1>2, <1>3, <1>4, BeginStep, PlacesSplit
  DEF HandlerNames, OfSession, OfOperator

LEMMA OperatorReadsPreserve ==
  ASSUME IInv, NEW t \in Tasks, NEW s \in Sessions, NEW o \in Operators,
         OperatorJoinSession(t, s, o) \/ OperatorMessage(t, s, o)
  PROVE  IInv'
<1>1. RowsOK(session') /\ KeepsStamps
  BY SameRows DEF OperatorJoinSession, OperatorMessage
<1>2. MapsOK'
  BY ReceivesOK, SameMaps DEF OperatorJoinSession, OperatorMessage
<1>3. PICK handler \in {"claim", "reply"} : Begin(t, handler, "read", s, o)
  BY DEF OperatorJoinSession, OperatorMessage
<1> QED
  BY <1>1, <1>2, <1>3, BeginStep, PlacesSplit, SessionsAreNumbered
  DEF HandlerNames, Draining, OfSession, OfOperator

LEMMA OperatorClosePreserves ==
  ASSUME IInv, NEW t \in Tasks, NEW s \in Sessions, NEW o \in Operators,
         OperatorCloseSession(t, s, o)
  PROVE  IInv'
<1>1. RowsOK(session') /\ KeepsStamps
  BY SameRows DEF OperatorCloseSession
<1>2. MapsOK'
  BY ReceivesOK, ClearedTimers DEF OperatorCloseSession
<1> QED
  BY <1>1, <1>2, BeginStep, PlacesSplit, SessionsAreNumbered
  DEF OperatorCloseSession, Closing, HandlerNames, Draining, OfSession, OfOperator

LEMMA ReopenPreserves ==
  ASSUME IInv, NEW t \in Tasks, NEW s \in Sessions, ReopenSession(t, s)
  PROVE  IInv'
<1>1. RowsOK(session') /\ KeepsStamps
  BY RowOpened DEF ReopenSession
<1>2. MapsOK'
  BY ReceivesOK, SameMaps DEF ReopenSession
<1> QED
  BY <1>1, <1>2, BeginStep, PlacesSplit, SessionsAreNumbered
  DEF ReopenSession, HandlerNames, Draining, OfSession, OfOperator

LEMMA RestAssignPreserves ==
  ASSUME IInv, NEW t \in Tasks, NEW s \in Sessions, RestAssign(t, s)
  PROVE  IInv'
<1>1. RowsOK(session') /\ KeepsStamps
  BY SameRows DEF RestAssign
<1>2. MapsOK'
  BY ReceivesOK, SameMaps DEF RestAssign
<1> QED
  BY <1>1, <1>2, BeginStep, PlacesSplit, SessionsAreNumbered
  DEF RestAssign, HandlerNames, Draining, OfSession, OfOperator

-----------------------------------------------------------------------------
(* Requests that are one command *)

LEMMA InstantPreserves ==
  ASSUME IInv, Instant
  PROVE  IInv'
<1> requests + 1 \in Nat
  BY DEF IInv, MapsOK
<1>1. ASSUME NEW s \in Sessions, VisitorDisconnect(s) PROVE IInv'
  <2>1. RowsOK(session') /\ KeepsStamps
    BY <1>1, SameRows DEF VisitorDisconnect
  <2>2. MapsOK'
    BY <1>1 DEF VisitorDisconnect, IInv, MapsOK
  <2> QED
    BY <1>1, <2>1, <2>2, NoTask DEF VisitorDisconnect
<1>2. ASSUME NEW s \in Sessions, RestClose(s) PROVE IInv'
  <2>1. RowsOK(session') /\ KeepsStamps
    BY <1>2, RowKept DEF RestClose, Reasons
  <2> QED
    BY <1>2, <2>1, SameMaps, NoTask DEF RestClose
<1>3. ASSUME NEW s \in Sessions, RestReopen(s) PROVE IInv'
  BY <1>3, RowOpened, SameMaps, NoTask DEF RestReopen
<1>4. CASE SaveLimit
  <2>1. MapsOK'
    BY <1>4, LimitsAreCounts DEF SaveLimit, IInv, MapsOK, timers
  <2> QED
    BY <1>4, <2>1, SameRows, NoTask DEF SaveLimit
<1>5. CASE Restart
  <2>1. RowsOK(session') /\ KeepsStamps
    BY <1>5, SameRows DEF Restart
  <2>2. MapsOK'
    BY <1>5 DEF Restart, IInv, MapsOK, Stages
  <2>3. TaskOK(Idle, session')
    BY IdleOK DEF TaskOK, Placed, Staffs, Idle, OfSession, OfOperator, Draining
  <2>4. task' = [t \in Tasks |-> Idle]
    BY <1>5 DEF Restart
  <2> QED
    BY <2>1, <2>2, <2>3, <2>4, IdleOK DEF IInv
<1> QED
  BY <1>1, <1>2, <1>3, <1>4, <1>5 DEF Instant

-----------------------------------------------------------------------------
(* The handlers that read the session first *)

(* A handler reads its row: what it has seen is no newer than the row. *)
LEMMA ReadsRow ==
  ASSUME IInv, NEW t \in Tasks, task[t].at \in OfSession,
         NEW at \in {"react", "assign", "park"},
         at = "react" => task[t].handler \in
                           {"message", "form", "rejoin", "leave", "abandon", "vanish"},
         at = "assign" => task[t].at = "stamp",
         task' = [task EXCEPT ![t].at = at, ![t].seen = session[task[t].s]],
         UNCHANGED <<session, preference, limit, timers, greetings, requests>>
  PROVE  IInv'
<1> DEFINE k == [task[t] EXCEPT !.at = at, !.seen = session[task[t].s]]
<1>1. task[t] \in TaskType /\ Placed(task[t]) /\ Staffs(task[t]) /\ task[t].s \in Sessions
  BY InFlight
<1>2. session[task[t].s] \in SessionType /\ session[task[t].s].stamps \in Nat
  BY <1>1, Facts
<1>3. at \in Places /\ at \in OfSession /\ at \notin OfOperator
  BY DEF Places, OfSession, OfOperator
<1>4. k \in TaskType
  BY <1>1, <1>2, <1>3 DEF TaskType
<1>5. /\ k.at = at /\ k.handler = task[t].handler /\ k.s = task[t].s
      /\ k.o = task[t].o /\ k.seen = session[task[t].s]
  BY <1>1 DEF TaskType
<1>6. task' = [task EXCEPT ![t] = k]
  BY <1>1 DEF IInv, TaskType
<1> HIDE DEF k
<1>7. Placed(k)
  BY <1>1, <1>3, <1>5 DEF Placed
<1>8. Staffs(k)
  BY <1>1, <1>5 DEF Staffs
<1>9. TaskOK(k, session')
  BY <1>2, <1>4, <1>5, <1>7, <1>8 DEF TaskOK
<1>10. MapsOK'
  BY SameMaps DEF IInv, MapsOK
<1> QED
  BY <1>6, <1>9, <1>10, SameRows, OneTask

LEMMA ReadSessionPreserves ==
  ASSUME IInv, NEW t \in Tasks, ReadSession(t)
  PROVE  IInv'
BY ReadsRow DEF ReadSession, OfSession

LEMMA StampPreserves ==
  ASSUME IInv, NEW t \in Tasks, Stamp(t)
  PROVE  IInv'
BY ReadsRow DEF Stamp, OfSession

LEMMA RecheckPreserves ==
  ASSUME IInv, NEW t \in Tasks, Recheck(t)
  PROVE  IInv'
BY ReadsRow DEF Recheck, OfSession

(* A handler that has a session in hand, and ends. *)
LEMMA ReactsPreserve ==
  ASSUME IInv, NEW t \in Tasks,
         MessageReacts(t) \/ FormReacts(t) \/ RejoinRearms(t) \/ NothingToClose(t) \/ Park(t)
  PROVE  IInv'
<1>1. task[t].s \in Sessions
  BY InFlight
  DEF MessageReacts, FormReacts, RejoinRearms, NothingToClose, Park, Reacts, OfSession
<1>2. RowsOK(session') /\ KeepsStamps
  BY SameRows DEF MessageReacts, FormReacts, RejoinRearms, NothingToClose, Park
<1>3. End(t)
  BY DEF MessageReacts, FormReacts, RejoinRearms, NothingToClose, Park
<1>4. CASE MessageReacts(t)
  <2>1. MapsOK'
    BY <1>1, <1>4, Armed DEF MessageReacts, IInv, MapsOK
  <2> QED
    BY <1>2, <1>3, <2>1, EndStep
<1>5. CASE FormReacts(t)
  <2>1. MapsOK'
    BY <1>1, <1>5, Armed DEF FormReacts, IInv, MapsOK
  <2> QED
    BY <1>2, <1>3, <2>1, EndStep
<1>6. CASE RejoinRearms(t)
  <2>1. MapsOK'
    BY <1>1, <1>6, Armed DEF RejoinRearms, IInv, MapsOK
  <2> QED
    BY <1>2, <1>3, <2>1, EndStep
<1>7. CASE NothingToClose(t)
  <2>1. MapsOK'
    BY <1>7, SameMaps DEF NothingToClose, IInv, MapsOK
  <2> QED
    BY <1>2, <1>3, <2>1, EndStep
<1>8. CASE Park(t)
  <2>1. MapsOK'
    BY <1>1, <1>8, Armed DEF Park, IInv, MapsOK
  <2> QED
    BY <1>2, <1>3, <2>1, EndStep
<1> QED
  BY <1>4, <1>5, <1>6, <1>7, <1>8

LEMMA RejoinReactsPreserves ==
  ASSUME IInv, NEW t \in Tasks, RejoinReacts(t)
  PROVE  IInv'
<1> DEFINE k == [task[t] EXCEPT !.at = "rearm"]
<1>1. task[t] \in TaskType /\ Placed(task[t]) /\ task[t].s \in Sessions
  BY InFlight DEF RejoinReacts, Reacts, OfSession
<1>2. "rearm" \in Places /\ "rearm" \notin OfOperator
  BY DEF Places, OfSession, OfOperator
<1>3. k \in TaskType
  BY <1>1, <1>2 DEF TaskType
<1>4. k.at = "rearm" /\ k.handler = task[t].handler /\ k.s = task[t].s /\ k.o = task[t].o
  BY <1>1 DEF TaskType
<1>5. task' = [task EXCEPT ![t] = k]
  BY <1>1 DEF RejoinReacts, IInv, TaskType
<1> HIDE DEF k
<1>6. TaskOK(k, session')
  BY <1>1, <1>2, <1>3, <1>4 DEF TaskOK, Placed, Staffs
<1>7. MapsOK'
  BY DEF RejoinReacts, IInv, MapsOK
<1> QED
  BY <1>5, <1>6, <1>7, SameRows, OneTask DEF RejoinReacts

LEMMA CloseAfterReadPreserves ==
  ASSUME IInv, NEW t \in Tasks, CloseAfterRead(t)
  PROVE  IInv'
<1>1. task[t].s \in Sessions /\ task[t].handler \in Closing
  BY InFlight DEF CloseAfterRead, GoesOnToClose, Reacts, OfSession, Closing
<1>2. MapsOK'
  BY <1>1, ClearedTimers DEF CloseAfterRead, IInv, MapsOK
<1> QED
  BY <1>1, <1>2, SameRows, GoStep, PlacesSplit DEF CloseAfterRead, OfSession, OfOperator

-----------------------------------------------------------------------------
(* Claims and replies *)

LEMMA ClaimReadsPreserves ==
  ASSUME IInv, NEW t \in Tasks, ClaimReads(t)
  PROVE  IInv'
<1>1. task[t].s \in Sessions /\ task[t].handler = "claim"
  BY InFlight DEF ClaimReads, OfSession
<1>2. RowsOK(session') /\ KeepsStamps /\ MapsOK'
  BY SameRows, SameMaps DEF ClaimReads, IInv, MapsOK
<1>3. CASE End(t)
  BY <1>2, <1>3, EndStep
<1>4. CASE Go(t, "stamp") /\ task[t].o \notin Supervisors
  BY <1>1, <1>2, <1>4, GoStep, PlacesSplit DEF OfSession, OfOperator
<1> QED
  BY <1>3, <1>4 DEF ClaimReads

LEMMA ReplyReadsPreserves ==
  ASSUME IInv, NEW t \in Tasks, ReplyReads(t)
  PROVE  IInv'
<1>1. task[t].s \in Sessions /\ task[t].handler = "reply"
  BY InFlight DEF ReplyReads, OfSession
<1>2. RowsOK(session') /\ KeepsStamps /\ MapsOK'
  BY SameRows, SameMaps DEF ReplyReads, IInv, MapsOK
<1>3. CASE End(t)
  BY <1>2, <1>3, EndStep
<1>4. CASE Go(t, "capacity") /\ task[t].o \notin Supervisors
  BY <1>1, <1>2, <1>4, GoStep, PlacesSplit DEF OfSession, OfOperator
<1>5. CASE Go(t, "arm")
  BY <1>1, <1>2, <1>5, GoStep, PlacesSplit DEF OfSession, OfOperator, Draining
<1> QED
  BY <1>3, <1>4, <1>5 DEF ReplyReads

LEMMA ReplyCountsPreserves ==
  ASSUME IInv, NEW t \in Tasks, ReplyCounts(t)
  PROVE  IInv'
<1>1. task[t].s \in Sessions /\ Staffs(task[t]) /\ task[t].at = "capacity"
  BY InFlight DEF ReplyCounts, OfSession
<1>2. RowsOK(session') /\ KeepsStamps /\ MapsOK'
  BY SameRows, SameMaps DEF ReplyCounts, IInv, MapsOK
<1>3. CASE End(t)
  BY <1>2, <1>3, EndStep
<1>4. CASE Go(t, "stamp")
  BY <1>1, <1>2, <1>4, GoStep, PlacesSplit DEF OfSession, OfOperator, Staffs
<1> QED
  BY <1>3, <1>4 DEF ReplyCounts

-----------------------------------------------------------------------------
(* Assignment *)

(* The row a handler writes is stamped: by the handler, if what it read    *)
(* had no stamp, and otherwise ever since it was read.                     *)
LEMMA AssignedRow ==
  ASSUME IInv, NEW t \in Tasks, Assign(t)
  PROVE  RowsOK(session') /\ KeepsStamps
<1> DEFINE s == task[t].s
           row == Assigned(session[s], task[t].o, task[t].seen)
<1>1. s \in Sessions /\ task[t] \in TaskType
  BY InFlight DEF Assign, OfSession
<1>2. session \in [Sessions -> SessionType] /\ session[s] \in SessionType
  BY <1>1, Facts
<1>3. /\ task[t].o \in Operators \cup {Nobody}
      /\ task[t].seen.stamps \in Nat
  BY <1>1 DEF TaskType, SessionType
<1>4. task[t].seen.stamps <= session[s].stamps
  BY DEF Assign, IInv, TaskOK
<1>5. session[s].stamps \in Nat
  BY <1>2 DEF SessionType
<1>6. /\ row \in SessionType
      /\ row.operator = task[t].o
      /\ row.stamps = IF task[t].o # Nobody /\ task[t].seen.stamps = 0
                        THEN session[s].stamps + 1 ELSE session[s].stamps
  <2> DEFINE stamps == IF task[t].o # Nobody /\ task[t].seen.stamps = 0
                         THEN session[s].stamps + 1 ELSE session[s].stamps
  <2>1. stamps \in Nat
    BY <1>5
  <2>2. row = [session[s] EXCEPT !.operator = task[t].o, !.stamps = stamps]
    BY <1>2 DEF Assigned, SessionType
  <2> HIDE DEF stamps, row, s
  <2>3. row \in SessionType /\ row.operator = task[t].o /\ row.stamps = stamps
    BY <1>2, <1>3, <2>1, <2>2 DEF SessionType
  <2> QED
    BY <2>3 DEF stamps
<1>7. row.stamps >= session[s].stamps /\ (row.operator # Nobody => row.stamps > 0)
  BY <1>3, <1>4, <1>5, <1>6
<1>8. session' = [session EXCEPT ![s] = row]
  BY DEF Assign
<1> HIDE DEF row, s
<1>9. session' \in [Sessions -> SessionType]
  BY <1>1, <1>2, <1>6, <1>8
<1>10. ASSUME NEW r \in Sessions
       PROVE  /\ session[r].stamps <= session'[r].stamps
              /\ session'[r].operator # Nobody => session'[r].stamps > 0
  <2>1. CASE r = s
    BY <1>1, <1>2, <1>5, <1>6, <1>7, <1>8, <2>1
  <2>2. CASE r # s
    <3>1. session'[r] = session[r] /\ session[r].stamps \in Nat
      BY <1>2, <1>8, <2>2, Facts
    <3> QED
      BY <3>1 DEF IInv, RowsOK
  <2> QED
    BY <2>1, <2>2
<1> QED
  BY <1>9, <1>10 DEF RowsOK, KeepsStamps

LEMMA AssignPreserves ==
  ASSUME IInv, NEW t \in Tasks, Assign(t)
  PROVE  IInv'
<1>1. /\ task[t].s \in Sessions /\ Staffs(task[t]) /\ task[t].at = "assign"
  BY InFlight DEF Assign, OfSession
<1>2. RowsOK(session') /\ KeepsStamps
  BY AssignedRow
<1>3. MapsOK'
  BY SameMaps DEF Assign, IInv, MapsOK
<1>4. CASE Automatic(t) /\ Go(t, "notify")
  <2>1. task[t].o \notin Supervisors
    BY <1>1, <1>4 DEF Automatic, Draining, Staffs
  <2> QED
    BY <1>1, <1>2, <1>3, <1>4, <2>1, GoStep, PlacesSplit DEF OfSession, OfOperator
<1>5. CASE task[t].handler = "reply" /\ Go(t, "arm")
  BY <1>1, <1>2, <1>3, <1>5, GoStep, PlacesSplit DEF OfSession, OfOperator, Draining
<1>6. CASE End(t)
  BY <1>2, <1>3, <1>6, EndStep
<1> QED
  BY <1>4, <1>5, <1>6 DEF Assign

LEMMA NotifyPreserves ==
  ASSUME IInv, NEW t \in Tasks, Notify(t)
  PROVE  IInv'
<1>1. task[t].s \in Sessions /\ Staffs(task[t]) /\ task[t].at = "notify"
  BY InFlight DEF Notify, OfSession
<1>2. RowsOK(session') /\ KeepsStamps
  BY SameRows DEF Notify
<1>3. MapsOK'
  BY DEF Notify, IInv, MapsOK, Stages
<1>4. PICK at \in {"greet", "arm"} : Go(t, at)
  BY DEF Notify
<1> QED
  BY <1>1, <1>2, <1>3, <1>4, GoStep, PlacesSplit DEF OfSession, OfOperator, Staffs

LEMMA GreetPreserves ==
  ASSUME IInv, NEW t \in Tasks, Greet(t)
  PROVE  IInv'
<1>1. task[t].s \in Sessions /\ Staffs(task[t]) /\ task[t].at = "greet"
  BY InFlight DEF Greet, OfSession
<1>2. RowsOK(session') /\ KeepsStamps
  BY SameRows DEF Greet
<1>3. MapsOK'
  BY <1>1 DEF Greet, IInv, MapsOK, timers
<1> QED
  BY <1>1, <1>2, <1>3, GoStep, PlacesSplit DEF Greet, OfSession, OfOperator, Staffs

LEMMA ArmPreserves ==
  ASSUME IInv, NEW t \in Tasks, Arm(t)
  PROVE  IInv'
<1>1. /\ task[t].s \in Sessions /\ Staffs(task[t]) /\ Placed(task[t])
      /\ task[t] \in TaskType /\ task[t].at = "arm"
  BY InFlight DEF Arm, OfSession
<1>2. RowsOK(session') /\ KeepsStamps
  BY SameRows DEF Arm
<1>3. MapsOK'
  BY <1>1, Armed DEF Arm, IInv, MapsOK
<1>4. CASE task[t].handler = "start" /\ Go(t, "recheck")
  BY <1>1, <1>2, <1>3, <1>4, GoStep, PlacesSplit DEF OfSession, OfOperator
<1>5. CASE /\ task[t].handler \in Draining
           /\ task' = [task EXCEPT ![t].at = "take", ![t].s = 0, ![t].n = @ + 1,
                                   ![t].seen = NoSession]
  <2> DEFINE k == [task[t] EXCEPT !.at = "take", !.s = 0, !.n = task[t].n + 1,
                                  !.seen = NoSession]
  <2>1. task[t].n + 1 \in Nat /\ 0 \in 0 .. NumSessions
    BY <1>1, BoundsAreCounts DEF TaskType
  <2>2. "take" \in Places /\ "take" \notin OfSession
    BY DEF Places, OfSession, OfOperator
  <2>3. k \in TaskType
    BY <1>1, <2>1, <2>2, IdleOK DEF TaskType
  <2>4. k.at = "take" /\ k.handler = task[t].handler /\ k.o = task[t].o
    BY <1>1 DEF TaskType
  <2>5. task' = [task EXCEPT ![t] = k]
    BY <1>1, <1>5 DEF IInv, TaskType
  <2> HIDE DEF k
  <2>6. TaskOK(k, session')
    BY <1>1, <1>5, <2>2, <2>3, <2>4 DEF TaskOK, Placed, Staffs
  <2> QED
    BY <1>2, <1>3, <2>5, <2>6, OneTask
<1>6. CASE End(t)
  BY <1>2, <1>3, <1>6, EndStep
<1> QED
  BY <1>4, <1>5, <1>6 DEF Arm

-----------------------------------------------------------------------------
(* Choosing an operator for a new session *)

(* A step on the way from the pool to the choice. *)
LEMMA PicksOn ==
  ASSUME IInv, NEW t \in Tasks, task[t].at \in {"pick", "counts", "rotate"},
         NEW at \in {"counts", "rotate", "recheck", "stamp"},
         NEW pool \in SUBSET (Operators \ Supervisors),
         NEW o \in Operators \cup {Nobody},
         o = task[t].o \/ o \in Operators \ Supervisors,
         at = "stamp" => o \notin Supervisors,
         task' = [task EXCEPT ![t] = [task[t] EXCEPT !.at = at, !.pool = pool, !.o = o]],
         UNCHANGED <<session, preference, limit, timers, greetings, requests>>
  PROVE  IInv'
<1> DEFINE k == [task[t] EXCEPT !.at = at, !.pool = pool, !.o = o]
<1>1. task[t] \in TaskType /\ Placed(task[t]) /\ task[t].s \in Sessions
  BY InFlight DEF OfSession
<1>2. at \in Places /\ at \notin OfOperator
  BY DEF Places, OfSession, OfOperator
<1>3. k \in TaskType
  BY <1>1, <1>2 DEF TaskType
<1>4. /\ k.at = at /\ k.handler = task[t].handler /\ k.s = task[t].s
      /\ k.o = o /\ k.pool = pool
  BY <1>1 DEF TaskType
<1>5. task' = [task EXCEPT ![t] = k]
  OBVIOUS
<1> HIDE DEF k
<1>6. Placed(k)
  BY <1>1, <1>2, <1>4 DEF Placed
<1>7. Staffs(k)
  BY <1>4 DEF Staffs
<1>8. TaskOK(k, session')
  BY <1>3, <1>4, <1>6, <1>7 DEF TaskOK
<1>9. MapsOK'
  BY SameMaps DEF IInv, MapsOK
<1> QED
  BY <1>5, <1>8, <1>9, SameRows, OneTask

LEMMA PickPreserves ==
  ASSUME IInv, NEW t \in Tasks, Pick(t)
  PROVE  IInv'
<1>1. task[t] \in TaskType
  BY InFlight
<1>2. Eligible \in SUBSET (Operators \ Supervisors)
  BY DEF Eligible
<1>3. PICK at \in {"counts", "recheck"} :
        task' = [task EXCEPT ![t].pool = Eligible, ![t].at = at]
  BY DEF Pick
<1>4. task' = [task EXCEPT ![t] =
                 [task[t] EXCEPT !.at = at, !.pool = Eligible, !.o = task[t].o]]
  BY <1>1, <1>3 DEF IInv, TaskType
<1>5. task[t].o \in Operators \cup {Nobody}
  BY <1>1 DEF TaskType
<1>6. /\ task[t].at \in {"pick", "counts", "rotate"}
      /\ UNCHANGED <<session, preference, limit, timers, greetings, requests>>
  BY DEF Pick
<1>7. at \in {"counts", "rotate", "recheck", "stamp"} /\ at # "stamp"
  BY <1>3
<1> QED
  BY <1>2, <1>4, <1>5, <1>6, <1>7, PicksOn

LEMMA PickCountsPreserves ==
  ASSUME IInv, NEW t \in Tasks, PickCounts(t)
  PROVE  IInv'
<1> DEFINE pool == {o \in task[t].pool : Load(o) < limit}
<1>1. task[t] \in TaskType /\ Staffs(task[t])
  BY InFlight
<1>2. pool \in SUBSET (Operators \ Supervisors)
  BY <1>1 DEF PickCounts, Staffs, TaskType
<1>3. task' = [task EXCEPT ![t].at = "rotate", ![t].pool = pool]
  BY DEF PickCounts
<1> HIDE DEF pool
<1>4. task' = [task EXCEPT ![t] =
                 [task[t] EXCEPT !.at = "rotate", !.pool = pool, !.o = task[t].o]]
  BY <1>1, <1>3 DEF IInv, TaskType
<1>5. task[t].o \in Operators \cup {Nobody}
  BY <1>1 DEF TaskType
<1> QED
  BY <1>2, <1>4, <1>5, PicksOn DEF PickCounts

LEMMA PickRotatesPreserves ==
  ASSUME IInv, NEW t \in Tasks, PickRotates(t)
  PROVE  IInv'
<1>1. /\ task[t] \in TaskType /\ task[t].o \in Operators \cup {Nobody}
      /\ task[t].at = "rotate"
      /\ task[t].pool \subseteq Operators \ Supervisors
  BY InFlight DEF TaskType, PickRotates, Staffs
<1>2. ASSUME NEW o \in task[t].pool,
             task' = [task EXCEPT ![t].at = "stamp", ![t].o = o, ![t].pool = {}]
      PROVE  IInv'
  <2>1. task' = [task EXCEPT ![t] = [task[t] EXCEPT !.at = "stamp", !.pool = {}, !.o = o]]
    BY <1>1, <1>2 DEF IInv, TaskType
  <2> QED
    BY <1>1, <2>1, PicksOn DEF PickRotates
<1>3. CASE task' = [task EXCEPT ![t].at = "recheck", ![t].pool = {}]
  <2>1. task' = [task EXCEPT ![t] =
                   [task[t] EXCEPT !.at = "recheck", !.pool = {}, !.o = task[t].o]]
    BY <1>1, <1>3 DEF IInv, TaskType
  <2> QED
    BY <1>1, <2>1, PicksOn DEF PickRotates
<1> QED
  BY <1>2, <1>3 DEF PickRotates

-----------------------------------------------------------------------------
(* Closing and draining *)

LEMMA ReasonsOfClosing == \A handler \in Closing : Reason(handler) \in Reasons
BY DEF Closing, Reason, Reasons

LEMMA ClosePreserves ==
  ASSUME IInv, NEW t \in Tasks, Close(t)
  PROVE  IInv'
<1> DEFINE drainFor == IF task[t].o # Nobody THEN task[t].o ELSE session[task[t].s].operator
<1>1. task[t].s \in Sessions /\ task[t].handler \in Closing
  BY InFlight DEF Close, OfSession, Placed
<1>2. task[t].o \in Operators \cup {Nobody}
  BY InFlight DEF TaskType
<1>3. drainFor \in Operators \cup {Nobody}
  BY <1>1, <1>2, Facts
<1>4. RowsOK(session') /\ KeepsStamps
  <2> DEFINE reason == Reason(task[t].handler)
  <2>1. reason \in Reasons
    BY <1>1, ReasonsOfClosing
  <2>2. session' = [session EXCEPT ![task[t].s].status = "closed", ![task[t].s].reason = reason]
    BY DEF Close
  <2> HIDE DEF reason
  <2>3. session' = [session EXCEPT ![task[t].s] =
                      [session[task[t].s] EXCEPT !.status = "closed", !.reason = reason]]
    BY <1>1, <2>2, Facts
  <2> QED
    BY <1>1, <2>1, <2>3, RowKept
<1>5. MapsOK'
  BY SameMaps DEF Close, IInv, MapsOK
<1>6. \/ End(t)
      \/ drainFor # Nobody /\ Begin(t, "drain", "drain", 0, drainFor)
  BY DEF Close
<1> HIDE DEF drainFor
<1>7. 0 \in 0 .. NumSessions
  BY BoundsAreCounts
<1>8. CASE End(t)
  BY <1>4, <1>5, <1>8, EndStep
<1>9. CASE drainFor # Nobody /\ Begin(t, "drain", "drain", 0, drainFor)
  BY <1>3, <1>4, <1>5, <1>7, <1>9, BeginStep, PlacesSplit
  DEF HandlerNames, OfSession, OfOperator
<1> QED
  BY <1>6, <1>8, <1>9

LEMMA DrainEndsPreserves ==
  ASSUME IInv, NEW t \in Tasks, task[t].o \in Operators, DrainEnds(t),
         RowsOK(session'), MapsOK', KeepsStamps
  PROVE  IInv'
<1>1. CASE End(t)
  BY <1>1, EndStep
<1>2. CASE Begin(t, task[t].handler, "sync", 0, task[t].o)
  <2>1. 0 \in 0 .. NumSessions /\ task[t].handler \in HandlerNames
    BY BoundsAreCounts, InFlight DEF TaskType
  <2> QED
    BY <1>2, <2>1, BeginStep, PlacesSplit DEF OfSession, OfOperator
<1> QED
  BY <1>1, <1>2 DEF DrainEnds

LEMMA LoadsAreCounts == \A o : Load(o) \in Nat
<1>1. IsFiniteSet(Sessions)
  BY FS_Interval, BoundsAreCounts DEF Sessions
<1> QED
  BY <1>1, FS_Subset, FS_CardinalityType DEF Load

LEMMA DrainPreserves ==
  ASSUME IInv, NEW t \in Tasks, Drain(t)
  PROVE  IInv'
<1>1. task[t].o \in Operators
  BY InFlight DEF Drain, OfOperator
<1>2. RowsOK(session') /\ KeepsStamps /\ MapsOK'
  BY SameRows, SameMaps DEF Drain, IInv, MapsOK
<1>3. CASE DrainEnds(t)
  BY <1>1, <1>2, <1>3, DrainEndsPreserves
<1>4. CASE Go(t, "count") /\ task[t].o \notin Supervisors
  BY <1>1, <1>2, <1>4, GoStep, PlacesSplit DEF OfSession, OfOperator
<1> QED
  BY <1>3, <1>4 DEF Drain

LEMMA DrainCountsPreserves ==
  ASSUME IInv, NEW t \in Tasks, DrainCounts(t)
  PROVE  IInv'
<1> DEFINE n == Load(task[t].o)
           k == [task[t] EXCEPT !.at = "take", !.n = n]
<1>1. /\ task[t] \in TaskType /\ Placed(task[t]) /\ Staffs(task[t])
      /\ task[t].at = "count" /\ task[t].o \in Operators
  BY InFlight DEF DrainCounts, OfOperator
<1>2. n \in Nat
  BY LoadsAreCounts
<1>3. task' = [task EXCEPT ![t].at = "take", ![t].n = n]
  BY DEF DrainCounts
<1> HIDE DEF n
<1>4. "take" \in Places /\ "take" \notin OfSession
  BY DEF Places, OfSession, OfOperator
<1>5. k \in TaskType
  BY <1>1, <1>2, <1>4 DEF TaskType
<1>6. k.at = "take" /\ k.handler = task[t].handler /\ k.o = task[t].o
  BY <1>1 DEF TaskType
<1>7. task' = [task EXCEPT ![t] = k]
  BY <1>1, <1>3 DEF IInv, TaskType
<1> HIDE DEF k
<1>8. TaskOK(k, session')
  BY <1>1, <1>4, <1>5, <1>6 DEF TaskOK, Placed, Staffs
<1>9. MapsOK'
  BY SameMaps DEF DrainCounts, IInv, MapsOK
<1> QED
  BY <1>7, <1>8, <1>9, SameRows, OneTask DEF DrainCounts

LEMMA DrainTakesPreserves ==
  ASSUME IInv, NEW t \in Tasks, DrainTakes(t)
  PROVE  IInv'
<1>1. /\ task[t] \in TaskType /\ Placed(task[t]) /\ Staffs(task[t])
      /\ task[t].at = "take" /\ task[t].o \in Operators
  BY InFlight DEF DrainTakes, OfOperator
<1>2. RowsOK(session') /\ KeepsStamps /\ MapsOK'
  BY SameRows, SameMaps DEF DrainTakes, IInv, MapsOK
<1>3. ASSUME NEW s \in Sessions, task' = [task EXCEPT ![t].at = "stamp", ![t].s = s]
      PROVE  IInv'
  <2> DEFINE k == [task[t] EXCEPT !.at = "stamp", !.s = s]
  <2>1. "stamp" \in Places /\ "stamp" \notin OfOperator /\ s \in 0 .. NumSessions
    BY SessionsAreNumbered DEF Places, OfSession, OfOperator
  <2>2. k \in TaskType
    BY <1>1, <2>1 DEF TaskType
  <2>3. k.at = "stamp" /\ k.handler = task[t].handler /\ k.o = task[t].o /\ k.s = s
    BY <1>1 DEF TaskType
  <2>4. task' = [task EXCEPT ![t] = k]
    BY <1>1, <1>3 DEF IInv, TaskType
  <2> HIDE DEF k
  <2>5. TaskOK(k, session')
    BY <1>1, <2>1, <2>2, <2>3 DEF TaskOK, Placed, Staffs
  <2> QED
    BY <1>2, <2>4, <2>5, OneTask
<1>4. CASE DrainEnds(t)
  BY <1>1, <1>2, <1>4, DrainEndsPreserves
<1> QED
  BY <1>3, <1>4 DEF DrainTakes

LEMMA SyncPreserves ==
  ASSUME IInv, NEW t \in Tasks, Sync(t)
  PROVE  IInv'
<1>1. RowsOK(session') /\ KeepsStamps /\ MapsOK'
  BY SameRows, SameMaps DEF Sync, IInv, MapsOK
<1> QED
  BY <1>1, EndStep DEF Sync

LEMMA FailPreserves ==
  ASSUME IInv, NEW t \in Tasks, Fail(t)
  PROVE  IInv'
<1>1. requests + 1 \in Nat
  BY DEF IInv, MapsOK
<1>2. RowsOK(session') /\ KeepsStamps /\ MapsOK'
  BY <1>1, SameRows, SameMaps DEF Fail
<1>3. CASE End(t)
  BY <1>2, <1>3, EndStep
<1>4. CASE task[t].handler = "join" /\ DrainEnds(t)
  BY <1>2, <1>4, InFlight, DrainEndsPreserves DEF Draining
<1> QED
  BY <1>3, <1>4 DEF Fail

-----------------------------------------------------------------------------
(* The invariant *)

LEMMA InitHolds == Init => IInv
<1> SUFFICES ASSUME Init PROVE IInv
  OBVIOUS
<1>1. session \in [Sessions -> SessionType]
  BY IdleOK DEF Init
<1>2. \A s \in Sessions : session[s].operator = Nobody
  BY DEF Init, NoSession
<1>3. RowsOK(session)
  BY <1>1, <1>2 DEF RowsOK
<1>4. MapsOK
  BY LimitsAreCounts DEF Init, MapsOK, Stages
<1>5. task \in [Tasks -> TaskType] /\ \A t \in Tasks : task[t] = Idle
  BY IdleOK DEF Init
<1>6. TaskOK(Idle, session)
  BY IdleOK DEF TaskOK, Placed, Staffs, Idle, OfSession, OfOperator, Draining
<1> QED
  BY <1>3, <1>4, <1>5, <1>6 DEF IInv

LEMMA RequestsPreserve ==
  ASSUME IInv, NEW t \in Tasks, Requests(t)
  PROVE  IInv'
BY VisitorStartPreserves, VisitorReadsPreserve, VisitorClosesPreserve, PresencePreserves,
   OperatorReadsPreserve, OperatorClosePreserves, ReopenPreserves, RestAssignPreserves
DEF Requests

LEMMA StepPreserves ==
  ASSUME IInv, NEW t \in Tasks, Step(t)
  PROVE  IInv'
<1>1. CASE \/ ReadSession(t) \/ MessageReacts(t) \/ FormReacts(t) \/ RejoinReacts(t)
           \/ RejoinRearms(t) \/ CloseAfterRead(t) \/ NothingToClose(t) \/ Park(t)
  BY <1>1, ReadSessionPreserves, ReactsPreserve, RejoinReactsPreserves, CloseAfterReadPreserves
<1>2. CASE \/ ClaimReads(t) \/ ReplyReads(t) \/ ReplyCounts(t)
           \/ Stamp(t) \/ Assign(t) \/ Notify(t) \/ Greet(t) \/ Arm(t)
  BY <1>2, ClaimReadsPreserves, ReplyReadsPreserves, ReplyCountsPreserves, StampPreserves,
     AssignPreserves, NotifyPreserves, GreetPreserves, ArmPreserves
<1>3. CASE Pick(t) \/ PickCounts(t) \/ PickRotates(t) \/ Recheck(t)
  BY <1>3, PickPreserves, PickCountsPreserves, PickRotatesPreserves, RecheckPreserves
<1>4. CASE Close(t) \/ Drain(t) \/ DrainCounts(t) \/ DrainTakes(t) \/ Sync(t)
  BY <1>4, ClosePreserves, DrainPreserves, DrainCountsPreserves, DrainTakesPreserves,
     SyncPreserves
<1> QED
  BY <1>1, <1>2, <1>3, <1>4 DEF Step

LEMMA NextPreserves == IInv /\ [Next]_vars => IInv'
<1> SUFFICES ASSUME IInv, [Next]_vars PROVE IInv'
  OBVIOUS
<1>1. ASSUME NEW t \in Tasks, Requests(t) \/ Step(t) \/ Fail(t) PROVE IInv'
  BY <1>1, RequestsPreserve, StepPreserves, FailPreserves
<1>2. ASSUME NEW s \in Sessions, TimersFire(s) PROVE IInv'
  BY <1>2, WarningsPreserve, ClosesFire DEF TimersFire
<1>3. CASE Instant
  BY <1>3, InstantPreserves
<1>4. CASE UNCHANGED vars
  BY <1>4, SameRows, SameMaps, NoTask DEF vars, IInv, MapsOK
<1> QED
  BY <1>1, <1>2, <1>3, <1>4 DEF Next

(* Rows, maps and handlers in flight keep their types, a handler that      *)
(* works on a session has one, and one that drains has an operator to      *)
(* drain for, whatever the interleaving.                                   *)
THEOREM ChatTypeCorrect == Spec => []TypeOK
<1>1. IInv => TypeOK
  BY DEF IInv, RowsOK, MapsOK, TaskOK, Placed, TypeOK
<1> QED
  BY <1>1, InitHolds, NextPreserves, PTL DEF Spec

(* A session with an operator has the time of its first pickup, however    *)
(* many handlers assign it and take it away between the read of assignedAt *)
(* and the write of the row.                                               *)
THEOREM ChatAssignedIsStamped == Spec => []AssignedIsStamped
<1>1. IInv => AssignedIsStamped
  BY DEF IInv, RowsOK, AssignedIsStamped
<1> QED
  BY <1>1, InitHolds, NextPreserves, PTL DEF Spec

-----------------------------------------------------------------------------
(* Who changes the operator of a session *)

SameOperators == \A s \in Sessions : session'[s].operator = session[s].operator

LEMMA RequestsKeepOperators ==
  ASSUME IInv, NEW t \in Tasks, Requests(t)
  PROVE  SameOperators
<1> session \in [Sessions -> SessionType]
  BY Facts
<1>1. CASE UNCHANGED session
  BY <1>1 DEF SameOperators
<1>2. CASE \E s \in Sessions : session' = [session EXCEPT ![s].status = "open"]
  BY <1>2 DEF SameOperators, SessionType
<1> QED
  BY <1>1, <1>2
  DEF Requests, VisitorStart, OperatorJoin, SetStatus, OperatorOffline, VisitorMessage,
      VisitorFormActivity, VisitorRejoin, VisitorCloseSession, VisitorLeaveContactInfo,
      ReopenSession, RestAssign, OperatorJoinSession, OperatorMessage, OperatorCloseSession

LEMMA InstantKeepsOperators ==
  ASSUME IInv, Instant
  PROVE  SameOperators
<1> session \in [Sessions -> SessionType]
  BY Facts
<1>1. CASE UNCHANGED session
  BY <1>1 DEF SameOperators
<1>2. ASSUME NEW s \in Sessions, RestClose(s) \/ RestReopen(s) PROVE SameOperators
  BY <1>2 DEF RestClose, RestReopen, SameOperators, SessionType
<1> QED
  BY <1>1, <1>2 DEF Instant, VisitorDisconnect, SaveLimit, Restart

LEMMA TimersKeepOperators ==
  ASSUME IInv, NEW s \in Sessions, TimersFire(s)
  PROVE  SameOperators
BY DEF TimersFire, InactivityWarning, AbandonWarning, QueueWaitMessage, InactivityClose,
       AbandonClose, GraceClose, SameOperators

LEMMA StepsKeepOperators ==
  ASSUME IInv, NEW t \in Tasks, Step(t) \/ Fail(t), ~Assign(t)
  PROVE  SameOperators
<1> session \in [Sessions -> SessionType]
  BY Facts
<1>1. CASE UNCHANGED session
  BY <1>1 DEF SameOperators
<1>2. CASE Close(t)
  BY <1>2 DEF Close, SameOperators, SessionType
<1> QED
  BY <1>1, <1>2
  DEF Step, Fail, ReadSession, MessageReacts, FormReacts, RejoinReacts, RejoinRearms,
      CloseAfterRead, NothingToClose, ClaimReads, ReplyReads, ReplyCounts, Stamp, Notify,
      Greet, Arm, Pick, PickCounts, PickRotates, Recheck, Park, Drain, DrainCounts,
      DrainTakes, Sync

(* An assignment to a supervisor is one of the REST endpoint. *)
LEMMA AssignsByRest ==
  ASSUME IInv, NEW t \in Tasks, Assign(t), NEW s \in Sessions,
         session'[s].operator \in Supervisors,
         session'[s].operator # session[s].operator
  PROVE  ByRest(s)
<1>1. /\ task[t].at = "assign" /\ Staffs(task[t]) /\ task[t].s \in Sessions
      /\ session \in [Sessions -> SessionType]
  BY InFlight, Facts DEF Assign, OfSession
<1>2. task[t].s = s
  BY <1>1 DEF Assign
<1>3. session'[s].operator = task[t].o
  BY <1>1, <1>2 DEF Assign, Assigned, SessionType
<1>4. task[t].handler = "assign"
  BY <1>1, <1>3 DEF Staffs
<1> QED
  BY <1>1, <1>2, <1>4 DEF ByRest

SeatsByRest ==
  \A s \in Sessions :
    session'[s].operator \in Supervisors /\ session'[s].operator # session[s].operator
    => ByRest(s)

(* No join, status change, close, claim or reply ever seats a supervisor,  *)
(* however long before the choice it was that the pool was computed.       *)
THEOREM ChatSupervisorsByRestOnly == Spec => SupervisorsByRestOnly
<1>1. ASSUME IInv, [Next]_vars PROVE SeatsByRest
  <2>1. CASE SameOperators
    BY <2>1 DEF SameOperators, SeatsByRest
  <2>2. ASSUME NEW t \in Tasks, Assign(t) PROVE SeatsByRest
    BY <1>1, <2>2, AssignsByRest DEF SeatsByRest
  <2>3. CASE UNCHANGED vars
    BY <2>3 DEF vars, SeatsByRest
  <2> QED
    BY <1>1, <2>1, <2>2, <2>3, RequestsKeepOperators, InstantKeepsOperators,
       TimersKeepOperators, StepsKeepOperators DEF Next
<1>2. SupervisorsByRestOnly <=> [][SeatsByRest]_vars
  BY DEF SupervisorsByRestOnly, SeatsByRest
<1> QED
  BY <1>1, <1>2, InitHolds, NextPreserves, PTL DEF Spec

-----------------------------------------------------------------------------
(* What a step of one handler leaves of the others, and of itself          *)

Others(t) == \A u \in Tasks \ {t} : task'[u] = task[u]

LEMMA GoFields ==
  ASSUME IInv, NEW t \in Tasks, NEW at, Go(t, at)
  PROVE  /\ Others(t)
         /\ task'[t].at = at /\ task'[t].handler = task[t].handler /\ task'[t].s = task[t].s
         /\ task'[t].o = task[t].o /\ task'[t].pool = task[t].pool /\ task'[t].n = task[t].n
         /\ task'[t].seen = NoSession
BY DEF IInv, TaskType, Go, Others

LEMMA EndFields ==
  ASSUME IInv, NEW t \in Tasks, End(t)
  PROVE  Others(t) /\ task'[t] = Idle
BY DEF IInv, End, Others

LEMMA BeginFields ==
  ASSUME IInv, NEW t \in Tasks, NEW handler, NEW at, NEW s, NEW o, Begin(t, handler, at, s, o)
  PROVE  /\ Others(t)
         /\ task'[t].at = at /\ task'[t].handler = handler /\ task'[t].s = s /\ task'[t].o = o
         /\ task'[t].pool = {} /\ task'[t].n = 0 /\ task'[t].seen = NoSession
BY DEF IInv, Begin, Others, Idle

LEMMA ReadFields ==
  ASSUME IInv, NEW t \in Tasks, NEW at, NEW row,
         task' = [task EXCEPT ![t].at = at, ![t].seen = row]
  PROVE  /\ Others(t)
         /\ task'[t].at = at /\ task'[t].handler = task[t].handler /\ task'[t].s = task[t].s
         /\ task'[t].o = task[t].o /\ task'[t].pool = task[t].pool /\ task'[t].n = task[t].n
         /\ task'[t].seen = row
BY DEF IInv, TaskType, Others

LEMMA RotatesFields ==
  ASSUME IInv, NEW t \in Tasks, PickRotates(t)
  PROVE  /\ Others(t)
         /\ task'[t].at \in {"stamp", "recheck"}
         /\ task'[t].handler = task[t].handler /\ task'[t].s = task[t].s
<1>0. task \in [Tasks -> TaskType]
  BY DEF IInv
<1>1. ASSUME NEW o, task' = [task EXCEPT ![t].at = "stamp", ![t].o = o, ![t].pool = {}]
      PROVE  /\ Others(t) /\ task'[t].at = "stamp"
             /\ task'[t].handler = task[t].handler /\ task'[t].s = task[t].s
  BY <1>0, <1>1 DEF TaskType, Others
<1>2. ASSUME task' = [task EXCEPT ![t].at = "recheck", ![t].pool = {}]
      PROVE  /\ Others(t) /\ task'[t].at = "recheck"
             /\ task'[t].handler = task[t].handler /\ task'[t].s = task[t].s
  BY <1>0, <1>2 DEF TaskType, Others
<1> QED
  BY <1>1, <1>2 DEF PickRotates

-----------------------------------------------------------------------------
(* Rows that exist *)

(* Sessions are started one after the other, a row that has not been       *)
(* written has no operator, and no handler works on a session that does    *)
(* not exist.                                                              *)
RowsKnown ==
  /\ \A s \in Sessions : ~Known(s) => session[s].operator = Nobody
  /\ \A s \in Sessions : Known(s) => \A r \in 1 .. s - 1 : Known(r)

TimersOfKnown ==
  \A s \in Sessions : inactivity[s] # "none" \/ abandon[s] # "none" \/ s \in grace => Known(s)

KnownInv ==
  /\ RowsKnown
  /\ TimersOfKnown
  /\ \A t \in Tasks : task[t].at \in OfSession => Known(task[t].s)

StaysKnown == \A s \in Sessions : Known(s) => Known(s)'

LEMMA RequestsKnown ==
  ASSUME IInv, KnownInv, NEW t \in Tasks, Requests(t)
  PROVE  RowsKnown' /\ StaysKnown /\ Others(t)
         /\ (task'[t].at \in OfSession => session'[task'[t].s].status # "none")
<1> session \in [Sessions -> SessionType]
  BY Facts
<1>1. CASE VisitorStart(t)
  <2>1. PICK s \in Sessions : /\ \A r \in 1 .. s - 1 : Known(r)
                              /\ session' = [session EXCEPT ![s].status = "open"]
                              /\ Begin(t, "start", "pick", s, Nobody)
    BY <1>1 DEF VisitorStart, Known
  <2>2. \A r \in Sessions : /\ Known(r)' <=> Known(r) \/ r = s
                            /\ session'[r].operator = session[r].operator
    BY <2>1 DEF Known, SessionType
  <2>3. \A r \in 1 .. s - 1 : r \in Sessions
    BY BoundsAreCounts DEF Sessions
  <2>4. Others(t) /\ task'[t].s = s
    BY <2>1, BeginFields
  <2>5. StaysKnown /\ Known(s)'
    BY <2>2 DEF StaysKnown
  <2>6. \A r \in Sessions : Known(r)' => \A q \in 1 .. r - 1 : Known(q)'
    <3> SUFFICES ASSUME NEW r \in Sessions, Known(r)', NEW q \in 1 .. r - 1 PROVE Known(q)'
      OBVIOUS
    <3>1. q \in Sessions
      BY BoundsAreCounts DEF Sessions
    <3> QED
      BY <2>1, <2>2, <2>3, <3>1 DEF KnownInv, RowsKnown
  <2>7. RowsKnown'
    BY <2>2, <2>6 DEF KnownInv, RowsKnown
  <2> QED
    BY <2>4, <2>5, <2>7 DEF Known
<1>2. ASSUME NEW s \in Sessions, ReopenSession(t, s)
      PROVE  RowsKnown' /\ StaysKnown /\ Others(t) /\ session'[task'[t].s].status # "none"
  <2>1. \A r \in Sessions : /\ Known(r)' <=> Known(r)
                            /\ session'[r].operator = session[r].operator
    BY <1>2 DEF ReopenSession, Known, SessionType
  <2>2. \A r \in Sessions : \A q \in 1 .. r - 1 : q \in Sessions
    BY BoundsAreCounts DEF Sessions
  <2> QED
    BY <1>2, <2>1, <2>2, BeginFields DEF KnownInv, RowsKnown, StaysKnown, ReopenSession
<1>3. CASE \E o \in Operators : OperatorJoin(t, o) \/ SetStatus(t, o) \/ OperatorOffline(t, o)
  <2>1. UNCHANGED session /\ Others(t) /\ task'[t].at \notin OfSession
    BY <1>3, BeginFields DEF OperatorJoin, SetStatus, OperatorOffline, OfSession
  <2> QED
    BY <2>1 DEF KnownInv, RowsKnown, StaysKnown, Known
<1>4. ASSUME NEW s \in Sessions,
             \/ VisitorMessage(t, s) \/ VisitorFormActivity(t, s) \/ VisitorRejoin(t, s)
             \/ VisitorCloseSession(t, s) \/ VisitorLeaveContactInfo(t, s) \/ RestAssign(t, s)
             \/ \E o \in Operators :
                  \/ OperatorJoinSession(t, s, o) \/ OperatorMessage(t, s, o)
                  \/ OperatorCloseSession(t, s, o)
      PROVE  RowsKnown' /\ StaysKnown /\ Others(t) /\ session'[task'[t].s].status # "none"
  <2>1. UNCHANGED session /\ Others(t) /\ task'[t].s = s /\ Known(s)
    BY <1>4, BeginFields
    DEF VisitorMessage, VisitorFormActivity, VisitorRejoin, VisitorCloseSession,
        VisitorLeaveContactInfo, RestAssign, OperatorJoinSession, OperatorMessage,
        OperatorCloseSession
  <2> QED
    BY <2>1 DEF KnownInv, RowsKnown, StaysKnown, Known
<1> QED
  BY <1>1, <1>2, <1>3, <1>4 DEF Requests

(* No step but the start of a session writes a row that was not there.     *)
LEMMA SameRowsKnown ==
  ASSUME KnownInv,
         \A s \in Sessions :
           /\ session[s].status = "none" <=> session'[s].status = "none"
           /\ session[s].status = "none" => session'[s].operator = session[s].operator
  PROVE  RowsKnown' /\ StaysKnown
<1>1. \A s \in Sessions : \A r \in 1 .. s - 1 : r \in Sessions
  BY BoundsAreCounts DEF Sessions
<1> QED
  BY <1>1 DEF KnownInv, RowsKnown, StaysKnown, Known

LEMMA InstantKnown ==
  ASSUME IInv, KnownInv, Instant
  PROVE  RowsKnown' /\ StaysKnown
         /\ \A t \in Tasks : task'[t] = task[t] \/ task'[t].at \notin OfSession
<1> session \in [Sessions -> SessionType]
  BY Facts
<1>1. \A s \in Sessions : /\ (session[s].status = "none" <=> session'[s].status = "none")
                          /\ session'[s].operator = session[s].operator
  <2>1. ASSUME NEW s \in Sessions, RestClose(s) \/ RestReopen(s)
        PROVE  \A r \in Sessions : /\ (session[r].status = "none" <=> session'[r].status = "none")
                                   /\ session'[r].operator = session[r].operator
    BY <2>1 DEF RestClose, RestReopen, Known, SessionType
  <2>2. CASE UNCHANGED session
    BY <2>2
  <2>3. UNCHANGED session \/ \E s \in Sessions : RestClose(s) \/ RestReopen(s)
    BY DEF Instant, VisitorDisconnect, SaveLimit, Restart
  <2> QED
    BY <2>1, <2>2, <2>3
<1>2. \A t \in Tasks : task'[t] = task[t] \/ task'[t].at \notin OfSession
  <2>1. CASE Restart
    BY <2>1 DEF Restart, Idle, OfSession
  <2>2. CASE UNCHANGED task
    BY <2>2
  <2> QED
    BY <2>1, <2>2 DEF Instant, VisitorDisconnect, RestClose, RestReopen, SaveLimit
<1> QED
  BY <1>1, <1>2, SameRowsKnown

LEMMA TimersKnown ==
  ASSUME IInv, KnownInv, NEW s \in Sessions, TimersFire(s)
  PROVE  RowsKnown' /\ StaysKnown
         /\ \A t \in Tasks : task'[t] = task[t] \/ session'[task'[t].s].status # "none"
<1>1. UNCHANGED session
  BY DEF TimersFire, InactivityWarning, AbandonWarning, QueueWaitMessage, InactivityClose,
         AbandonClose, GraceClose
<1>2. CASE InactivityWarning(s) \/ AbandonWarning(s) \/ QueueWaitMessage(s)
  BY <1>1, <1>2, SameRowsKnown DEF InactivityWarning, AbandonWarning, QueueWaitMessage
<1>3. ASSUME NEW t \in Tasks, InactivityClose(t, s) \/ AbandonClose(t, s) \/ GraceClose(t, s)
      PROVE  Others(t) /\ task'[t].s = s /\ Known(s)
  BY <1>3, BeginFields DEF InactivityClose, AbandonClose, GraceClose, KnownInv, TimersOfKnown
<1> QED
  BY <1>1, <1>2, <1>3, SameRowsKnown DEF TimersFire, Others, Known

(* A step of a handler stays with its session, or turns to one that waits. *)
StaysWith(t) ==
  task'[t].at \in OfSession =>
    \/ task[t].at \in OfSession /\ task'[t].s = task[t].s
    \/ task'[t].s \in Sessions /\ Waiting(task'[t].s)

LEMMA StepsStay ==
  ASSUME IInv, NEW t \in Tasks, Step(t) \/ Fail(t)
  PROVE  Others(t) /\ StaysWith(t)
<1>1. CASE ReadSession(t) \/ Stamp(t) \/ Recheck(t)
  BY <1>1, ReadFields DEF ReadSession, Stamp, Recheck, StaysWith, OfSession
<1>2. CASE \/ MessageReacts(t) \/ FormReacts(t) \/ RejoinRearms(t) \/ NothingToClose(t)
           \/ Park(t) \/ Sync(t)
  BY <1>2, EndFields
  DEF MessageReacts, FormReacts, RejoinRearms, NothingToClose, Park, Sync, StaysWith, Idle,
      OfSession
<1>3. CASE RejoinReacts(t)
  BY <1>3 DEF RejoinReacts, Reacts, StaysWith, Others, OfSession, IInv, TaskType
<1>4. CASE CloseAfterRead(t) \/ ClaimReads(t) \/ ReplyReads(t) \/ ReplyCounts(t)
  BY <1>4, GoFields, EndFields
  DEF CloseAfterRead, GoesOnToClose, Reacts, ClaimReads, ReplyReads, ReplyCounts, StaysWith,
      OfSession, Idle
<1>5. CASE Assign(t) \/ Notify(t) \/ Greet(t)
  BY <1>5, GoFields, EndFields DEF Assign, Notify, Greet, StaysWith, OfSession, Idle
<1>6. CASE Arm(t)
  <2>1. CASE task' = [task EXCEPT ![t].at = "take", ![t].s = 0, ![t].n = @ + 1,
                                  ![t].seen = NoSession]
    BY <2>1 DEF StaysWith, Others, OfSession, IInv, TaskType
  <2> QED
    BY <1>6, <2>1, GoFields, EndFields DEF Arm, StaysWith, OfSession, Idle
<1>7. CASE Pick(t) \/ PickCounts(t) \/ PickRotates(t)
  <2>1. task \in [Tasks -> TaskType] /\ task[t].at \in OfSession
    BY <1>7 DEF IInv, Pick, PickCounts, PickRotates, OfSession
  <2>2. Others(t)
    BY <1>7, <2>1, RotatesFields DEF Others, Pick, PickCounts
  <2>3. task'[t].s = task[t].s
    <3>1. CASE Pick(t)
      BY <2>1, <3>1 DEF Pick, TaskType
    <3>2. CASE PickCounts(t)
      BY <2>1, <3>2 DEF PickCounts, TaskType
    <3> QED
      BY <1>7, <3>1, <3>2, RotatesFields
  <2> QED
    BY <2>1, <2>2, <2>3 DEF StaysWith
<1>8. ASSUME DrainEnds(t) PROVE Others(t) /\ StaysWith(t)
  BY <1>8, BeginFields, EndFields DEF DrainEnds, StaysWith, OfSession, Idle
<1>9. CASE Close(t) \/ Drain(t) \/ DrainCounts(t)
  <2>1. CASE DrainCounts(t)
    BY <2>1 DEF DrainCounts, StaysWith, Others, OfSession, IInv, TaskType
  <2> QED
    BY <1>8, <1>9, <2>1, BeginFields, GoFields, EndFields
    DEF Close, Drain, StaysWith, OfSession, Idle
<1>10. CASE DrainTakes(t)
  <2>1. ASSUME NEW s \in Sessions, Waiting(s), task' = [task EXCEPT ![t].at = "stamp", ![t].s = s]
        PROVE  Others(t) /\ task'[t].s = s
    BY <2>1 DEF Others, IInv, TaskType
  <2> QED
    BY <1>8, <1>10, <2>1 DEF DrainTakes, Oldest, StaysWith
<1>11. CASE Fail(t)
  BY <1>8, <1>11, EndFields DEF Fail, StaysWith, OfSession, Idle
<1> QED
  BY <1>1, <1>2, <1>3, <1>4, <1>5, <1>6, <1>7, <1>9, <1>10, <1>11 DEF Step

LEMMA StepsKnown ==
  ASSUME IInv, KnownInv, NEW t \in Tasks, Step(t) \/ Fail(t)
  PROVE  RowsKnown' /\ StaysKnown /\ Others(t)
         /\ (task'[t].at \in OfSession => session'[task'[t].s].status # "none")
<1> session \in [Sessions -> SessionType]
  BY Facts
<1>1. \A s \in Sessions :
        /\ session[s].status = "none" <=> session'[s].status = "none"
        /\ session[s].status = "none" => session'[s].operator = session[s].operator
  <2>1. CASE UNCHANGED session
    BY <2>1
  <2>2. CASE Close(t) \/ Assign(t)
    <3>1. task[t].s \in Sessions /\ session[task[t].s].status # "none"
      BY <2>2, InFlight DEF Close, Assign, KnownInv, OfSession, Known
    <3>2. \A s \in Sessions : s # task[t].s => session'[s] = session[s]
      BY <2>2 DEF Close, Assign
    <3>3. session'[task[t].s].status # "none"
      <4>1. session[task[t].s] \in SessionType
        BY <3>1
      <4>2. CASE Close(t)
        BY <4>1, <4>2, <3>1 DEF Close, SessionType
      <4>3. CASE Assign(t)
        BY <4>1, <4>3, <3>1 DEF Assign, Assigned, SessionType
      <4> QED
        BY <2>2, <4>2, <4>3
    <3> QED
      BY <3>1, <3>2, <3>3
  <2> QED
    BY <2>1, <2>2
    DEF Step, Fail, ReadSession, MessageReacts, FormReacts, RejoinReacts, RejoinRearms,
        CloseAfterRead, NothingToClose, ClaimReads, ReplyReads, ReplyCounts, Stamp, Notify,
        Greet, Arm, Pick, PickCounts, PickRotates, Recheck, Park, Drain, DrainCounts,
        DrainTakes, Sync
<1>2. RowsKnown' /\ StaysKnown
  BY <1>1, SameRowsKnown
<1>3. ASSUME task'[t].at \in OfSession PROVE session'[task'[t].s].status # "none"
  <2>1. PICK s \in Sessions : s = task'[t].s /\ Known(s)
    BY <1>3, StepsStay, InFlight DEF StaysWith, KnownInv, Waiting, Known
  <2> QED
    BY <1>2, <2>1 DEF StaysKnown, Known
<1> QED
  BY <1>2, <1>3, StepsStay

(* No countdown starts, no grace timer is armed, but for the session s     *)
(* (for none at all if s is 0).                                            *)
ArmsOnly(s) ==
  \A r \in Sessions \ {s} : /\ inactivity'[r] # "none" => inactivity[r] # "none"
                            /\ abandon'[r] # "none" => abandon[r] # "none"
                            /\ r \in grace' => r \in grace

LEMMA ArmsOnlyMeans ==
  ASSUME IInv, NEW s, ArmInactivity(s) \/ UNCHANGED inactivity, ArmAbandon(s) \/ UNCHANGED abandon,
         grace' \subseteq grace
  PROVE  ArmsOnly(s)
BY DEF IInv, MapsOK, ArmsOnly, ArmInactivity, ArmAbandon

LEMMA TimersArmed ==
  ASSUME IInv, KnownInv, Next
  PROVE  \/ ArmsOnly(0)
         \/ \E s \in Sessions : Known(s) /\ ArmsOnly(s)
<1> DEFINE Goal == \/ ArmsOnly(0)
                   \/ \E s \in Sessions : Known(s) /\ ArmsOnly(s)
<1>0. IInv /\ KnownInv
  OBVIOUS
<1>1. CASE UNCHANGED <<inactivity, abandon, grace>>
  BY <1>1 DEF ArmsOnly
<1>2. ASSUME NEW s \in Sessions, ClearSessionTimers(s) PROVE ArmsOnly(0)
  BY <1>0, <1>2 DEF IInv, MapsOK, ArmsOnly, ClearSessionTimers
<1>3. ASSUME NEW t \in Tasks, Step(t) \/ Fail(t) PROVE Goal
  <2>1. CASE \/ MessageReacts(t) \/ FormReacts(t) \/ RejoinReacts(t) \/ RejoinRearms(t)
             \/ Arm(t) \/ Park(t)
    <3>1. /\ task[t].s \in Sessions /\ Known(task[t].s)
          /\ ArmInactivity(task[t].s) \/ UNCHANGED inactivity
          /\ ArmAbandon(task[t].s) \/ UNCHANGED abandon
          /\ grace' \subseteq grace
      BY <1>0, <2>1, InFlight
      DEF MessageReacts, FormReacts, RejoinReacts, RejoinRearms, Arm, Park, Reacts, KnownInv,
          OfSession, timers
    <3> QED
      BY <1>0, <3>1, ArmsOnlyMeans
  <2>2. CASE Notify(t)
    BY <1>0, <2>2 DEF Notify, IInv, MapsOK, ArmsOnly
  <2>3. CASE CloseAfterRead(t)
    BY <1>0, <1>2, <2>3, InFlight DEF CloseAfterRead, GoesOnToClose, Reacts, OfSession
  <2> QED
    BY <1>1, <1>3, <2>1, <2>2, <2>3
    DEF Step, Fail, ReadSession, NothingToClose, ClaimReads, ReplyReads, ReplyCounts, Stamp,
        Assign, Greet, Pick, PickCounts, PickRotates, Recheck, Close, Drain, DrainCounts,
        DrainTakes, Sync, timers
<1>4. ASSUME NEW t \in Tasks, Requests(t) PROVE Goal
  <2>1. CASE \E s \in Sessions : ClearSessionTimers(s)
    BY <1>2, <2>1
  <2> QED
    BY <1>1, <1>4, <2>1
    DEF Requests, VisitorStart, OperatorJoin, SetStatus, OperatorOffline, VisitorMessage,
        VisitorFormActivity, VisitorRejoin, VisitorCloseSession, VisitorLeaveContactInfo,
        ReopenSession, RestAssign, OperatorJoinSession, OperatorMessage, OperatorCloseSession,
        timers
<1>5. ASSUME NEW s \in Sessions, TimersFire(s) PROVE Goal
  <2>1. CASE InactivityWarning(s) \/ AbandonWarning(s) \/ QueueWaitMessage(s)
    BY <1>0, <2>1
    DEF InactivityWarning, AbandonWarning, QueueWaitMessage, IInv, MapsOK, ArmsOnly
  <2>2. ASSUME NEW t \in Tasks, AbandonClose(t, s) \/ GraceClose(t, s) PROVE Goal
    BY <1>0, <2>2 DEF AbandonClose, GraceClose, IInv, MapsOK, ArmsOnly
  <2>3. ASSUME NEW t \in Tasks, InactivityClose(t, s) PROVE Goal
    BY <1>2, <2>3 DEF InactivityClose
  <2> QED
    BY <1>5, <2>1, <2>2, <2>3 DEF TimersFire
<1>6. CASE Instant
  <2>1. ASSUME NEW s \in Sessions, VisitorDisconnect(s) PROVE Goal
    BY <1>0, <2>1 DEF VisitorDisconnect, IInv, MapsOK, ArmsOnly
  <2>2. CASE Restart
    BY <1>0, <2>2 DEF Restart, IInv, MapsOK, ArmsOnly
  <2> QED
    BY <1>1, <1>6, <2>1, <2>2 DEF Instant, RestClose, RestReopen, SaveLimit, timers
<1> QED
  BY <1>3, <1>4, <1>5, <1>6 DEF Next

LEMMA KnownNext == IInv /\ KnownInv /\ [Next]_vars => KnownInv'
<1> SUFFICES ASSUME IInv, KnownInv, [Next]_vars PROVE KnownInv'
  OBVIOUS
<1>1. CASE UNCHANGED vars
  BY <1>1 DEF vars, timers, KnownInv, RowsKnown, TimersOfKnown, Known
<1>2. CASE Next
  <2>1. /\ RowsKnown' /\ StaysKnown
        /\ \A t \in Tasks : \/ task'[t] = task[t]
                            \/ task'[t].at \in OfSession => session'[task'[t].s].status # "none"
    BY <1>2, RequestsKnown, StepsKnown, TimersKnown, InstantKnown DEF Next, Others
  <2>2. TimersOfKnown'
    <3>1. \A s \in Sessions : s # 0
      BY BoundsAreCounts DEF Sessions
    <3>2. CASE ArmsOnly(0)
      BY <2>1, <3>1, <3>2 DEF KnownInv, TimersOfKnown, ArmsOnly, StaysKnown
    <3>3. ASSUME NEW s \in Sessions, Known(s), ArmsOnly(s) PROVE TimersOfKnown'
      BY <2>1, <3>3 DEF KnownInv, TimersOfKnown, ArmsOnly, StaysKnown
    <3> QED
      BY <1>2, <3>2, <3>3, TimersArmed
  <2>3. ASSUME NEW t \in Tasks, task'[t].at \in OfSession
        PROVE  session'[task'[t].s].status # "none"
    BY <2>1, <2>3, InFlight DEF KnownInv, StaysKnown, Known
  <2> QED
    BY <2>1, <2>2, <2>3 DEF KnownInv, Known
<1> QED
  BY <1>1, <1>2

LEMMA KnownInit == Init => KnownInv
<1>1. \A s \in Sessions : \A r \in 1 .. s - 1 : r \in Sessions
  BY BoundsAreCounts DEF Sessions
<1> QED
  BY <1>1 DEF Init, KnownInv, RowsKnown, TimersOfKnown, Known, NoSession, Idle, OfSession

-----------------------------------------------------------------------------
(* Which handlers come to which place *)

RoleOK(k) ==
  /\ k.at \in {"pick", "counts", "rotate", "recheck", "park"} => k.handler = "start"
  /\ k.at \in {"drain", "count", "take"} => k.handler \in Draining
  /\ k.at \in {"stamp", "assign"} => k.handler \in Draining \cup {"start", "reply", "claim", "assign"}
  /\ k.at \in {"notify", "greet"} => k.handler \in Draining \cup {"start"}
  /\ k.at = "arm" => k.handler \in Draining \cup {"start", "reply", "reopen"}
  /\ k.at = "capacity" => k.handler = "reply"
  /\ k.at = "rearm" => k.handler = "rejoin"
  /\ k.at = "read" => k.handler \in {"message", "form", "rejoin", "leave", "abandon", "vanish",
                                     "claim", "reply"}
  /\ k.at = "sync" => k.handler \in {"join", "status", "offline"}
  /\ k.at = "idle" => k.handler = "none"
  /\ k.handler \in {"claim", "reply"} => k.o \in Operators
  /\ k.handler = "start" /\ k.at \in {"stamp", "assign", "notify", "greet"} => k.o \in Operators
  /\ k.handler = "claim" => "claim" \in Handlers
  /\ k.handler = "reply" => "reply" \in Handlers
  /\ k.handler = "assign" => "restAssign" \in Handlers
  /\ k.handler = "reopen" => "reopen" \in Handlers

RolesInv == \A t \in Tasks : RoleOK(task[t])

(* The chats that a handler may still give to o, by the count it has       *)
(* taken: each number above that count, up to the limit l, is one.         *)
Room(k, o, l) ==
  {i \in 1 .. l :
     \/ /\ k.handler \in Draining /\ k.o = o
        /\ \/ k.at \in {"take", "stamp", "assign"} /\ k.n < i
           \/ k.at \in {"notify", "greet", "arm"} /\ k.n + 1 < i
     \/ /\ k.handler = "start" /\ i = 1
        /\ \/ k.at = "rotate" /\ o \in k.pool
           \/ k.at \in {"stamp", "assign"} /\ k.o = o
     \/ k.handler = "reply" /\ i = 1 /\ k.at \in {"stamp", "assign"} /\ k.o = o}

NoRoom(k) ==
  /\ k.at \in {"stamp", "assign"} => k.handler \notin Draining
  /\ \A o : \A l \in Nat : Room(k, o, l) = {}

LEMMA IdleRole == RoleOK(Idle) /\ NoRoom(Idle)
BY DEF RoleOK, NoRoom, Room, Idle, Draining

LEMMA BeginRole ==
  ASSUME IInv, NEW t \in Tasks, NEW s, NEW o, NEW handler, NEW at, Begin(t, handler, at, s, o),
         \/ handler \in Draining /\ at = "drain"
         \/ handler \in {"join", "status", "offline"} /\ at = "sync"
         \/ handler = "start" /\ at = "pick"
         \/ handler \in {"message", "form", "rejoin", "leave", "abandon", "vanish"} /\ at = "read"
         \/ handler = "reply" /\ at = "read" /\ o \in Operators /\ "reply" \in Handlers
         \/ handler = "claim" /\ at = "read" /\ o \in Operators /\ "claim" \in Handlers
         \/ handler = "assign" /\ at = "stamp" /\ "restAssign" \in Handlers
         \/ handler = "reopen" /\ at = "arm" /\ "reopen" \in Handlers
         \/ handler \in Closing /\ at = "close"
  PROVE  Others(t) /\ RoleOK(task'[t]) /\ NoRoom(task'[t])
<1>1. Others(t) /\ task'[t].at = at /\ task'[t].handler = handler /\ task'[t].o = o
  BY BeginFields
<1>2. RoleOK(task'[t])
  BY <1>1 DEF RoleOK, Draining, Closing
<1>3. NoRoom(task'[t])
  BY <1>1 DEF NoRoom, Room, Draining, Closing
<1> QED
  BY <1>1, <1>2, <1>3

LEMMA RequestsRoles ==
  ASSUME IInv, NEW t \in Tasks, Requests(t)
  PROVE  Others(t) /\ RoleOK(task'[t]) /\ NoRoom(task'[t])
<1>1. CASE VisitorStart(t)
  BY <1>1, BeginRole DEF VisitorStart
<1>2. ASSUME NEW o \in Operators, OperatorJoin(t, o) \/ SetStatus(t, o) \/ OperatorOffline(t, o)
      PROVE  Others(t) /\ RoleOK(task'[t]) /\ NoRoom(task'[t])
  <2>1. CASE OperatorJoin(t, o)
    BY <2>1, BeginRole DEF OperatorJoin, Draining
  <2>2. CASE SetStatus(t, o)
    <3>1. Begin(t, "status", "drain", 0, o) \/ Begin(t, "status", "sync", 0, o)
      BY <2>2 DEF SetStatus
    <3> QED
      BY <3>1, BeginRole DEF Draining
  <2>3. CASE OperatorOffline(t, o)
    BY <2>3, BeginRole DEF OperatorOffline
  <2> QED
    BY <1>2, <2>1, <2>2, <2>3
<1>3. ASSUME NEW s \in Sessions,
             \/ VisitorMessage(t, s) \/ VisitorFormActivity(t, s) \/ VisitorRejoin(t, s)
             \/ VisitorCloseSession(t, s) \/ VisitorLeaveContactInfo(t, s)
             \/ ReopenSession(t, s)
      PROVE  Others(t) /\ RoleOK(task'[t]) /\ NoRoom(task'[t])
  BY <1>3, BeginRole
  DEF VisitorMessage, VisitorFormActivity, VisitorRejoin, VisitorCloseSession,
      VisitorLeaveContactInfo, ReopenSession, Receives, Closing
<1>4. ASSUME NEW s \in Sessions, RestAssign(t, s)
      PROVE  Others(t) /\ RoleOK(task'[t]) /\ NoRoom(task'[t])
  BY <1>4, BeginRole DEF RestAssign, Receives
<1>5. ASSUME NEW s \in Sessions, NEW o \in Operators,
             \/ OperatorJoinSession(t, s, o) \/ OperatorMessage(t, s, o)
             \/ OperatorCloseSession(t, s, o)
      PROVE  Others(t) /\ RoleOK(task'[t]) /\ NoRoom(task'[t])
  BY <1>5, BeginRole
  DEF OperatorJoinSession, OperatorMessage, OperatorCloseSession, Receives, Closing
<1> QED
  BY <1>1, <1>2, <1>3, <1>4, <1>5 DEF Requests

LEMMA StepsRoles ==
  ASSUME IInv, RolesInv, NEW t \in Tasks, Step(t) \/ Fail(t)
  PROVE  RoleOK(task'[t])
<1>0. RoleOK(task[t])
  BY DEF RolesInv
<1>1. CASE ReadSession(t) \/ Stamp(t) \/ Recheck(t)
  <2>1. /\ task'[t].handler = task[t].handler /\ task'[t].o = task[t].o
        /\ \/ task[t].at = "read" /\ task'[t].at = "react"
           \/ task[t].at = "stamp" /\ task'[t].at = "assign"
           \/ task[t].at = "recheck" /\ task'[t].at = "park"
    <3>1. CASE ReadSession(t)
      BY <3>1, ReadFields DEF ReadSession
    <3>2. CASE Stamp(t)
      BY <3>2, ReadFields DEF Stamp
    <3>3. CASE Recheck(t)
      BY <3>3, ReadFields DEF Recheck
    <3> QED
      BY <1>1, <3>1, <3>2, <3>3
  <2> QED
    BY <1>0, <2>1 DEF RoleOK
<1>2. CASE \/ MessageReacts(t) \/ FormReacts(t) \/ RejoinRearms(t) \/ NothingToClose(t)
           \/ Park(t) \/ Sync(t)
  BY <1>2, EndFields, IdleRole
  DEF MessageReacts, FormReacts, RejoinRearms, NothingToClose, Park, Sync
<1>3. CASE RejoinReacts(t)
  <2>1. task'[t].at = "rearm" /\ task'[t].handler = "rejoin"
    BY <1>3 DEF RejoinReacts, Reacts, IInv, TaskType
  <2> QED
    BY <2>1 DEF RoleOK
<1>4. CASE CloseAfterRead(t) \/ ClaimReads(t) \/ ReplyReads(t) \/ ReplyCounts(t)
  <2>1. CASE End(t)
    BY <2>1, EndFields, IdleRole
  <2>2. CASE Go(t, "close") /\ (Reacts(t, "leave") \/ Reacts(t, "abandon") \/ Reacts(t, "vanish"))
    BY <2>2, GoFields DEF RoleOK, Reacts
  <2>3. CASE Go(t, "stamp") /\ task[t].handler \in {"claim", "reply"}
    BY <1>0, <2>3, GoFields DEF RoleOK
  <2>4. CASE (Go(t, "capacity") \/ Go(t, "arm")) /\ task[t].handler = "reply"
    BY <1>0, <2>4, GoFields DEF RoleOK
  <2> QED
    BY <1>0, <1>4, <2>1, <2>2, <2>3, <2>4
    DEF CloseAfterRead, GoesOnToClose, ClaimReads, ReplyReads, ReplyCounts, RoleOK
<1>5. CASE Assign(t) \/ Notify(t) \/ Greet(t)
  <2>1. CASE End(t)
    BY <2>1, EndFields, IdleRole
  <2>2. CASE /\ Go(t, "notify") \/ Go(t, "greet") \/ Go(t, "arm")
             /\ task[t].handler \in Draining \cup {"start"}
             /\ task[t].at \in {"assign", "notify", "greet"}
    <3>1. /\ task'[t].at \in {"notify", "greet", "arm"} /\ task'[t].handler = task[t].handler
          /\ task'[t].o = task[t].o
      BY <2>2, GoFields
    <3> QED
      BY <1>0, <2>2, <3>1 DEF RoleOK, Draining
  <2>3. CASE Go(t, "arm") /\ task[t].handler = "reply"
    BY <1>0, <2>3, GoFields DEF RoleOK
  <2> QED
    BY <1>0, <1>5, <2>1, <2>2, <2>3 DEF Assign, Automatic, Notify, Greet, RoleOK
<1>6. CASE Arm(t)
  <2>1. CASE End(t)
    BY <2>1, EndFields, IdleRole
  <2>2. CASE task[t].handler = "start" /\ Go(t, "recheck")
    BY <2>2, GoFields DEF RoleOK
  <2>3. CASE /\ task[t].handler \in Draining
             /\ task' = [task EXCEPT ![t].at = "take", ![t].s = 0, ![t].n = @ + 1,
                                     ![t].seen = NoSession]
    <3>1. task'[t].at = "take" /\ task'[t].handler = task[t].handler
      BY <2>3 DEF IInv, TaskType
    <3> QED
      BY <2>3, <3>1 DEF RoleOK, Draining
  <2> QED
    BY <1>6, <2>1, <2>2, <2>3 DEF Arm
<1>7. CASE Pick(t) \/ PickCounts(t) \/ PickRotates(t)
  <2>1. /\ task'[t].handler = task[t].handler /\ task[t].handler = "start"
        /\ \/ task'[t].at \in {"recheck", "counts", "rotate"}
           \/ task'[t].at = "stamp" /\ task'[t].o \in Operators
    <3>0. task \in [Tasks -> TaskType] /\ task[t] \in TaskType /\ task[t].pool \subseteq Operators
      BY DEF IInv, TaskType
    <3>1. CASE Pick(t)
      BY <1>0, <3>0, <3>1 DEF Pick, RoleOK, TaskType
    <3>2. CASE PickCounts(t)
      BY <1>0, <3>0, <3>2 DEF PickCounts, RoleOK, TaskType
    <3>3. CASE PickRotates(t)
      <4>1. task[t].handler = "start"
        BY <1>0, <3>3 DEF PickRotates, RoleOK
      <4>2. ASSUME NEW o \in task[t].pool,
                   task' = [task EXCEPT ![t].at = "stamp", ![t].o = o, ![t].pool = {}]
            PROVE  task'[t].at = "stamp" /\ task'[t].o = o /\ task'[t].handler = task[t].handler
        BY <3>0, <4>2 DEF TaskType
      <4>3. ASSUME task' = [task EXCEPT ![t].at = "recheck", ![t].pool = {}]
            PROVE  task'[t].at = "recheck" /\ task'[t].handler = task[t].handler
        BY <3>0, <4>3 DEF TaskType
      <4> QED
        BY <3>0, <3>3, <4>1, <4>2, <4>3 DEF PickRotates
    <3> QED
      BY <1>7, <3>1, <3>2, <3>3
  <2> QED
    BY <2>1 DEF RoleOK
<1>8. ASSUME DrainEnds(t), task[t].handler \in Draining PROVE RoleOK(task'[t])
  <2>1. CASE End(t)
    BY <2>1, EndFields, IdleRole
  <2>2. CASE task[t].handler # "drain" /\ Begin(t, task[t].handler, "sync", 0, task[t].o)
    BY <1>8, <2>2, BeginRole DEF Draining
  <2> QED
    BY <1>8, <2>1, <2>2 DEF DrainEnds
<1>9. CASE Close(t) \/ Drain(t) \/ DrainCounts(t)
  <2>1. CASE End(t)
    BY <2>1, EndFields, IdleRole
  <2>2. ASSUME NEW o, Begin(t, "drain", "drain", 0, o) PROVE RoleOK(task'[t])
    BY <2>2, BeginRole DEF Draining
  <2>3. CASE Drain(t)
    BY <1>0, <1>8, <2>3, GoFields DEF Drain, RoleOK, Draining
  <2>4. CASE DrainCounts(t)
    <3>1. task'[t].at = "take" /\ task'[t].handler = task[t].handler
      BY <2>4 DEF DrainCounts, IInv, TaskType
    <3> QED
      BY <1>0, <2>4, <3>1 DEF DrainCounts, RoleOK, Draining
  <2> QED
    BY <1>9, <2>1, <2>2, <2>3, <2>4 DEF Close
<1>10. CASE DrainTakes(t)
  <2>1. ASSUME NEW s \in Sessions, task' = [task EXCEPT ![t].at = "stamp", ![t].s = s]
        PROVE  task'[t].at = "stamp" /\ task'[t].handler = task[t].handler
    BY <2>1 DEF IInv, TaskType
  <2> QED
    BY <1>0, <1>8, <1>10, <2>1 DEF DrainTakes, RoleOK, Draining
<1>11. CASE Fail(t)
  BY <1>8, <1>11, EndFields, IdleRole DEF Fail, Draining
<1> QED
  BY <1>1, <1>2, <1>3, <1>4, <1>5, <1>6, <1>7, <1>9, <1>10, <1>11 DEF Step

LEMMA TimersRoles ==
  ASSUME IInv, NEW s \in Sessions, TimersFire(s)
  PROVE  \/ UNCHANGED task
         \/ \E t \in Tasks : Others(t) /\ RoleOK(task'[t]) /\ NoRoom(task'[t])
<1>1. ASSUME NEW t \in Tasks, InactivityClose(t, s) \/ AbandonClose(t, s) \/ GraceClose(t, s)
      PROVE  Others(t) /\ RoleOK(task'[t]) /\ NoRoom(task'[t])
  BY <1>1, BeginRole DEF InactivityClose, AbandonClose, GraceClose, Closing
<1> QED
  BY <1>1 DEF TimersFire, InactivityWarning, AbandonWarning, QueueWaitMessage

LEMMA InstantRoles ==
  ASSUME IInv, Instant
  PROVE  UNCHANGED task \/ \A t \in Tasks : task'[t] = Idle
<1>1. CASE Restart
  BY <1>1 DEF Restart
<1>2. CASE ~Restart
  BY <1>2 DEF Instant, VisitorDisconnect, RestClose, RestReopen, SaveLimit
<1> QED
  BY <1>1, <1>2

LEMMA RolesNext == IInv /\ RolesInv /\ [Next]_vars => RolesInv'
<1> SUFFICES ASSUME IInv, RolesInv, [Next]_vars PROVE RolesInv'
  OBVIOUS
<1>1. CASE UNCHANGED task
  BY <1>1 DEF RolesInv
<1>2. ASSUME NEW t \in Tasks, Others(t), RoleOK(task'[t]) PROVE RolesInv'
  BY <1>2 DEF RolesInv, Others
<1>3. CASE \A t \in Tasks : task'[t] = Idle
  BY <1>3, IdleRole DEF RolesInv
<1>4. UNCHANGED vars => UNCHANGED task
  BY DEF vars
<1> QED
  BY <1>1, <1>2, <1>3, <1>4, RequestsRoles, StepsRoles, StepsStay, TimersRoles, InstantRoles DEF Next

(* Whose handler has moved, and how.                                       *)
LEMMA WhoActs ==
  ASSUME IInv, RolesInv, Next, NEW t \in Tasks, task'[t] # task[t]
  PROVE  \/ Requests(t)
         \/ Step(t) \/ Fail(t)
         \/ \E s \in Sessions : InactivityClose(t, s) \/ AbandonClose(t, s) \/ GraceClose(t, s)
         \/ Restart
<1>2. ASSUME NEW u \in Tasks, Others(u) PROVE u = t
  BY <1>2 DEF Others
<1>3. ASSUME NEW u \in Tasks, Requests(u) \/ Step(u) \/ Fail(u)
      PROVE  Requests(t) \/ Step(t) \/ Fail(t)
  BY <1>2, <1>3, RequestsRoles, StepsStay
<1>4. ASSUME NEW s \in Sessions, NEW u \in Tasks,
             InactivityClose(u, s) \/ AbandonClose(u, s) \/ GraceClose(u, s)
      PROVE  u = t
  <2>1. Others(u)
    BY <1>4, BeginFields DEF InactivityClose, AbandonClose, GraceClose
  <2> QED
    BY <1>2, <2>1
<1>5. ~UNCHANGED task
  OBVIOUS
<1> QED
  BY <1>3, <1>4, <1>5
  DEF Next, TimersFire, InactivityWarning, AbandonWarning, QueueWaitMessage, Instant,
      VisitorDisconnect, RestClose, RestReopen, SaveLimit

-----------------------------------------------------------------------------
(* Chats that are and may be an operator's                                 *)

Held(o) == {s \in Sessions : session[s].status = "open" /\ session[s].operator = o}

(* What all handlers may still give to o, each chat with its handler.      *)
ClaimSet(tasks, o, l) == {c \in Tasks \X (1 .. l) : c[2] \in Room(tasks[c[1]], o, l)}

LEMMA ClaimsAreFinite ==
  ASSUME NEW tasks, NEW o, NEW l \in Nat
  PROVE  IsFiniteSet(ClaimSet(tasks, o, l)) /\ Cardinality(ClaimSet(tasks, o, l)) \in Nat
<1>0. IsFiniteSet(1 .. l)
  BY FS_Interval
<1>1. IsFiniteSet(Tasks \X (1 .. l))
  BY <1>0, FS_Product, TasksAreFinite
<1>2. IsFiniteSet(ClaimSet(tasks, o, l))
  BY <1>1, FS_Subset DEF ClaimSet
<1> QED
  BY <1>2, FS_CardinalityType

LEMMA FewerClaims ==
  ASSUME NEW f, NEW g, NEW o, NEW l \in Nat,
         \A u \in Tasks : Room(g[u], o, l) \subseteq Room(f[u], o, l)
  PROVE  Cardinality(ClaimSet(g, o, l)) <= Cardinality(ClaimSet(f, o, l))
<1>1. ClaimSet(g, o, l) \subseteq ClaimSet(f, o, l)
  BY DEF ClaimSet
<1> QED
  BY <1>1, ClaimsAreFinite, FS_Subset

LEMMA OneClaimLess ==
  ASSUME NEW f, NEW g, NEW o, NEW l \in Nat,
         \A u \in Tasks : Room(g[u], o, l) \subseteq Room(f[u], o, l),
         NEW t \in Tasks, NEW i \in Room(f[t], o, l), i \notin Room(g[t], o, l)
  PROVE  Cardinality(ClaimSet(g, o, l)) + 1 <= Cardinality(ClaimSet(f, o, l))
<1> DEFINE C == ClaimSet(f, o, l)
           D == ClaimSet(g, o, l)
<1>1. <<t, i>> \in C /\ <<t, i>> \notin D /\ D \subseteq C
  BY DEF ClaimSet, Room
<1>2. IsFiniteSet(C) /\ Cardinality(C) \in Nat /\ Cardinality(D) \in Nat
  BY ClaimsAreFinite
<1> HIDE DEF C, D
<1>3. Cardinality(C \ {<<t, i>>}) = Cardinality(C) - 1 /\ IsFiniteSet(C \ {<<t, i>>})
  BY <1>1, <1>2, FS_RemoveElement
<1>4. D \subseteq C \ {<<t, i>>}
  BY <1>1
<1>5. Cardinality(D) <= Cardinality(C \ {<<t, i>>})
  BY <1>3, <1>4, FS_Subset
<1>6. Cardinality(D) + 1 <= Cardinality(C)
  BY <1>2, <1>3, <1>5
<1> QED
  BY <1>6 DEF C, D

(* A handler that has just counted m chats may add what is missing from    *)
(* the limit; each of the others, the limit.                               *)
LEMMA ClaimsAfterCount ==
  ASSUME NEW f, NEW o, NEW l \in Nat, NEW t \in Tasks, NEW m \in Nat, m <= l,
         \A i \in Room(f[t], o, l) : m < i \/ (i = 1 /\ m < l /\ \A j \in Room(f[t], o, l) : j = 1)
  PROVE  m + Cardinality(ClaimSet(f, o, l)) <= Cardinality(Tasks) * l
<1> DEFINE K == Cardinality(Tasks)
           own == {t} \X Room(f[t], o, l)
           rest == (Tasks \ {t}) \X (1 .. l)
<1>1. /\ K \in Nat /\ IsFiniteSet(Tasks \ {t}) /\ Cardinality(Tasks \ {t}) = K - 1
  BY TasksAreFinite, FS_CardinalityType, FS_RemoveElement
<1>2. IsFiniteSet(1 .. l) /\ Cardinality(1 .. l) = l
  BY FS_Interval
<1>3. IsFiniteSet(rest) /\ Cardinality(rest) = (K - 1) * l
  BY <1>1, <1>2, FS_Product
<1>4. IsFiniteSet(Room(f[t], o, l)) /\ Cardinality(Room(f[t], o, l)) <= l - m
  <2>1. CASE \A i \in Room(f[t], o, l) : m < i
    <3>1. Room(f[t], o, l) \subseteq (m + 1) .. l
      BY <2>1 DEF Room
    <3>2. IsFiniteSet((m + 1) .. l) /\ Cardinality((m + 1) .. l) = l - m
      <4>1. m + 1 \in Int /\ l \in Int
        OBVIOUS
      <4>2. /\ IsFiniteSet((m + 1) .. l)
            /\ Cardinality((m + 1) .. l) = IF m + 1 > l THEN 0 ELSE l - (m + 1) + 1
        BY <4>1, FS_Interval
      <4> QED
        BY <4>2
    <3> QED
      BY <3>1, <3>2, FS_Subset
  <2>2. CASE m < l /\ \A j \in Room(f[t], o, l) : j = 1
    <3>1. Room(f[t], o, l) \subseteq {1}
      BY <2>2
    <3>2. IsFiniteSet({1}) /\ Cardinality({1}) = 1
      BY FS_Singleton
    <3>3. Cardinality(Room(f[t], o, l)) <= 1 /\ IsFiniteSet(Room(f[t], o, l))
      BY <3>1, <3>2, FS_Subset
    <3>4. Cardinality(Room(f[t], o, l)) \in Nat
      BY <3>3, FS_CardinalityType
    <3> QED
      BY <2>2, <3>3, <3>4
  <2> QED
    BY <2>1, <2>2
<1>5. IsFiniteSet({t}) /\ Cardinality({t}) = 1
  BY FS_Singleton
<1>6. IsFiniteSet(own) /\ Cardinality(own) = 1 * Cardinality(Room(f[t], o, l))
  BY <1>4, <1>5, FS_Product
<1>7. Cardinality(Room(f[t], o, l)) \in Nat
  BY <1>4, FS_CardinalityType
<1>8. Cardinality(own) <= l - m /\ Cardinality(own) \in Nat
  BY <1>4, <1>6, <1>7
<1>9. ClaimSet(f, o, l) \subseteq own \cup rest
  BY DEF ClaimSet
<1> HIDE DEF own, rest, K
<1>10. IsFiniteSet(own \cup rest) /\ Cardinality(own \cup rest) <= Cardinality(own) + Cardinality(rest)
  <2>1. /\ IsFiniteSet(own \cup rest)
        /\ Cardinality(own \cup rest) = Cardinality(own) + Cardinality(rest) - Cardinality(own \cap rest)
    BY <1>3, <1>6, FS_Union
  <2>2. Cardinality(own \cap rest) \in Nat
    BY <1>3, FS_Subset, FS_CardinalityType
  <2>3. Cardinality(rest) \in Nat
    BY <1>3, FS_CardinalityType
  <2> QED
    BY <1>8, <2>1, <2>2, <2>3
<1>11. Cardinality(ClaimSet(f, o, l)) <= Cardinality(own \cup rest)
  BY <1>9, <1>10, FS_Subset
<1>12. (K - 1) * l = K * l - l /\ K * l \in Int
  BY <1>1
<1>13. Cardinality(ClaimSet(f, o, l)) \in Nat /\ Cardinality(rest) \in Nat /\ Cardinality(own \cup rest) \in Nat
  BY ClaimsAreFinite, <1>3, <1>10, FS_CardinalityType
<1>14. m + Cardinality(ClaimSet(f, o, l)) <= K * l
  BY <1>3, <1>8, <1>10, <1>11, <1>12, <1>13
<1> QED
  BY <1>14 DEF K

-----------------------------------------------------------------------------
(* The limit                                                               *)

NoOverbooking == Handlers \cap {"config", "claim", "restAssign", "reopen", "restReopen"} = {}

CountedRoom == \A t \in Tasks :
  task[t].at \in {"stamp", "assign"} /\ task[t].handler \in Draining => task[t].n < limit

LimitInv ==
  /\ limit \in Nat \ {0}
  /\ CountedRoom
  /\ \A o \in Operators :
       Load(o) + Cardinality(ClaimSet(task, o, limit)) <= Cardinality(Tasks) * limit

(* A step that takes no count and assigns nobody leaves a handler no more  *)
(* to give than it had.                                                    *)
RoomShrinks(t) == \A o \in Operators : Room(task'[t], o, limit) \subseteq Room(task[t], o, limit)

Counts(t) == DrainCounts(t) \/ PickCounts(t) \/ ReplyCounts(t)

LEMMA StepsRoom ==
  ASSUME IInv, RolesInv, CountedRoom, limit \in Nat \ {0}, NoOverbooking, NEW t \in Tasks,
         Step(t) \/ Fail(t), ~Assign(t), ~Counts(t)
  PROVE  /\ RoomShrinks(t)
         /\ task'[t].at \in {"stamp", "assign"} /\ task'[t].handler \in Draining => task'[t].n < limit
<1> DEFINE Fine == task'[t].at \in {"stamp", "assign"} /\ task'[t].handler \in Draining
                     => task'[t].n < limit
<1>0. /\ RoleOK(task[t]) /\ task[t] \in TaskType /\ task \in [Tasks -> TaskType]
      /\ task[t].at \in {"stamp", "assign"} /\ task[t].handler \in Draining => task[t].n < limit
  BY DEF RolesInv, IInv, CountedRoom
<1>1. ASSUME task'[t] = Idle PROVE RoomShrinks(t) /\ Fine
  BY <1>1, IdleRole DEF RoomShrinks, NoRoom, Idle
<1>2. ASSUME task'[t].at \in {"idle", "read", "react", "rearm", "capacity", "recheck", "park", "close",
                              "drain", "count", "sync", "pick", "counts"}
      PROVE  RoomShrinks(t) /\ Fine
  BY <1>2 DEF RoomShrinks, Room
<1>3. ASSUME task'[t].at = "arm", task'[t].handler \notin Draining
      PROVE  RoomShrinks(t) /\ Fine
  BY <1>3 DEF RoomShrinks, Room
<1>4. CASE ReadSession(t) \/ Recheck(t)
  <2>1. CASE ReadSession(t)
    BY <1>0, <1>2, <2>1, ReadFields DEF ReadSession
  <2>2. CASE Recheck(t)
    BY <1>0, <1>2, <2>2, ReadFields DEF Recheck
  <2> QED
    BY <1>4, <2>1, <2>2
<1>5. CASE \/ MessageReacts(t) \/ FormReacts(t) \/ RejoinRearms(t) \/ NothingToClose(t)
           \/ Park(t) \/ Sync(t)
  BY <1>1, <1>5, EndFields
  DEF MessageReacts, FormReacts, RejoinRearms, NothingToClose, Park, Sync
<1>6. CASE RejoinReacts(t)
  <2>1. task'[t].at = "rearm"
    BY <1>0, <1>6 DEF RejoinReacts, TaskType
  <2> QED
    BY <1>2, <2>1
<1>7. CASE Stamp(t)
  <2>1. /\ task[t].at = "stamp" /\ task'[t].at = "assign" /\ task'[t].handler = task[t].handler
        /\ task'[t].o = task[t].o /\ task'[t].n = task[t].n
    BY <1>7, ReadFields DEF Stamp
  <2>2. RoomShrinks(t)
    BY <2>1 DEF RoomShrinks, Room, Draining
  <2> QED
    BY <1>0, <2>1, <2>2
<1>8. CASE CloseAfterRead(t) \/ ClaimReads(t) \/ ReplyReads(t)
  <2>1. CASE CloseAfterRead(t)
    BY <1>2, <2>1, GoFields DEF CloseAfterRead
  <2>2. ~ClaimReads(t)
    BY <1>0 DEF ClaimReads, RoleOK, NoOverbooking
  <2>3. CASE ReplyReads(t)
    <3>1. \/ task'[t] = Idle \/ task'[t].at = "capacity"
          \/ task'[t].at = "arm" /\ task'[t].handler = "reply"
      BY <2>3, GoFields, EndFields DEF ReplyReads
    <3> QED
      BY <1>1, <1>2, <1>3, <3>1 DEF Draining
  <2> QED
    BY <1>8, <2>1, <2>2, <2>3
<1>9. CASE Notify(t) \/ Greet(t)
  <2>1. /\ task[t].at \in {"notify", "greet"} /\ task'[t].at \in {"greet", "arm"}
        /\ task'[t].handler = task[t].handler
        /\ task'[t].o = task[t].o /\ task'[t].n = task[t].n
    BY <1>9, GoFields DEF Notify, Greet
  <2> QED
    BY <2>1 DEF RoomShrinks, Room, Draining
<1>10. CASE Arm(t)
  <2>1. CASE End(t)
    BY <1>1, <2>1, EndFields
  <2>2. CASE Go(t, "recheck")
    BY <1>2, <2>2, GoFields
  <2>3. CASE /\ task[t].handler \in Draining
             /\ task' = [task EXCEPT ![t].at = "take", ![t].s = 0, ![t].n = @ + 1,
                                     ![t].seen = NoSession]
    <3>1. /\ task'[t].at = "take" /\ task'[t].handler = task[t].handler
          /\ task'[t].o = task[t].o /\ task'[t].n = task[t].n + 1 /\ task[t].at = "arm"
          /\ task[t].n \in Nat
      BY <1>0, <1>10, <2>3 DEF TaskType, Arm
    <3> QED
      BY <3>1, <2>3 DEF RoomShrinks, Room, Draining
  <2> QED
    BY <1>10, <2>1, <2>2, <2>3 DEF Arm
<1>11. CASE Pick(t) \/ PickRotates(t)
  <2>1. CASE Pick(t)
    <3>1. task'[t].at \in {"recheck", "counts"}
      BY <1>0, <2>1 DEF Pick, TaskType
    <3> QED
      BY <1>2, <3>1
  <2>2. ASSUME NEW o \in task[t].pool, task[t].at = "rotate",
               task' = [task EXCEPT ![t].at = "stamp", ![t].o = o, ![t].pool = {}]
        PROVE  RoomShrinks(t) /\ Fine
    <3>1. /\ task'[t].at = "stamp" /\ task'[t].o = o /\ task'[t].handler = "start"
          /\ task[t].handler = "start"
      BY <1>0, <2>2 DEF RoleOK, TaskType
    <3> QED
      BY <2>2, <3>1 DEF RoomShrinks, Room, Draining
  <2>3. CASE task' = [task EXCEPT ![t].at = "recheck", ![t].pool = {}]
    <3>1. task'[t].at = "recheck"
      BY <1>0, <2>3 DEF TaskType
    <3> QED
      BY <1>2, <3>1
  <2> QED
    BY <1>11, <2>1, <2>2, <2>3 DEF PickRotates
<1>12. ASSUME DrainEnds(t) PROVE RoomShrinks(t) /\ Fine
  <2>1. task'[t] = Idle \/ task'[t].at = "sync"
    BY <1>12, EndFields, BeginFields DEF DrainEnds
  <2> QED
    BY <1>1, <1>2, <2>1
<1>13. CASE Close(t)
  <2>1. task'[t] = Idle \/ task'[t].at = "drain"
    BY <1>13, EndFields, BeginFields DEF Close
  <2> QED
    BY <1>1, <1>2, <2>1
<1>14. CASE Drain(t)
  BY <1>2, <1>12, <1>14, GoFields DEF Drain
<1>15. CASE DrainTakes(t)
  <2>1. ASSUME NEW s \in Sessions, task[t].at = "take", task[t].n < limit,
               task' = [task EXCEPT ![t].at = "stamp", ![t].s = s]
        PROVE  RoomShrinks(t) /\ Fine
    <3>1. /\ task'[t].at = "stamp" /\ task'[t].handler = task[t].handler
          /\ task'[t].o = task[t].o /\ task'[t].n = task[t].n /\ task[t].handler \in Draining
      BY <1>0, <2>1 DEF RoleOK, TaskType
    <3> QED
      BY <2>1, <3>1 DEF RoomShrinks, Room, Draining
  <2> QED
    BY <1>12, <1>15, <2>1 DEF DrainTakes
<1>16. CASE Fail(t)
  BY <1>1, <1>12, <1>16, EndFields DEF Fail
<1> QED
  BY <1>4, <1>5, <1>6, <1>7, <1>8, <1>9, <1>10, <1>11, <1>13, <1>14, <1>15, <1>16 DEF Step, Counts

LEMMA HeldIsLoad ==
  /\ \A o : Load(o) = Cardinality(Held(o)) /\ IsFiniteSet(Held(o)) /\ Load(o) \in Nat
  /\ IsFiniteSet(Sessions)
<1>1. IsFiniteSet(Sessions)
  BY FS_Interval, BoundsAreCounts DEF Sessions
<1> QED
  BY <1>1, FS_Subset, FS_CardinalityType DEF Load, Held

(* Nobody but an assignment or a reopening gives an operator a chat.       *)
LEMMA HeldGrows ==
  ASSUME IInv, KnownInv, Next, \A t \in Tasks : ~Assign(t), NEW o \in Operators
  PROVE  \/ Held(o)' \subseteq Held(o)
         \/ \E s \in Sessions :
              Reopens(s) /\ (RestReopen(s) \/ \E t \in Tasks : ReopenSession(t, s))
<1> DEFINE Goal == \/ Held(o)' \subseteq Held(o)
                   \/ \E s \in Sessions :
                        Reopens(s) /\ (RestReopen(s) \/ \E t \in Tasks : ReopenSession(t, s))
<1> session \in [Sessions -> SessionType] /\ o # Nobody
  BY Facts, SupervisorsAreOperators
<1>1. CASE UNCHANGED session
  BY <1>1 DEF Held
<1>2. ASSUME NEW t \in Tasks, VisitorStart(t) PROVE Goal
  <2>1. PICK s \in Sessions : /\ session[s].status = "none"
                              /\ session' = [session EXCEPT ![s].status = "open"]
    BY <1>2 DEF VisitorStart
  <2>2. session'[s].operator = Nobody /\ \A r \in Sessions \ {s} : session'[r] = session[r]
    BY <2>1 DEF KnownInv, RowsKnown, Known, SessionType
  <2> QED
    BY <2>2 DEF Held
<1>3. ASSUME NEW s \in Sessions, session'[s].status = "closed",
             \A r \in Sessions \ {s} : session'[r] = session[r]
      PROVE  Goal
  BY <1>3 DEF Held
<1>4. ASSUME NEW t \in Tasks, Close(t) PROVE Goal
  <2>1. task[t].s \in Sessions /\ session[task[t].s] \in SessionType
    BY <1>4, InFlight DEF Close, OfSession
  <2> QED
    BY <1>3, <1>4, <2>1 DEF Close, SessionType
<1>5. ASSUME NEW s \in Sessions, RestClose(s) PROVE Goal
  BY <1>3, <1>5 DEF RestClose, SessionType
<1>6. ASSUME NEW s \in Sessions, Known(s), session' = [session EXCEPT ![s].status = "open"],
             RestReopen(s) \/ \E t \in Tasks : ReopenSession(t, s)
      PROVE  Goal
  <2>1. session'[s].status = "open" /\ session'[s].operator = session[s].operator
    BY <1>6 DEF SessionType
  <2>2. \A r \in Sessions \ {s} : session'[r] = session[r]
    BY <1>6
  <2>3. CASE session[s].status = "open"
    BY <2>1, <2>2, <2>3 DEF Held
  <2>4. CASE session[s].status # "open"
    <3>1. Reopens(s)
      BY <1>6, <2>1, <2>4 DEF Reopens, Known, SessionType
    <3> QED
      BY <1>6, <3>1
  <2> QED
    BY <2>3, <2>4
<1>7. ASSUME NEW t \in Tasks, NEW s \in Sessions, ReopenSession(t, s) PROVE Goal
  BY <1>6, <1>7 DEF ReopenSession
<1>8. ASSUME NEW s \in Sessions, RestReopen(s) PROVE Goal
  BY <1>6, <1>8 DEF RestReopen
<1>9. ASSUME NEW t \in Tasks, Requests(t), ~VisitorStart(t)
      PROVE  UNCHANGED session \/ \E s \in Sessions : ReopenSession(t, s)
  BY <1>9
  DEF Requests, VisitorStart, OperatorJoin, SetStatus, OperatorOffline, VisitorMessage,
      VisitorFormActivity, VisitorRejoin, VisitorCloseSession, VisitorLeaveContactInfo,
      RestAssign, OperatorJoinSession, OperatorMessage, OperatorCloseSession
<1>10. ASSUME NEW t \in Tasks, Step(t) \/ Fail(t), ~Close(t) PROVE UNCHANGED session
  BY <1>10
  DEF Step, Fail, ReadSession, MessageReacts, FormReacts, RejoinReacts, RejoinRearms,
      CloseAfterRead, NothingToClose, ClaimReads, ReplyReads, ReplyCounts, Stamp, Notify,
      Greet, Arm, Pick, PickCounts, PickRotates, Recheck, Park, Drain, DrainCounts,
      DrainTakes, Sync
<1>11. ASSUME NEW s \in Sessions, TimersFire(s) PROVE UNCHANGED session
  BY <1>11
  DEF TimersFire, InactivityWarning, AbandonWarning, QueueWaitMessage, InactivityClose,
      AbandonClose, GraceClose
<1>12. ASSUME Instant
       PROVE  UNCHANGED session \/ \E s \in Sessions : RestClose(s) \/ RestReopen(s)
  BY <1>12 DEF Instant, VisitorDisconnect, SaveLimit, Restart
<1> HIDE DEF Goal
<1>13. Goal
  <2>1. UNCHANGED session => Goal
    BY <1>1 DEF Goal
  <2>2. ASSUME NEW t \in Tasks, Requests(t) PROVE Goal
    BY <1>2, <1>7, <1>9, <2>1, <2>2
  <2>3. ASSUME NEW t \in Tasks, Step(t) \/ Fail(t) PROVE Goal
    BY <1>4, <1>10, <2>1, <2>3
  <2>4. ASSUME NEW s \in Sessions, TimersFire(s) PROVE Goal
    BY <1>11, <2>1, <2>4
  <2>5. CASE Instant
    BY <1>5, <1>8, <1>12, <2>1, <2>5
  <2> QED
    BY <2>2, <2>3, <2>4, <2>5 DEF Next
<1> QED
  BY <1>13 DEF Goal

LEMMA HeldShrinks ==
  ASSUME IInv, KnownInv, Next, \A t \in Tasks : ~Assign(t),
         Handlers \cap {"reopen", "restReopen"} = {}, NEW o \in Operators
  PROVE  Held(o)' \subseteq Held(o)
<1>1. \A s \in Sessions : ~RestReopen(s) /\ \A t \in Tasks : ~ReopenSession(t, s)
  BY DEF RestReopen, ReopenSession, Receives
<1> QED
  BY <1>1, HeldGrows

LEMMA LimitStays ==
  ASSUME Next, "config" \notin Handlers
  PROVE  limit' = limit
<1>1. ASSUME NEW t \in Tasks, Requests(t) PROVE limit' = limit
  BY <1>1
  DEF Requests, VisitorStart, OperatorJoin, SetStatus, OperatorOffline, VisitorMessage,
      VisitorFormActivity, VisitorRejoin, VisitorCloseSession, VisitorLeaveContactInfo,
      ReopenSession, RestAssign, OperatorJoinSession, OperatorMessage, OperatorCloseSession
<1>2. ASSUME NEW t \in Tasks, Step(t) \/ Fail(t) PROVE limit' = limit
  BY <1>2
  DEF Step, Fail, ReadSession, MessageReacts, FormReacts, RejoinReacts, RejoinRearms,
      CloseAfterRead, NothingToClose, ClaimReads, ReplyReads, ReplyCounts, Stamp, Assign, Notify,
      Greet, Arm, Pick, PickCounts, PickRotates, Recheck, Park, Close, Drain, DrainCounts,
      DrainTakes, Sync
<1>3. ASSUME NEW s \in Sessions, TimersFire(s) PROVE limit' = limit
  BY <1>3
  DEF TimersFire, InactivityWarning, AbandonWarning, QueueWaitMessage, InactivityClose,
      AbandonClose, GraceClose
<1>4. CASE Instant
  BY <1>4 DEF Instant, VisitorDisconnect, RestClose, RestReopen, SaveLimit, Restart
<1> QED
  BY <1>1, <1>2, <1>3, <1>4 DEF Next

(* Who counts an operator's chats finds room for what is missing from the  *)
(* limit.                                                                  *)
LEMMA CountsRoom ==
  ASSUME IInv, RolesInv, limit \in Nat \ {0}, NEW t \in Tasks, Counts(t), NEW o
  PROVE  /\ Others(t) /\ UNCHANGED session
         /\ task'[t].at \in {"stamp", "assign"} => task'[t].handler \notin Draining
         /\ \/ Room(task'[t], o, limit) = {}
            \/ Load(o) < limit /\ \A i \in Room(task'[t], o, limit) : Load(o) < i
            \/ Load(o) < limit /\ \A i \in Room(task'[t], o, limit) : i = 1
<1>0. task \in [Tasks -> TaskType] /\ task[t] \in TaskType /\ RoleOK(task[t]) /\ Load(o) \in Nat
  BY HeldIsLoad DEF IInv, RolesInv
<1>1. CASE DrainCounts(t)
  <2>1. /\ task'[t].at = "take" /\ task'[t].handler \in Draining /\ task'[t].o = task[t].o
        /\ task'[t].n = Load(task[t].o) /\ Others(t) /\ UNCHANGED session
    BY <1>0, <1>1 DEF DrainCounts, TaskType, Others, RoleOK
  <2>2. CASE task[t].o = o
    BY <1>0, <2>1, <2>2 DEF Room, Draining
  <2>3. CASE task[t].o # o
    BY <1>0, <2>1, <2>3 DEF Room, Draining
  <2> QED
    BY <2>1, <2>2, <2>3
<1>2. CASE PickCounts(t)
  <2> DEFINE pool == {p \in task[t].pool : Load(p) < limit}
  <2>0. task' = [task EXCEPT ![t].at = "rotate", ![t].pool = pool]
    BY <1>2 DEF PickCounts
  <2>1. o \in pool => Load(o) < limit
    OBVIOUS
  <2> HIDE DEF pool
  <2>2. /\ task'[t].at = "rotate" /\ task'[t].handler = "start" /\ task'[t].pool = pool
        /\ Others(t) /\ UNCHANGED session
    BY <1>0, <1>2, <2>0 DEF PickCounts, TaskType, Others, RoleOK
  <2> QED
    BY <1>0, <2>1, <2>2 DEF Room, Draining
<1>3. CASE ReplyCounts(t)
  <2>1. /\ Others(t) /\ UNCHANGED session
        /\ \/ task'[t] = Idle
           \/ /\ task'[t].at = "stamp" /\ task'[t].handler = "reply" /\ task'[t].o = task[t].o
              /\ Load(task[t].o) < limit
    BY <1>0, <1>3, GoFields, EndFields DEF ReplyCounts, RoleOK
  <2>2. CASE task'[t] = Idle
    BY <2>1, <2>2, IdleRole DEF NoRoom, Idle
  <2>3. CASE /\ task'[t].at = "stamp" /\ task'[t].handler = "reply" /\ task'[t].o = task[t].o
             /\ Load(task[t].o) < limit
    BY <2>1, <2>3 DEF Room, Draining
  <2> QED
    BY <2>1, <2>2, <2>3
<1> QED
  BY <1>1, <1>2, <1>3 DEF Counts

(* An assignment uses up one chat of what the handler may still give.      *)
LEMMA AssignUsesRoom ==
  ASSUME IInv, RolesInv, CountedRoom, limit \in Nat \ {0}, NoOverbooking, NEW t \in Tasks,
         Assign(t), NEW o
  PROVE  /\ Others(t) /\ limit' = limit /\ task'[t].at \notin {"stamp", "assign"}
         /\ Room(task'[t], o, limit) \subseteq Room(task[t], o, limit)
         /\ \/ Held(o)' \subseteq Held(o)
            \/ \E s \in Sessions, i \in Room(task[t], o, limit) :
                 i \notin Room(task'[t], o, limit) /\ Held(o)' \subseteq Held(o) \cup {s}
<1> DEFINE s == task[t].s
<1>0. /\ task \in [Tasks -> TaskType] /\ task[t] \in TaskType /\ RoleOK(task[t])
      /\ task[t].at = "assign" /\ s \in Sessions /\ session \in [Sessions -> SessionType]
      /\ task[t].n \in Nat /\ (task[t].handler \in Draining => task[t].n < limit)
  BY InFlight, Facts DEF Assign, OfSession, IInv, RolesInv, TaskType, CountedRoom
<1>1. \/ task[t].handler \in Draining \cup {"start"} /\ Go(t, "notify")
      \/ task[t].handler = "reply" /\ Go(t, "arm")
  BY <1>0 DEF Assign, Automatic, RoleOK, NoOverbooking
<1>2. /\ Others(t) /\ task'[t].handler = task[t].handler /\ task'[t].o = task[t].o
      /\ task'[t].n = task[t].n
      /\ \/ task[t].handler \in Draining \cup {"start"} /\ task'[t].at = "notify"
         \/ task[t].handler = "reply" /\ task'[t].at = "arm"
  BY <1>1, GoFields
<1>3. Room(task'[t], o, limit) \subseteq Room(task[t], o, limit)
  BY <1>0, <1>2 DEF Room, Draining
<1>4. limit' = limit /\ session' = [session EXCEPT ![s] = Assigned(session[s], task[t].o, task[t].seen)]
  BY DEF Assign
<1>5. session'[s].operator = task[t].o
  BY <1>0, <1>4 DEF Assigned, SessionType
<1>6. \A r \in Sessions \ {s} : session'[r] = session[r]
  BY <1>0, <1>4
<1>7. CASE task[t].o # o
  BY <1>2, <1>3, <1>4, <1>5, <1>6, <1>7 DEF Held
<1>8. CASE task[t].o = o
  <2>1. Held(o)' \subseteq Held(o) \cup {s}
    BY <1>6 DEF Held
  <2>2. CASE task[t].handler \in Draining
    <3>1. task[t].n + 1 \in Room(task[t], o, limit) /\ task[t].n + 1 \notin Room(task'[t], o, limit)
      BY <1>0, <1>2, <1>8, <2>2 DEF Room, Draining
    <3> QED
      BY <1>0, <1>2, <1>3, <1>4, <2>1, <3>1
  <2>3. CASE task[t].handler \in {"start", "reply"}
    <3>1. 1 \in Room(task[t], o, limit) /\ 1 \notin Room(task'[t], o, limit)
      BY <1>0, <1>2, <1>8, <2>3 DEF Room, Draining
    <3> QED
      BY <1>0, <1>2, <1>3, <1>4, <2>1, <3>1
  <2> QED
    BY <1>2, <2>2, <2>3
<1> QED
  BY <1>7, <1>8

LEMMA LimitNext ==
  NoOverbooking => (IInv /\ KnownInv /\ RolesInv /\ LimitInv /\ [Next]_vars => LimitInv')
<1> SUFFICES ASSUME NoOverbooking, IInv, KnownInv, RolesInv, LimitInv, [Next]_vars PROVE LimitInv'
  OBVIOUS
<1>0. limit \in Nat \ {0} /\ CountedRoom /\ "config" \notin Handlers
      /\ Handlers \cap {"reopen", "restReopen"} = {}
  BY DEF LimitInv, NoOverbooking
<1> DEFINE Cap == Cardinality(Tasks) * limit
<1>1. CASE UNCHANGED vars
  BY <1>1 DEF vars, LimitInv, CountedRoom, Load
<1>2. CASE Next
  <2>1. limit' = limit
    BY <1>0, <1>2, LimitStays
  <2>2. ASSUME NEW t \in Tasks, Others(t),
               task'[t].at \in {"stamp", "assign"} /\ task'[t].handler \in Draining
                 => task'[t].n < limit
        PROVE  CountedRoom'
    BY <1>0, <2>1, <2>2 DEF CountedRoom, Others
  <2>3. ASSUME CountedRoom',
               \A o \in Operators :
                 Cardinality(Held(o)') + Cardinality(ClaimSet(task', o, limit)) <= Cap
        PROVE  LimitInv'
    <3>1. \A o : Load(o)' = Cardinality(Held(o)')
      BY DEF Load, Held
    <3> QED
      BY <1>0, <2>1, <2>3, <3>1 DEF LimitInv
  <2>4. ASSUME NEW o \in Operators
        PROVE  /\ Cardinality(Held(o)) + Cardinality(ClaimSet(task, o, limit)) <= Cap
               /\ IsFiniteSet(Held(o)) /\ Cardinality(Held(o)) \in Nat
               /\ Cardinality(ClaimSet(task, o, limit)) \in Nat
               /\ Cardinality(ClaimSet(task', o, limit)) \in Nat
               /\ Cap \in Nat
    BY <1>0, HeldIsLoad, ClaimsAreFinite, TasksAreFinite, FS_CardinalityType DEF LimitInv
  <2>5. ASSUME CountedRoom', \A t \in Tasks : ~Assign(t),
               \A t \in Tasks, o \in Operators :
                 Room(task'[t], o, limit) \subseteq Room(task[t], o, limit)
        PROVE  LimitInv'
    <3>1. ASSUME NEW o \in Operators
          PROVE  Cardinality(Held(o)') + Cardinality(ClaimSet(task', o, limit)) <= Cap
      <4>1. Held(o)' \subseteq Held(o)
        BY <1>0, <1>2, <2>5, HeldShrinks
      <4>2. Cardinality(Held(o)') <= Cardinality(Held(o)) /\ Cardinality(Held(o)') \in Nat
        BY <2>4, <4>1, FS_Subset, FS_CardinalityType
      <4>3. Cardinality(ClaimSet(task', o, limit)) <= Cardinality(ClaimSet(task, o, limit))
        BY <1>0, <2>5, FewerClaims
      <4> QED
        BY <2>4, <4>2, <4>3
    <3> QED
      BY <2>3, <2>5, <3>1
  <2>6. ASSUME NEW t \in Tasks, Counts(t) PROVE LimitInv'
    <3>1. ASSUME NEW o \in Operators
          PROVE  Cardinality(Held(o)') + Cardinality(ClaimSet(task', o, limit)) <= Cap
      <4>0. Held(o)' = Held(o) /\ Load(o) = Cardinality(Held(o)) /\ Load(o) \in Nat
        BY <1>0, <2>6, CountsRoom, HeldIsLoad DEF Held
      <4>1. CASE Room(task'[t], o, limit) = {}
        <5>1. Cardinality(ClaimSet(task', o, limit)) <= Cardinality(ClaimSet(task, o, limit))
          BY <1>0, <2>6, <4>1, CountsRoom, FewerClaims DEF Others
        <5> QED
          BY <2>4, <4>0, <5>1
      <4>2. CASE /\ Load(o) < limit
                 /\ \/ \A i \in Room(task'[t], o, limit) : Load(o) < i
                    \/ \A i \in Room(task'[t], o, limit) : i = 1
        <5>1. Load(o) + Cardinality(ClaimSet(task', o, limit)) <= Cap
          BY <1>0, <4>0, <4>2, ClaimsAfterCount
        <5> QED
          BY <4>0, <5>1
      <4> QED
        BY <1>0, <2>6, <4>1, <4>2, CountsRoom
    <3>2. CountedRoom'
      BY <1>0, <2>2, <2>6, CountsRoom
    <3> QED
      BY <2>3, <3>1, <3>2
  <2>7. ASSUME NEW t \in Tasks, Assign(t) PROVE LimitInv'
    <3>1. ASSUME NEW o \in Operators
          PROVE  Cardinality(Held(o)') + Cardinality(ClaimSet(task', o, limit)) <= Cap
      <4>1. \A u \in Tasks : Room(task'[u], o, limit) \subseteq Room(task[u], o, limit)
        BY <1>0, <2>7, AssignUsesRoom DEF Others
      <4>2. Cardinality(ClaimSet(task', o, limit)) <= Cardinality(ClaimSet(task, o, limit))
        BY <1>0, <4>1, FewerClaims
      <4>3. CASE Held(o)' \subseteq Held(o)
        <5>1. Cardinality(Held(o)') <= Cardinality(Held(o)) /\ Cardinality(Held(o)') \in Nat
          BY <2>4, <4>3, FS_Subset, FS_CardinalityType
        <5> QED
          BY <2>4, <4>2, <5>1
      <4>4. ASSUME NEW s \in Sessions, NEW i \in Room(task[t], o, limit),
                   i \notin Room(task'[t], o, limit), Held(o)' \subseteq Held(o) \cup {s}
            PROVE  Cardinality(Held(o)') + Cardinality(ClaimSet(task', o, limit)) <= Cap
        <5>0. /\ IsFiniteSet(Held(o) \cup {s})
              /\ Cardinality(Held(o) \cup {s})
                   = IF s \in Held(o) THEN Cardinality(Held(o)) ELSE Cardinality(Held(o)) + 1
          BY <2>4, FS_AddElement
        <5>1. IsFiniteSet(Held(o) \cup {s}) /\ Cardinality(Held(o) \cup {s}) <= Cardinality(Held(o)) + 1
              /\ Cardinality(Held(o) \cup {s}) \in Nat
          BY <2>4, <5>0
        <5>2. Cardinality(Held(o)') <= Cardinality(Held(o) \cup {s}) /\ Cardinality(Held(o)') \in Nat
          BY <4>4, <5>1, FS_Subset, FS_CardinalityType
        <5>3. Cardinality(ClaimSet(task', o, limit)) + 1 <= Cardinality(ClaimSet(task, o, limit))
          BY <1>0, <4>1, <4>4, OneClaimLess
        <5> QED
          BY <2>4, <5>1, <5>2, <5>3
      <4> QED
        BY <1>0, <2>7, <4>3, <4>4, AssignUsesRoom
    <3>2. CountedRoom'
      BY <1>0, <2>2, <2>7, AssignUsesRoom
    <3> QED
      BY <2>3, <3>1, <3>2
  <2>8. CASE \A t \in Tasks : ~Assign(t) /\ ~Counts(t)
    <3>1. ASSUME NEW t \in Tasks, Others(t), RoomShrinks(t),
                 task'[t].at \in {"stamp", "assign"} /\ task'[t].handler \in Draining
                   => task'[t].n < limit
          PROVE  LimitInv'
      BY <2>2, <2>5, <2>8, <3>1 DEF Others, RoomShrinks
    <3>2. ASSUME NEW t \in Tasks, Step(t) \/ Fail(t) PROVE LimitInv'
      BY <1>0, <2>8, <3>1, <3>2, StepsRoom, StepsStay
    <3>3. ASSUME NEW t \in Tasks, Others(t), NoRoom(task'[t]) PROVE LimitInv'
      <4>1. RoomShrinks(t)
        BY <1>0, <3>3 DEF NoRoom, RoomShrinks
      <4>2. task'[t].at \in {"stamp", "assign"} => task'[t].handler \notin Draining
        BY <3>3 DEF NoRoom
      <4> QED
        BY <3>1, <3>3, <4>1, <4>2
    <3>4. ASSUME NEW t \in Tasks, Requests(t) PROVE LimitInv'
      <4>1. Others(t) /\ NoRoom(task'[t]) /\ RoleOK(task'[t])
        BY <3>4, RequestsRoles
      <4> QED
        BY <4>1, <3>3
    <3>5. ASSUME UNCHANGED task \/ \A t \in Tasks : task'[t] = Idle PROVE LimitInv'
      <4>1. CASE UNCHANGED task
        BY <1>0, <2>1, <2>5, <2>8, <4>1 DEF CountedRoom
      <4>2. CASE \A t \in Tasks : task'[t] = Idle
        <5>1. CountedRoom'
          BY <4>2 DEF CountedRoom, Idle
        <5>2. \A t \in Tasks, o \in Operators : Room(task'[t], o, limit) = {}
          BY <1>0, <4>2, IdleRole DEF NoRoom
        <5> QED
          BY <2>5, <2>8, <5>1, <5>2
      <4> QED
        BY <3>5, <4>1, <4>2
    <3>6. CASE Instant
      BY <3>5, <3>6, InstantRoles
    <3>7. ASSUME NEW s \in Sessions, TimersFire(s) PROVE LimitInv'
      BY <3>3, <3>5, <3>7, TimersRoles
    <3> QED
      BY <1>2, <3>2, <3>4, <3>6, <3>7 DEF Next
  <2> QED
    BY <2>6, <2>7, <2>8
<1> QED
  BY <1>1, <1>2

LEMMA LimitInit == Init => LimitInv /\ RolesInv
<1> SUFFICES ASSUME Init PROVE LimitInv /\ RolesInv
  OBVIOUS
<1>1. limit \in Nat \ {0}
  BY LimitsAreCounts DEF Init
<1>2. \A t \in Tasks : task[t] = Idle
  BY DEF Init
<1>3. RolesInv /\ CountedRoom
  BY <1>2, IdleRole DEF RolesInv, CountedRoom, Idle
<1>4. ASSUME NEW o \in Operators
      PROVE  Load(o) + Cardinality(ClaimSet(task, o, limit)) <= Cardinality(Tasks) * limit
  <2>1. Held(o) = {} /\ ClaimSet(task, o, limit) = {}
    BY <1>1, <1>2, IdleRole DEF Held, ClaimSet, NoRoom, Init, NoSession
  <2>2. Load(o) = 0 /\ Cardinality(ClaimSet(task, o, limit)) = 0
    BY <2>1, HeldIsLoad, FS_EmptySet
  <2>3. Cardinality(Tasks) \in Nat
    BY TasksAreFinite, FS_CardinalityType
  <2>4. Cardinality(Tasks) * limit \in Nat
    BY <1>1, <2>3
  <2> QED
    BY <2>2, <2>4
<1> QED
  BY <1>1, <1>3, <1>4 DEF LimitInv

LEMMA LimitBounds ==
  ASSUME LimitInv, NEW o \in Operators
  PROVE  Load(o) <= Cardinality(Tasks) * limit
<1>1. Load(o) \in Nat /\ Cardinality(ClaimSet(task, o, limit)) \in Nat
  BY HeldIsLoad, ClaimsAreFinite DEF LimitInv
<1>2. Cardinality(Tasks) * limit \in Nat
  <2>1. Cardinality(Tasks) \in Nat
    BY TasksAreFinite, FS_CardinalityType
  <2> QED
    BY <2>1 DEF LimitInv
<1> QED
  BY <1>1, <1>2 DEF LimitInv

(* However many handlers count an operator's chats at the same time and    *)
(* then assign by what they counted, each of them adds at most one full    *)
(* limit.  Excluded are the requests that give a chat without counting:    *)
(* claiming by opening, PATCH assign, reopening; and a lowered limit.      *)
THEOREM ChatOvershootBounded ==
  ASSUME Handlers \cap {"config", "claim", "restAssign", "reopen", "restReopen"} = {}
  PROVE  Spec => []OvershootBounded
<1>1. NoOverbooking
  BY DEF NoOverbooking
<1>2. Init => IInv /\ KnownInv /\ RolesInv /\ LimitInv
  BY InitHolds, KnownInit, LimitInit
<1>3. IInv /\ KnownInv /\ RolesInv /\ LimitInv /\ [Next]_vars
        => IInv' /\ KnownInv' /\ RolesInv' /\ LimitInv'
  BY <1>1, NextPreserves, KnownNext, RolesNext, LimitNext
<1>4. LimitInv => OvershootBounded
  BY LimitBounds DEF OvershootBounded
<1> QED
  BY <1>2, <1>3, <1>4, PTL DEF Spec

-----------------------------------------------------------------------------
(* Over the limit unawares only                                            *)

(* By what a handler goes, as long as nobody has overtaken it: l is the    *)
(* limit and h what o has.                                                 *)
CountOK(k, o, h, l) ==
  /\ k.at = "rotate" /\ o \in k.pool => h < l
  /\ k.at \in {"stamp", "assign"} /\ k.handler \in Draining \cup {"start", "reply"} /\ k.o = o
       => h < l
  /\ k.handler \in Draining /\ k.o = o =>
       /\ k.at \in {"take", "stamp", "assign"} => h <= k.n
       /\ k.at \in {"notify", "greet", "arm"} => h <= k.n + 1

CountsInv ==
  \A t \in Tasks, o \in Operators :
    <<t, o>> \notin overtaken => CountOK(task[t], o, Load(o), limit)

(* A count stays right while the operator gets nothing from others and the *)
(* limit is not lowered under a decision.                                  *)
LEMMA CountStays ==
  ASSUME NEW k \in TaskType, NEW o, NEW h \in Nat, NEW l \in Nat, NEW g \in Nat, NEW m \in Nat,
         CountOK(k, o, h, l), g <= h,
         \/ l <= m
         \/ /\ ~(k.at = "rotate" /\ o \in k.pool)
            /\ ~(k.at \in {"stamp", "assign"} /\ k.handler \in Draining \cup {"start", "reply"}
                 /\ k.o = o)
  PROVE  CountOK(k, o, g, m)
<1>1. k.n \in Nat
  BY DEF TaskType
<1> QED
  BY <1>1 DEF CountOK

(* A handler that begins has counted nothing.                              *)
LEMMA NothingCounted ==
  ASSUME NEW k \in TaskType, RoleOK(k), NoRoom(k), NEW o, NEW h, NEW l
  PROVE  CountOK(k, o, h, l)
<1>1. k.n \in Nat /\ k.n + 2 \in Nat /\ 1 \in Nat
  BY DEF TaskType
<1>2. Room(k, o, 1) = {} /\ Room(k, o, k.n + 2) = {}
  BY <1>1 DEF NoRoom
<1>3. ~(k.at = "rotate" /\ o \in k.pool)
  <2>1. 1 \notin Room(k, o, 1)
    BY <1>2
  <2> QED
    BY <2>1 DEF Room, RoleOK
<1>4. ~(k.at \in {"stamp", "assign"} /\ k.handler \in Draining \cup {"start", "reply"} /\ k.o = o)
  <2>1. 1 \notin Room(k, o, 1)
    BY <1>2
  <2> QED
    BY <2>1 DEF Room, NoRoom
<1>5. k.handler \in Draining /\ k.o = o =>
        k.at \notin {"take", "stamp", "assign", "notify", "greet", "arm"}
  <2>1. k.n + 2 \notin Room(k, o, k.n + 2)
    BY <1>2
  <2>2. k.n + 2 \in 1 .. (k.n + 2) /\ k.n < k.n + 2 /\ k.n + 1 < k.n + 2
    BY <1>1
  <2> QED
    BY <2>1, <2>2 DEF Room
<1> QED
  BY <1>3, <1>4, <1>5 DEF CountOK

LEMMA PlainCount ==
  ASSUME NEW k, NEW o, NEW h, NEW l,
         \/ k.at \in {"idle", "read", "react", "rearm", "capacity", "recheck", "park", "close",
                      "drain", "count", "sync", "pick", "counts"}
         \/ k.at = "stamp" /\ k.handler = "claim"
         \/ k.at = "arm" /\ k.handler = "reply"
  PROVE  CountOK(k, o, h, l)
BY DEF CountOK, Draining

(* Rows and limit are what a handler leaves alone that neither assigns nor *)
(* closes.                                                                 *)
LEMMA StepsQuiet ==
  ASSUME NEW t \in Tasks, Step(t) \/ Fail(t), ~Assign(t)
  PROVE  limit' = limit /\ (~Close(t) => UNCHANGED session)
BY DEF Step, Fail, ReadSession, MessageReacts, FormReacts, RejoinReacts, RejoinRearms,
       CloseAfterRead, NothingToClose, ClaimReads, ReplyReads, ReplyCounts, Stamp, Notify,
       Greet, Arm, Pick, PickCounts, PickRotates, Recheck, Park, Close, Drain, DrainCounts,
       DrainTakes, Sync

(* Who counts anew counts right, and who goes on goes by a right count.    *)
LEMMA StepsCount ==
  ASSUME IInv, RolesInv, NEW t \in Tasks, Step(t) \/ Fail(t), ~Assign(t), limit \in Nat,
         NEW o \in Operators, CountOK(task[t], o, Load(o), limit)
  PROVE  CountOK(task'[t], o, Load(o)', limit')
<1> DEFINE Goal == CountOK(task'[t], o, Load(o)', limit')
<1>0. /\ RoleOK(task[t]) /\ task[t] \in TaskType /\ task \in [Tasks -> TaskType]
      /\ task[t].n \in Nat /\ Load(o) \in Nat
  BY HeldIsLoad DEF RolesInv, IInv, TaskType
<1>1. ASSUME task'[t].at \in {"idle", "read", "react", "rearm", "capacity", "recheck", "park",
                              "close", "drain", "count", "sync", "pick", "counts"}
      PROVE  Goal
  BY <1>1, PlainCount
<1>2. ASSUME task'[t] = Idle PROVE Goal
  BY <1>1, <1>2 DEF Idle
<1>3. limit' = limit /\ (~Close(t) => Load(o)' = Load(o))
  BY StepsQuiet DEF Load
<1>4. ASSUME ~Close(t), CountOK(task'[t], o, Load(o), limit) PROVE Goal
  BY <1>3, <1>4
<1> SUFFICES Goal
  OBVIOUS
<1> HIDE DEF Goal
<1>5. CASE ReadSession(t) \/ Recheck(t)
  <2>1. CASE ReadSession(t)
    BY <1>1, <2>1, ReadFields DEF ReadSession
  <2>2. CASE Recheck(t)
    BY <1>1, <2>2, ReadFields DEF Recheck
  <2> QED
    BY <1>5, <2>1, <2>2
<1>6. CASE \/ MessageReacts(t) \/ FormReacts(t) \/ RejoinRearms(t) \/ NothingToClose(t)
           \/ Park(t) \/ Sync(t)
  BY <1>2, <1>6, EndFields
  DEF MessageReacts, FormReacts, RejoinRearms, NothingToClose, Park, Sync
<1>7. CASE RejoinReacts(t)
  <2>1. task'[t].at = "rearm"
    BY <1>0, <1>7 DEF RejoinReacts, TaskType
  <2> QED
    BY <1>1, <2>1
<1>8. CASE Stamp(t)
  <2>1. /\ task[t].at = "stamp" /\ task'[t].at = "assign" /\ task'[t].handler = task[t].handler
        /\ task'[t].o = task[t].o /\ task'[t].n = task[t].n /\ ~Close(t)
    BY <1>8, ReadFields DEF Stamp, Close
  <2>2. CountOK(task'[t], o, Load(o), limit)
    BY <2>1 DEF CountOK
  <2> QED
    BY <1>4, <2>1, <2>2
<1>9. CASE CloseAfterRead(t) \/ ClaimReads(t) \/ ReplyReads(t)
  <2>1. CASE CloseAfterRead(t)
    BY <1>1, <2>1, GoFields DEF CloseAfterRead
  <2>2. CASE ClaimReads(t)
    <3>1. \/ task'[t] = Idle
          \/ task'[t].at = "stamp" /\ task'[t].handler = "claim"
      BY <2>2, GoFields, EndFields DEF ClaimReads
    <3> QED
      BY <1>2, <3>1, PlainCount DEF Goal
  <2>3. CASE ReplyReads(t)
    <3>1. \/ task'[t] = Idle \/ task'[t].at = "capacity"
          \/ task'[t].at = "arm" /\ task'[t].handler = "reply"
      BY <2>3, GoFields, EndFields DEF ReplyReads
    <3> QED
      BY <1>1, <1>2, <3>1, PlainCount DEF Goal
  <2> QED
    BY <1>9, <2>1, <2>2, <2>3
<1>10. CASE ReplyCounts(t)
  <2>1. ~Close(t)
    BY <1>10 DEF ReplyCounts, Close
  <2>2. \/ task'[t] = Idle
        \/ /\ task'[t].at = "stamp" /\ task'[t].handler = "reply" /\ task'[t].o = task[t].o
           /\ Load(task[t].o) < limit
    BY <1>0, <1>10, GoFields, EndFields DEF ReplyCounts, RoleOK
  <2>3. ASSUME task'[t].at = "stamp", task'[t].handler = "reply", task'[t].o = task[t].o,
               Load(task[t].o) < limit
        PROVE  CountOK(task'[t], o, Load(o), limit)
    BY <2>3 DEF CountOK, Draining
  <2> QED
    BY <1>2, <1>4, <2>1, <2>2, <2>3
<1>11. CASE Notify(t) \/ Greet(t)
  <2>1. /\ task[t].at \in {"notify", "greet"} /\ task'[t].at \in {"greet", "arm"}
        /\ task'[t].handler = task[t].handler
        /\ task'[t].o = task[t].o /\ task'[t].n = task[t].n /\ ~Close(t)
    BY <1>11, GoFields DEF Notify, Greet, Close
  <2>2. CountOK(task'[t], o, Load(o), limit)
    BY <2>1 DEF CountOK
  <2> QED
    BY <1>4, <2>1, <2>2
<1>12. CASE Arm(t)
  <2>1. CASE End(t)
    BY <1>2, <2>1, EndFields
  <2>2. CASE Go(t, "recheck")
    BY <1>1, <2>2, GoFields
  <2>3. CASE /\ task[t].handler \in Draining
             /\ task' = [task EXCEPT ![t].at = "take", ![t].s = 0, ![t].n = @ + 1,
                                     ![t].seen = NoSession]
    <3>1. /\ task'[t].at = "take" /\ task'[t].handler = task[t].handler
          /\ task'[t].o = task[t].o /\ task'[t].n = task[t].n + 1 /\ task[t].at = "arm"
          /\ ~Close(t)
      BY <1>0, <1>12, <2>3 DEF TaskType, Arm, Close
    <3>2. CountOK(task'[t], o, Load(o), limit)
      BY <2>3, <3>1 DEF CountOK
    <3> QED
      BY <1>4, <3>1, <3>2
  <2> QED
    BY <1>12, <2>1, <2>2, <2>3 DEF Arm
<1>13. CASE Pick(t)
  <2>1. task'[t].at \in {"recheck", "counts"}
    BY <1>0, <1>13 DEF Pick, TaskType
  <2> QED
    BY <1>1, <2>1
<1>14. CASE PickCounts(t)
  <2> DEFINE pool == {p \in task[t].pool : Load(p) < limit}
  <2>0. task' = [task EXCEPT ![t].at = "rotate", ![t].pool = pool]
    BY <1>14 DEF PickCounts
  <2>1. o \in pool => Load(o) < limit
    OBVIOUS
  <2> HIDE DEF pool
  <2>2. /\ task'[t].at = "rotate" /\ task'[t].handler = "start" /\ task'[t].pool = pool
        /\ ~Close(t)
    BY <1>0, <1>14, <2>0 DEF PickCounts, TaskType, RoleOK, Close
  <2>3. CountOK(task'[t], o, Load(o), limit)
    BY <2>1, <2>2 DEF CountOK, Draining
  <2> QED
    BY <1>4, <2>2, <2>3
<1>15. CASE PickRotates(t)
  <2>1. ASSUME NEW p \in task[t].pool, task[t].at = "rotate",
               task' = [task EXCEPT ![t].at = "stamp", ![t].o = p, ![t].pool = {}]
        PROVE  CountOK(task'[t], o, Load(o), limit)
    <3>1. /\ task'[t].at = "stamp" /\ task'[t].o = p /\ task'[t].handler = "start"
      BY <1>0, <2>1 DEF RoleOK, TaskType
    <3> QED
      BY <2>1, <3>1 DEF CountOK, Draining
  <2>2. ASSUME task' = [task EXCEPT ![t].at = "recheck", ![t].pool = {}]
        PROVE  task'[t].at = "recheck"
    BY <1>0, <2>2 DEF TaskType
  <2>3. ~Close(t)
    BY <1>15 DEF PickRotates, Close
  <2> QED
    BY <1>1, <1>4, <1>15, <2>1, <2>2, <2>3 DEF PickRotates
<1>16. ASSUME DrainEnds(t) PROVE Goal
  <2>1. task'[t] = Idle \/ task'[t].at = "sync"
    BY <1>16, EndFields, BeginFields DEF DrainEnds
  <2> QED
    BY <1>1, <1>2, <2>1
<1>17. CASE Close(t)
  <2>1. task'[t] = Idle \/ task'[t].at = "drain"
    BY <1>17, EndFields, BeginFields DEF Close
  <2> QED
    BY <1>1, <1>2, <2>1
<1>18. CASE Drain(t)
  BY <1>1, <1>16, <1>18, GoFields DEF Drain
<1>19. CASE DrainCounts(t)
  <2>1. /\ task'[t].at = "take" /\ task'[t].o = task[t].o /\ task'[t].n = Load(task[t].o)
        /\ ~Close(t)
    BY <1>0, <1>19 DEF DrainCounts, TaskType, Close
  <2>2. CountOK(task'[t], o, Load(o), limit)
    BY <1>0, <2>1 DEF CountOK
  <2> QED
    BY <1>4, <2>1, <2>2
<1>20. CASE DrainTakes(t)
  <2>1. ASSUME NEW s \in Sessions, task[t].at = "take", task[t].n < limit,
               task' = [task EXCEPT ![t].at = "stamp", ![t].s = s]
        PROVE  CountOK(task'[t], o, Load(o), limit)
    <3>1. /\ task'[t].at = "stamp" /\ task'[t].handler = task[t].handler
          /\ task'[t].o = task[t].o /\ task'[t].n = task[t].n /\ task[t].handler \in Draining
      BY <1>0, <2>1 DEF RoleOK, TaskType
    <3>2. task[t].o = o => Load(o) <= task[t].n /\ Load(o) < limit
      BY <1>0, <2>1, <3>1 DEF CountOK
    <3> QED
      BY <3>1, <3>2 DEF CountOK
  <2>2. ~Close(t)
    BY <1>20 DEF DrainTakes, Close
  <2> QED
    BY <1>4, <1>16, <1>20, <2>1, <2>2 DEF DrainTakes
<1>21. CASE Fail(t)
  BY <1>2, <1>16, <1>21, EndFields DEF Fail
<1> QED
  BY <1>5, <1>6, <1>7, <1>8, <1>9, <1>10, <1>11, <1>12, <1>13, <1>14, <1>15, <1>17, <1>18,
     <1>19, <1>20, <1>21 DEF Step, Goal

(* An assignment gives one chat to one operator: the one it names.         *)
LEMMA AssignRaises ==
  ASSUME IInv, NEW t \in Tasks, Assign(t), NEW o \in Operators
  PROVE  /\ Load(o)' \in Nat /\ Load(o)' <= Load(o) + 1
         /\ task[t].o # o => Load(o)' <= Load(o)
<1> DEFINE s == task[t].s
           got == Held(o) \cup {s}
<1>0. /\ s \in Sessions /\ session \in [Sessions -> SessionType]
      /\ session' = [session EXCEPT ![s] = Assigned(session[s], task[t].o, task[t].seen)]
  BY InFlight, Facts DEF Assign, OfSession
<1>1. session'[s].operator = task[t].o
  BY <1>0 DEF Assigned, SessionType
<1>2. \A r \in Sessions \ {s} : session'[r] = session[r]
  BY <1>0
<1>3. Held(o)' \subseteq got /\ (task[t].o # o => Held(o)' \subseteq Held(o))
  BY <1>1, <1>2 DEF Held
<1>4. Load(o) = Cardinality(Held(o)) /\ IsFiniteSet(Held(o)) /\ Load(o) \in Nat
  BY HeldIsLoad
<1>5. Load(o)' = Cardinality(Held(o)')
  BY DEF Load, Held
<1>6. IsFiniteSet(Held(o)') /\ Cardinality(Held(o)') \in Nat
  <2>1. Held(o)' \subseteq Sessions
    BY DEF Held
  <2> QED
    BY <2>1, HeldIsLoad, FS_Subset, FS_CardinalityType
<1>7. IsFiniteSet(got) /\ Cardinality(got) <= Load(o) + 1 /\ Cardinality(got) \in Nat
  <2>1. /\ IsFiniteSet(got)
        /\ Cardinality(got) = IF s \in Held(o) THEN Cardinality(Held(o))
                              ELSE Cardinality(Held(o)) + 1
    BY <1>4, FS_AddElement
  <2> QED
    BY <1>4, <2>1
<1> HIDE DEF got
<1>8. Cardinality(Held(o)') <= Load(o) + 1
  <2>1. Cardinality(Held(o)') <= Cardinality(got)
    BY <1>3, <1>7, FS_Subset
  <2> QED
    BY <1>4, <1>6, <1>7, <2>1
<1>9. task[t].o # o => Cardinality(Held(o)') <= Load(o)
  BY <1>3, <1>4, FS_Subset
<1> QED
  BY <1>5, <1>6, <1>8, <1>9

(* A drain adds its assignment to its count; everybody else is done.       *)
LEMMA AssignCounts ==
  ASSUME IInv, RolesInv, NEW t \in Tasks, Assign(t), NEW o \in Operators,
         CountOK(task[t], o, Load(o), limit)
  PROVE  CountOK(task'[t], o, Load(o)', limit')
<1>0. /\ RoleOK(task[t]) /\ task[t].at = "assign" /\ Load(o) \in Nat /\ task[t].n \in Nat
      /\ limit' = limit
  BY InFlight, HeldIsLoad DEF RolesInv, Assign, TaskType
<1>1. CASE End(t)
  <2>1. task'[t].at = "idle"
    BY <1>1, EndFields DEF Idle
  <2> QED
    BY <2>1, PlainCount
<1>2. CASE task[t].handler = "reply" /\ Go(t, "arm")
  <2>1. task'[t].at = "arm" /\ task'[t].handler = "reply"
    BY <1>2, GoFields
  <2> QED
    BY <2>1, PlainCount
<1>3. CASE Automatic(t) /\ Go(t, "notify")
  <2>1. /\ task'[t].at = "notify" /\ task'[t].handler = task[t].handler
        /\ task'[t].o = task[t].o /\ task'[t].n = task[t].n
    BY <1>3, GoFields
  <2>2. task[t].handler \in Draining /\ task[t].o = o => Load(o) <= task[t].n
    BY <1>0 DEF CountOK
  <2>3. task[t].handler \in Draining /\ task[t].o = o => Load(o)' <= task[t].n + 1
    BY <1>0, <2>2, AssignRaises
  <2> QED
    BY <2>1, <2>3 DEF CountOK
<1> QED
  BY <1>1, <1>2, <1>3 DEF Assign

LEMMA OvertakenMeans ==
  ASSUME XNext, NEW t \in Tasks, NEW o \in Operators, <<t, o>> \notin overtaken'
  PROVE  ~GoesByCount(t, o)' \/ (<<t, o>> \notin overtaken /\ ~Overtakes(t, o))
<1>1. <<t, o>> \in Tasks \X Operators /\ <<t, o>>[1] = t /\ <<t, o>>[2] = o
  OBVIOUS
<1> QED
  BY <1>1 DEF XNext

(* Only a supervisor who saves another limit changes it.                   *)
LEMMA LimitIsCount == IInv => limit \in Nat
BY DEF IInv, MapsOK

LEMMA CountsNext ==
  ASSUME IInv, RolesInv, CountsInv, IInv', [XNext]_<<vars, forgotten, crossings>>
  PROVE  CountsInv'
<1>1. CASE UNCHANGED <<vars, forgotten, crossings>>
  <2>1. UNCHANGED <<session, limit, task, overtaken>>
    BY <1>1 DEF vars, crossings
  <2> QED
    BY <2>1 DEF CountsInv, Load
<1>2. CASE XNext
  <2> SUFFICES ASSUME NEW t \in Tasks, NEW o \in Operators, <<t, o>> \notin overtaken'
               PROVE  CountOK(task'[t], o, Load(o)', limit')
    BY DEF CountsInv
  <2>0. /\ Next /\ limit \in Nat /\ limit' \in Nat /\ Load(o) \in Nat
        /\ task[t] \in TaskType /\ task'[t] \in TaskType
    BY <1>2, LimitIsCount, HeldIsLoad DEF XNext, CNext, IInv, MapsOK
  <2>1. CASE ~GoesByCount(t, o)'
    BY <2>1 DEF GoesByCount, Decided, Automatic, CountOK
  <2>2. CASE <<t, o>> \notin overtaken /\ ~Overtakes(t, o)
    <3>0. CountOK(task[t], o, Load(o), limit)
      BY <2>2 DEF CountsInv
    <3>1. CASE task'[t] = task[t]
      <4>1. Load(o)' \in Nat
        <5>1. Load(o)' = Cardinality(Held(o)') /\ Held(o)' \subseteq Sessions
          BY DEF Load, Held
        <5> QED
          BY <5>1, HeldIsLoad, FS_Subset, FS_CardinalityType
      <4>2. Load(o)' <= Load(o) /\ (limit <= limit' \/ ~Decided(t, o))
        BY <2>0, <2>2, <3>1, <4>1 DEF Overtakes
      <4> QED
        BY <2>0, <3>0, <3>1, <4>1, <4>2, CountStays DEF Decided, Automatic
    <3>2. CASE task'[t] # task[t]
      <4>0. ASSUME NEW u \in Tasks, Others(u) PROVE u = t
        BY <3>2, <4>0 DEF Others
      <4>1. ASSUME NEW u \in Tasks, Others(u), RoleOK(task'[u]), NoRoom(task'[u])
            PROVE  CountOK(task'[t], o, Load(o)', limit')
        BY <2>0, <4>0, <4>1, NothingCounted
      <4>2. ASSUME NEW u \in Tasks, Step(u) \/ Fail(u)
            PROVE  CountOK(task'[t], o, Load(o)', limit')
        <5>1. u = t
          BY <4>0, <4>2, StepsStay
        <5>2. CASE Assign(u)
          BY <3>0, <5>1, <5>2, AssignCounts
        <5>3. CASE ~Assign(u)
          BY <2>0, <3>0, <4>2, <5>1, <5>3, StepsCount
        <5> QED
          BY <5>2, <5>3
      <4>3. ASSUME NEW u \in Tasks, Requests(u)
            PROVE  CountOK(task'[t], o, Load(o)', limit')
        BY <4>1, <4>3, RequestsRoles
      <4>4. ASSUME NEW s \in Sessions, TimersFire(s)
            PROVE  CountOK(task'[t], o, Load(o)', limit')
        BY <3>2, <4>1, <4>4, TimersRoles
      <4>5. CASE Instant
        <5>1. task'[t].at = "idle"
          BY <3>2, <4>5, InstantRoles DEF Idle
        <5> QED
          BY <5>1, PlainCount
      <4> QED
        BY <2>0, <4>2, <4>3, <4>4, <4>5 DEF Next
    <3> QED
      BY <3>1, <3>2
  <2> QED
    BY <1>2, <2>1, <2>2, OvertakenMeans
<1> QED
  BY <1>1, <1>2

(* A step that gives an operator a chat beyond the limit.                  *)
LEMMA OverLimitStep ==
  ASSUME IInv, KnownInv, RolesInv, CountsInv, [XNext]_<<vars, forgotten, crossings>>,
         NEW o \in Operators, Load(o)' > Load(o), Load(o)' > limit
  PROVE  (\E s \in Sessions : Reopens(s)) \/ (\E t \in Tasks : AssignsUnawares(t, o))
<1>0. limit \in Nat /\ Load(o) \in Nat
  BY LimitIsCount, HeldIsLoad
<1>1. ~UNCHANGED session
  <2>1. ASSUME UNCHANGED session PROVE Load(o)' = Load(o)
    BY <2>1 DEF Load
  <2> QED
    BY <1>0, <2>1
<1>2. Next
  BY <1>1 DEF XNext, CNext, vars
<1>3. CASE \A t \in Tasks : ~Assign(t)
  <2>1. Held(o)' \subseteq Held(o) \/ \E s \in Sessions : Reopens(s)
    BY <1>2, <1>3, HeldGrows
  <2>2. ASSUME Held(o)' \subseteq Held(o) PROVE FALSE
    <3>1. Load(o)' = Cardinality(Held(o)')
      BY DEF Load, Held
    <3>2. Load(o) = Cardinality(Held(o)) /\ IsFiniteSet(Held(o))
      BY HeldIsLoad
    <3>3. Cardinality(Held(o)') <= Cardinality(Held(o)) /\ Cardinality(Held(o)') \in Nat
      BY <2>2, <3>2, FS_Subset, FS_CardinalityType
    <3> QED
      BY <1>0, <3>1, <3>2, <3>3
  <2> QED
    BY <2>1, <2>2
<1>4. ASSUME NEW t \in Tasks, Assign(t) PROVE AssignsUnawares(t, o)
  <2>1. /\ Load(o)' \in Nat /\ Load(o)' <= Load(o) + 1 /\ task[t].o = o
    BY <1>0, <1>4, AssignRaises
  <2>2. ~(Load(o) < limit)
    BY <1>0, <2>1
  <2>3. /\ task[t].at = "assign" /\ RoleOK(task[t])
        /\ task[t].handler \in Draining \cup {"start", "reply", "claim", "assign"}
    BY <1>4 DEF Assign, RolesInv, RoleOK
  <2>4. task[t].handler \in {"claim", "assign"} \/ <<t, o>> \in overtaken
    BY <2>1, <2>2, <2>3 DEF CountsInv, CountOK
  <2>5. task'[t].at \in {"notify", "arm", "idle"}
    BY <1>4, GoFields, EndFields DEF Assign, Idle
  <2>6. task'[t] # task[t]
    BY <2>3, <2>5
  <2> QED
    BY <2>1, <2>3, <2>4, <2>6 DEF AssignsUnawares
<1> QED
  BY <1>3, <1>4

LEMMA CountsInit == XInit => CountsInv
<1> SUFFICES ASSUME XInit, NEW t \in Tasks, NEW o \in Operators
             PROVE  CountOK(task[t], o, Load(o), limit)
  BY DEF CountsInv
<1>1. task[t].at = "idle"
  BY DEF XInit, CInit, Init, Idle
<1> QED
  BY <1>1, PlainCount

(* The handlers of a behaviour of XSpec are those of Spec.                 *)
LEMMA CrossingsRefine ==
  /\ XInit => Init
  /\ [XNext]_<<vars, forgotten, crossings>> => [Next]_vars
BY DEF XInit, CInit, XNext, CNext

(* However many handlers are in flight, and whatever requests reach the    *)
(* gateway: no operator gets a chat beyond the limit unless a closed chat  *)
(* is reopened, a path that does not count assigns it, or the handler that *)
(* assigns it was overtaken between its count and its write.               *)
THEOREM ChatOverLimitUnawaresOnly == XSpec => OverLimitUnawaresOnly
<1> DEFINE Unawares ==
      \A o \in Operators :
        Load(o)' > Load(o) /\ Load(o)' > limit
        => (\E s \in Sessions : Reopens(s)) \/ (\E t \in Tasks : AssignsUnawares(t, o))
<1>1. XInit => IInv /\ KnownInv /\ RolesInv /\ CountsInv
  BY CrossingsRefine, InitHolds, KnownInit, LimitInit, CountsInit
<1>2. IInv /\ KnownInv /\ RolesInv /\ CountsInv /\ [XNext]_<<vars, forgotten, crossings>>
        => IInv' /\ KnownInv' /\ RolesInv' /\ CountsInv'
  BY CrossingsRefine, NextPreserves, KnownNext, RolesNext, CountsNext
<1>3. IInv /\ KnownInv /\ RolesInv /\ CountsInv /\ [XNext]_<<vars, forgotten, crossings>>
        => [Unawares]_<<vars, forgotten, crossings>>
  BY OverLimitStep
<1> QED
  BY <1>1, <1>2, <1>3, PTL DEF XSpec, OverLimitUnawaresOnly

-----------------------------------------------------------------------------
(* Countdowns                                                              *)

NoSilentReopening ==
  /\ Handlers \cap {"restReopen", "restAssign", "fail"} = {}
  /\ {"inactivity_warning", "inactivity_close"} \cap Enabled # {}

(* Two more conditions, each for one of the two countdowns only: the       *)
(* queue's is switched on, and nobody claims by opening, which starts none *)
(* for the conversation.                                                   *)
QueueMessages == {"queue_abandon_warning", "queue_abandon_close"} \cap Enabled # {}
NoClaims == "claim" \notin Handlers

(* A handler that will start a countdown of session s, give the session    *)
(* to somebody or close it.                                                *)
Carries(k, s) ==
  /\ k.s = s
  /\ \/ k.at \in {"pick", "counts", "rotate", "recheck", "arm", "close"}
     \/ k.at = "park" /\ k.seen.operator = Nobody
     \/ k.at \in {"stamp", "assign"} /\ k.handler = "start"
     \/ k.at = "read" /\ k.handler = "abandon"
     \/ k.at = "react" /\ k.handler = "abandon" /\ StillQueued(k.seen)

(* One that will start the countdown of a conversation, or close it.       *)
Brings(k, s) == k.s = s /\ k.at \in {"notify", "greet", "arm", "close"}

Manned(row) == row.status = "open" /\ row.operator # Nobody

QueuedKept(s) ==
  QueueMessages /\ StillQueued(session[s]) =>
    Counting(s) \/ \E t \in Tasks : Carries(task[t], s)

ActiveKept(s) ==
  NoClaims /\ Manned(session[s]) =>
    inactivity[s] # "none" \/ \E t \in Tasks : Brings(task[t], s)

(* What a step of handler t must not do to session s.                      *)
QueueSafe(t, s) ==
  QueueMessages /\ StillQueued(session'[s]) =>
    \/ Counting(s)'
    \/ Carries(task'[t], s)
    \/ StillQueued(session[s]) /\ ~Counting(s) /\ ~Carries(task[t], s)

ActiveSafe(t, s) ==
  NoClaims /\ Manned(session'[s]) =>
    \/ inactivity'[s] # "none"
    \/ Brings(task'[t], s)
    \/ Manned(session[s]) /\ inactivity[s] = "none" /\ ~Brings(task[t], s)

Safe(t) == \A s \in Sessions : QueueSafe(t, s) /\ ActiveSafe(t, s)

LEMMA SafeKeeps ==
  ASSUME NEW t \in Tasks, Others(t), Safe(t), NEW s \in Sessions
  PROVE  /\ QueuedKept(s) => QueuedKept(s)'
         /\ ActiveKept(s) => ActiveKept(s)'
<1>1. ASSUME QueuedKept(s), QueueMessages, StillQueued(session'[s])
      PROVE  Counting(s)' \/ \E u \in Tasks : Carries(task'[u], s)
  <2>1. CASE Counting(s)' \/ Carries(task'[t], s)
    BY <2>1
  <2>2. CASE StillQueued(session[s]) /\ ~Counting(s) /\ ~Carries(task[t], s)
    <3>1. PICK u \in Tasks : Carries(task[u], s)
      BY <1>1, <2>2 DEF QueuedKept
    <3>2. u # t
      BY <2>2, <3>1
    <3>3. task'[u] = task[u]
      BY <3>2 DEF Others
    <3> QED
      BY <3>1, <3>3
  <2> QED
    BY <1>1, <2>1, <2>2 DEF Safe, QueueSafe
<1>2. ASSUME ActiveKept(s), NoClaims, Manned(session'[s])
      PROVE  inactivity'[s] # "none" \/ \E u \in Tasks : Brings(task'[u], s)
  <2>1. CASE inactivity'[s] # "none" \/ Brings(task'[t], s)
    BY <2>1
  <2>2. CASE Manned(session[s]) /\ inactivity[s] = "none" /\ ~Brings(task[t], s)
    <3>1. PICK u \in Tasks : Brings(task[u], s)
      BY <1>2, <2>2 DEF ActiveKept
    <3>2. u # t
      BY <2>2, <3>1
    <3>3. task'[u] = task[u]
      BY <3>2 DEF Others
    <3> QED
      BY <3>1, <3>3
  <2> QED
    BY <1>2, <2>1, <2>2 DEF Safe, ActiveSafe
<1> QED
  BY <1>1, <1>2 DEF QueuedKept, ActiveKept

(* A handler that leaves the row and the countdowns of a session alone and *)
(* carried nothing for it.                                                 *)
LEMMA SafeElsewhere ==
  ASSUME NEW t \in Tasks, NEW s \in Sessions, session'[s] = session[s],
         inactivity[s] # "none" => inactivity'[s] # "none",
         QueueMessages /\ abandon[s] # "none" => abandon'[s] # "none",
         Carries(task[t], s) => Carries(task'[t], s) \/ ~StillQueued(session[s]) \/ Counting(s)',
         Brings(task[t], s) => Brings(task'[t], s) \/ ~Manned(session[s]) \/ inactivity'[s] # "none"
  PROVE  QueueSafe(t, s) /\ ActiveSafe(t, s)
BY DEF QueueSafe, ActiveSafe, Counting

(* What is known of a row read before.                                     *)
Remembers(k) ==
  \A s \in Sessions :
    k.s = s /\ k.at \in {"react", "rearm", "park"} =>
      /\ k.seen.operator # Nobody => session[s].operator # Nobody
      /\ k.seen.operator = Nobody \/ k.seen.status # "open" => ActiveKept(s)
      /\ k.seen.status # "open" => QueuedKept(s)

CountdownInv ==
  /\ \A s \in Sessions : s \notin forgotten => QueuedKept(s) /\ ActiveKept(s)
  /\ \A s \in Sessions : abandon[s] # "none" => ActiveKept(s)
  /\ \A t \in Tasks : Remembers(task[t])
  /\ \A t \in Tasks : task[t].at \in {"notify", "greet"} => session[task[t].s].operator # Nobody

LEMMA ArmedIsCounting ==
  ASSUME IInv, NoSilentReopening, NEW s \in Sessions
  PROVE  /\ ArmInactivity(s) => inactivity'[s] # "none" /\ \A r \in Sessions \ {s} : inactivity'[r] = inactivity[r]
         /\ ArmAbandon(s) => /\ QueueMessages => abandon'[s] # "none"
                             /\ \A r \in Sessions \ {s} : abandon'[r] = abandon[r]
         /\ ClearSessionTimers(s) => \A r \in Sessions \ {s} : /\ inactivity'[r] = inactivity[r]
                                                               /\ abandon'[r] = abandon[r]
BY DEF IInv, MapsOK, ArmInactivity, ArmAbandon, ClearSessionTimers, StartOf, NoSilentReopening,
       QueueMessages

LEMMA IdleCarriesNothing ==
  ASSUME NEW k, k.at = "idle", NEW s
  PROVE  ~Carries(k, s) /\ ~Brings(k, s)
BY DEF Carries, Brings

LEMMA RequestsSafe ==
  ASSUME IInv, KnownInv, NoSilentReopening, NEW t \in Tasks, Requests(t)
  PROVE  Safe(t)
<1>0. /\ session \in [Sessions -> SessionType]
      /\ \A s \in Sessions : ~Carries(task[t], s) /\ ~Brings(task[t], s)
  <2>1. task[t].at = "idle"
    BY DEF Requests, VisitorStart, OperatorJoin, SetStatus, OperatorOffline, VisitorMessage,
      VisitorFormActivity, VisitorRejoin, VisitorCloseSession, VisitorLeaveContactInfo,
      ReopenSession, RestAssign, OperatorJoinSession, OperatorMessage, OperatorCloseSession,
      Receives
  <2> QED
    BY <2>1, Facts, IdleCarriesNothing
<1>1. ASSUME UNCHANGED <<session, inactivity, abandon>> PROVE Safe(t)
  BY <1>0, <1>1, SafeElsewhere DEF Safe
<1>2. CASE VisitorStart(t)
  <2>1. PICK s \in Sessions : /\ session[s].status = "none"
                              /\ session' = [session EXCEPT ![s].status = "open"]
                              /\ Begin(t, "start", "pick", s, Nobody)
    BY <1>2 DEF VisitorStart
  <2>2. session'[s].operator = Nobody /\ \A r \in Sessions \ {s} : session'[r] = session[r]
    BY <1>0, <2>1 DEF KnownInv, RowsKnown, Known, SessionType
  <2>3. Carries(task'[t], s)
    BY <2>1, BeginFields DEF Carries
  <2>4. UNCHANGED <<inactivity, abandon>>
    BY <1>2 DEF VisitorStart, timers
  <2>5. QueueSafe(t, s) /\ ActiveSafe(t, s)
    BY <2>2, <2>3 DEF QueueSafe, ActiveSafe, Manned
  <2>6. ASSUME NEW r \in Sessions \ {s} PROVE QueueSafe(t, r) /\ ActiveSafe(t, r)
    BY <1>0, <2>2, <2>4, SafeElsewhere
  <2> QED
    BY <2>5, <2>6 DEF Safe
<1>3. ASSUME NEW s \in Sessions, Carries(task'[t], s), Brings(task'[t], s),
             \A r \in Sessions \ {s} : /\ session'[r] = session[r]
                                       /\ inactivity'[r] = inactivity[r]
                                       /\ abandon'[r] = abandon[r]
      PROVE  Safe(t)
  <2>1. QueueSafe(t, s) /\ ActiveSafe(t, s)
    BY <1>3 DEF QueueSafe, ActiveSafe
  <2>2. ASSUME NEW r \in Sessions \ {s} PROVE QueueSafe(t, r) /\ ActiveSafe(t, r)
    BY <1>0, <1>3, SafeElsewhere
  <2> QED
    BY <2>1, <2>2 DEF Safe
<1>4. ASSUME NEW s \in Sessions, ReopenSession(t, s) PROVE Safe(t)
  <2>1. Carries(task'[t], s) /\ Brings(task'[t], s)
    BY <1>4, BeginFields DEF ReopenSession, Carries, Brings
  <2>2. \A r \in Sessions \ {s} : /\ session'[r] = session[r]
                                  /\ inactivity'[r] = inactivity[r] /\ abandon'[r] = abandon[r]
    BY <1>0, <1>4 DEF ReopenSession, timers
  <2> QED
    BY <1>3, <2>1, <2>2
<1>5. ASSUME NEW s \in Sessions, ClearSessionTimers(s), UNCHANGED session,
             NEW handler, NEW o, Begin(t, handler, "close", s, o)
      PROVE  Safe(t)
  <2>1. Carries(task'[t], s) /\ Brings(task'[t], s)
    BY <1>5, BeginFields DEF Carries, Brings
  <2>2. \A r \in Sessions \ {s} : /\ session'[r] = session[r]
                                  /\ inactivity'[r] = inactivity[r] /\ abandon'[r] = abandon[r]
    BY <1>5, ArmedIsCounting
  <2> QED
    BY <1>3, <2>1, <2>2
<1>6. ASSUME NEW s \in Sessions,
             \/ VisitorMessage(t, s) \/ VisitorFormActivity(t, s) \/ VisitorRejoin(t, s)
             \/ VisitorLeaveContactInfo(t, s) \/ RestAssign(t, s)
             \/ \E o \in Operators : OperatorJoinSession(t, s, o) \/ OperatorMessage(t, s, o)
      PROVE  Safe(t)
  BY <1>1, <1>6
  DEF VisitorMessage, VisitorFormActivity, VisitorRejoin, VisitorLeaveContactInfo, RestAssign,
      OperatorJoinSession, OperatorMessage, timers
<1>7. ASSUME NEW s \in Sessions, VisitorCloseSession(t, s) PROVE Safe(t)
  BY <1>5, <1>7 DEF VisitorCloseSession
<1>8. ASSUME NEW s \in Sessions, NEW o \in Operators, OperatorCloseSession(t, s, o) PROVE Safe(t)
  BY <1>5, <1>8 DEF OperatorCloseSession
<1>9. CASE \E o \in Operators : OperatorJoin(t, o) \/ SetStatus(t, o) \/ OperatorOffline(t, o)
  BY <1>1, <1>9 DEF OperatorJoin, SetStatus, OperatorOffline, timers
<1> QED
  BY <1>2, <1>4, <1>6, <1>7, <1>8, <1>9 DEF Requests

LEMMA ClosesSafe ==
  ASSUME IInv, NoSilentReopening, NEW t \in Tasks, NEW s \in Sessions,
         InactivityClose(t, s) \/ AbandonClose(t, s) \/ GraceClose(t, s)
  PROVE  Others(t) /\ Safe(t)
<1>0. \A r \in Sessions : ~Carries(task[t], r) /\ ~Brings(task[t], r)
  BY IdleCarriesNothing DEF InactivityClose, AbandonClose, GraceClose
<1>1. UNCHANGED session
  BY DEF InactivityClose, AbandonClose, GraceClose
<1>2. CASE InactivityClose(t, s)
  <2>1. Carries(task'[t], s) /\ Brings(task'[t], s) /\ Others(t)
    BY <1>2, BeginFields DEF InactivityClose, Carries, Brings
  <2>2. \A r \in Sessions \ {s} : inactivity'[r] = inactivity[r] /\ abandon'[r] = abandon[r]
    BY <1>2, ArmedIsCounting DEF InactivityClose
  <2>3. QueueSafe(t, s) /\ ActiveSafe(t, s)
    BY <2>1 DEF QueueSafe, ActiveSafe
  <2>4. ASSUME NEW r \in Sessions \ {s} PROVE QueueSafe(t, r) /\ ActiveSafe(t, r)
    BY <1>0, <1>1, <2>2, SafeElsewhere
  <2> QED
    BY <2>1, <2>3, <2>4 DEF Safe
<1>3. CASE AbandonClose(t, s)
  <2>1. Carries(task'[t], s) /\ Others(t)
    BY <1>3, BeginFields DEF AbandonClose, Carries
  <2>2. UNCHANGED inactivity /\ \A r \in Sessions \ {s} : abandon'[r] = abandon[r]
    BY <1>3 DEF AbandonClose, IInv, MapsOK
  <2>3. QueueSafe(t, s)
    BY <2>1 DEF QueueSafe
  <2>4. ActiveSafe(t, s)
    BY <1>0, <1>1, <2>2 DEF ActiveSafe
  <2>5. ASSUME NEW r \in Sessions \ {s} PROVE QueueSafe(t, r) /\ ActiveSafe(t, r)
    BY <1>0, <1>1, <2>2, SafeElsewhere
  <2> QED
    BY <2>1, <2>3, <2>4, <2>5 DEF Safe
<1>4. CASE GraceClose(t, s)
  <2>1. UNCHANGED <<inactivity, abandon>> /\ Others(t)
    BY <1>4, BeginFields DEF GraceClose
  <2> QED
    BY <1>0, <1>1, <2>1, SafeElsewhere DEF Safe
<1> QED
  BY <1>2, <1>3, <1>4

(* A step that leaves rows and countdowns alone, and whose handler goes on *)
(* with what it carries or had nothing to carry.                           *)
LEMMA SafeWalk ==
  ASSUME NEW t \in Tasks, UNCHANGED <<session, inactivity, abandon>>,
         \A s \in Sessions :
           /\ Carries(task[t], s) => Carries(task'[t], s) \/ ~StillQueued(session[s])
           /\ Brings(task[t], s) => Brings(task'[t], s) \/ ~Manned(session[s])
  PROVE  Safe(t)
BY SafeElsewhere DEF Safe

(* A step that is about one session, where the handler then carries it, or *)
(* arms its countdown.                                                     *)
LEMMA SafeHere ==
  ASSUME NEW t \in Tasks, NEW s \in Sessions, task[t].s = s,
         QueueSafe(t, s), ActiveSafe(t, s),
         \A r \in Sessions \ {s} : /\ session'[r] = session[r]
                                   /\ inactivity'[r] = inactivity[r] /\ abandon'[r] = abandon[r]
  PROVE  Safe(t)
<1>1. ASSUME NEW r \in Sessions \ {s} PROVE QueueSafe(t, r) /\ ActiveSafe(t, r)
  <2>1. ~Carries(task[t], r) /\ ~Brings(task[t], r)
    BY DEF Carries, Brings
  <2> QED
    BY <2>1, SafeElsewhere
<1> QED
  BY <1>1 DEF Safe

LEMMA StepsSafe ==
  ASSUME IInv, RolesInv, CountdownInv, NoSilentReopening, NEW t \in Tasks, Step(t)
  PROVE  Safe(t)
<1> PICK s : s = task[t].s
  OBVIOUS
<1>0. /\ RoleOK(task[t]) /\ task[t] \in TaskType /\ task \in [Tasks -> TaskType]
      /\ session \in [Sessions -> SessionType] /\ "restAssign" \notin Handlers
      /\ task[t].at \in OfSession => s \in Sessions
  BY InFlight, Facts DEF RolesInv, IInv, NoSilentReopening
<1>1. CASE ReadSession(t)
  <2>0. task[t].at = "read" /\ task' = [task EXCEPT ![t].at = "react", ![t].seen = session[s]]
    BY <1>1 DEF ReadSession
  <2>1. /\ task[t].at = "read" /\ task'[t].at = "react" /\ task'[t].s = s
        /\ task'[t].handler = task[t].handler /\ task'[t].seen = session[s]
    BY <1>0, <2>0 DEF TaskType
  <2>2. UNCHANGED <<session, inactivity, abandon>>
    BY <1>1 DEF ReadSession, timers
  <2> QED
    BY <2>1, <2>2, SafeWalk DEF Carries, Brings
<1>2. CASE MessageReacts(t) \/ FormReacts(t) \/ RejoinRearms(t)
  <2>1. /\ s \in Sessions /\ task[t].handler \in {"message", "form", "rejoin"}
        /\ task[t].at \in {"react", "rearm"} /\ UNCHANGED session
        /\ ArmInactivity(s) \/ UNCHANGED inactivity
        /\ ArmAbandon(s) \/ UNCHANGED abandon
    BY <1>0, <1>2 DEF MessageReacts, FormReacts, RejoinRearms, Reacts, RoleOK, OfSession
  <2>2. \A r \in Sessions : ~Carries(task[t], r) /\ ~Brings(task[t], r)
    BY <2>1 DEF Carries, Brings
  <2>3. \A r \in Sessions : /\ inactivity[r] # "none" => inactivity'[r] # "none"
                            /\ QueueMessages /\ abandon[r] # "none" => abandon'[r] # "none"
    BY <2>1, ArmedIsCounting
  <2> QED
    BY <2>1, <2>2, <2>3, SafeElsewhere DEF Safe
<1>3. CASE RejoinReacts(t)
  <2>1. task[t].at = "react" /\ task[t].handler = "rejoin" /\ UNCHANGED <<session, inactivity, abandon>>
    BY <1>3 DEF RejoinReacts, Reacts
  <2> QED
    BY <2>1, SafeWalk DEF Carries, Brings
<1>4. CASE CloseAfterRead(t)
  <2>1. /\ s \in Sessions /\ task'[t].at = "close" /\ task'[t].s = s /\ UNCHANGED session
        /\ ClearSessionTimers(s)
    BY <1>0, <1>4, GoFields DEF CloseAfterRead, GoesOnToClose, Reacts, OfSession
  <2>2. QueueSafe(t, s) /\ ActiveSafe(t, s)
    BY <2>1 DEF QueueSafe, ActiveSafe, Carries, Brings
  <2> QED
    BY <2>1, <2>2, SafeHere, ArmedIsCounting
<1>5. CASE NothingToClose(t)
  <2>1. /\ task[t].at = "react" /\ (task[t].handler = "abandon" => ~StillQueued(task[t].seen))
        /\ UNCHANGED <<session, inactivity, abandon>>
    BY <1>5 DEF NothingToClose, GoesOnToClose, Reacts, timers
  <2> QED
    BY <2>1, SafeWalk DEF Carries, Brings
<1>6. CASE ReplyReads(t) \/ ReplyCounts(t)
  <2>1. /\ task[t].at \in {"read", "capacity"} /\ task[t].handler = "reply"
        /\ UNCHANGED <<session, inactivity, abandon>>
    BY <1>0, <1>6 DEF ReplyReads, ReplyCounts, RoleOK, timers
  <2> QED
    BY <2>1, SafeWalk DEF Carries, Brings
<1>7. CASE ClaimReads(t)
  <2>1. /\ task[t].at = "read" /\ task[t].handler = "claim"
        /\ UNCHANGED <<session, inactivity, abandon>>
    BY <1>7 DEF ClaimReads, timers
  <2> QED
    BY <2>1, SafeWalk DEF Carries, Brings
<1>8. CASE Stamp(t)
  <2>1. /\ task[t].at = "stamp" /\ task'[t].at = "assign" /\ task'[t].s = s
        /\ task'[t].handler = task[t].handler /\ UNCHANGED <<session, inactivity, abandon>>
    BY <1>8, ReadFields DEF Stamp, timers
  <2> QED
    BY <2>1, SafeWalk DEF Carries, Brings
<1>9. CASE Assign(t)
  <2>1. /\ s \in Sessions /\ task[t].at = "assign" /\ UNCHANGED <<inactivity, abandon>>
        /\ session' = [session EXCEPT ![s] = Assigned(session[s], task[t].o, task[t].seen)]
    BY <1>0, <1>9 DEF Assign, OfSession, timers
  <2>2. /\ task[t].o \in Operators /\ task[t].handler \in Draining \cup {"start", "reply", "claim"}
        /\ task[t].handler = "claim" => ~NoClaims
    BY <1>0, <2>1, InFlight DEF RoleOK, NoClaims
  <2>3. session'[s].operator # Nobody
    BY <1>0, <2>1, <2>2, SupervisorsAreOperators DEF Assigned, SessionType
  <2>4. task[t].handler # "claim" => task'[t].at \in {"notify", "arm"} /\ task'[t].s = s
    BY <1>9, <2>2, GoFields DEF Assign, Automatic, Draining
  <2>5. QueueSafe(t, s) /\ ActiveSafe(t, s)
    BY <2>2, <2>3, <2>4 DEF QueueSafe, ActiveSafe, StillQueued, Brings
  <2> QED
    BY <2>1, <2>5, SafeHere
<1>10. CASE Notify(t) \/ Greet(t)
  <2>1. /\ s \in Sessions /\ task[t].at \in {"notify", "greet"} /\ session[s].operator # Nobody
        /\ task'[t].at \in {"greet", "arm"} /\ task'[t].s = s /\ UNCHANGED <<session, inactivity>>
        /\ \A r \in Sessions \ {s} : abandon'[r] = abandon[r]
    <3>1. CASE Notify(t)
      BY <1>0, <3>1, GoFields DEF Notify, OfSession, CountdownInv, IInv, MapsOK
    <3>2. CASE Greet(t)
      BY <1>0, <3>2, GoFields DEF Greet, OfSession, CountdownInv, timers
    <3> QED
      BY <1>10, <3>1, <3>2
  <2>2. QueueSafe(t, s) /\ ActiveSafe(t, s)
    BY <2>1 DEF QueueSafe, ActiveSafe, StillQueued, Brings
  <2> QED
    BY <2>1, <2>2, SafeHere
<1>11. CASE Arm(t)
  <2>1. s \in Sessions /\ task[t].at = "arm" /\ ArmInactivity(s) /\ UNCHANGED <<session, abandon>>
    BY <1>0, <1>11 DEF Arm, OfSession
  <2>2. /\ inactivity'[s] # "none"
        /\ \A r \in Sessions \ {s} : inactivity'[r] = inactivity[r]
    BY <2>1, ArmedIsCounting
  <2>3. QueueSafe(t, s) /\ ActiveSafe(t, s)
    BY <2>2 DEF QueueSafe, ActiveSafe, Counting
  <2> QED
    BY <2>1, <2>2, <2>3, SafeHere
<1>12. CASE Pick(t) \/ PickCounts(t) \/ PickRotates(t)
  <2>1. /\ task[t].at \in {"pick", "counts", "rotate"} /\ task[t].handler = "start"
        /\ UNCHANGED <<session, inactivity, abandon>>
    BY <1>0, <1>12 DEF Pick, PickCounts, PickRotates, RoleOK, timers
  <2>2. StaysWith(t) /\ RoleOK(task'[t])
    BY <1>12, StepsStay, StepsRoles DEF Step
  <2>3. task'[t].at \in {"counts", "recheck", "rotate", "stamp"} /\ task'[t].s = s /\ task'[t].handler = "start"
    <3>1. CASE Pick(t)
      BY <1>0, <2>1, <3>1 DEF Pick, TaskType
    <3>2. CASE PickCounts(t)
      BY <1>0, <2>1, <3>2 DEF PickCounts, TaskType
    <3> QED
      BY <1>12, <2>1, <3>1, <3>2, RotatesFields
  <2> QED
    BY <2>1, <2>3, SafeWalk DEF Carries, Brings
<1>13. CASE Recheck(t)
  <2>0. task[t].at = "recheck" /\ task' = [task EXCEPT ![t].at = "park", ![t].seen = session[s]]
    BY <1>13 DEF Recheck
  <2>1. /\ task[t].at = "recheck" /\ task'[t].at = "park" /\ task'[t].s = s
        /\ task'[t].seen = session[s]
    BY <1>0, <2>0 DEF TaskType
  <2>2. UNCHANGED <<session, inactivity, abandon>>
    BY <1>13 DEF Recheck, timers
  <2> QED
    BY <2>1, <2>2, SafeWalk DEF Carries, Brings, StillQueued
<1>14. CASE Park(t)
  <2>1. s \in Sessions /\ task[t].at = "park" /\ UNCHANGED <<session, inactivity>>
    BY <1>0, <1>14 DEF Park, OfSession
  <2>2. CASE task[t].seen.operator = Nobody
    <3>1. ArmAbandon(s)
      BY <1>14, <2>2 DEF Park
    <3>2. /\ QueueMessages => abandon'[s] # "none"
          /\ \A r \in Sessions \ {s} : abandon'[r] = abandon[r]
      BY <2>1, <3>1, ArmedIsCounting
    <3>3. QueueSafe(t, s)
      BY <3>2 DEF QueueSafe, Counting
    <3>4. ~Brings(task[t], s)
      BY <2>1 DEF Brings
    <3>5. ActiveSafe(t, s)
      BY <2>1, <3>4 DEF ActiveSafe
    <3> QED
      BY <2>1, <3>2, <3>3, <3>5, SafeHere
  <2>3. CASE task[t].seen.operator # Nobody
    BY <1>14, <2>1, <2>3, SafeWalk DEF Park, Carries, Brings
  <2> QED
    BY <2>2, <2>3
<1>15. CASE Close(t)
  <2>1. /\ s \in Sessions /\ task[t].at = "close" /\ UNCHANGED <<inactivity, abandon>>
        /\ session'[s].status = "closed" /\ \A r \in Sessions \ {s} : session'[r] = session[r]
    BY <1>0, <1>15 DEF Close, OfSession, timers, SessionType
  <2>2. QueueSafe(t, s) /\ ActiveSafe(t, s)
    BY <2>1 DEF QueueSafe, ActiveSafe, StillQueued, Manned
  <2> QED
    BY <2>1, <2>2, SafeHere
<1>16. CASE Drain(t) \/ DrainCounts(t) \/ DrainTakes(t) \/ Sync(t)
  <2>1. task[t].at \in OfOperator /\ UNCHANGED <<session, inactivity, abandon>>
    BY <1>16 DEF Drain, DrainCounts, DrainTakes, Sync, OfOperator, timers
  <2> QED
    BY <2>1, SafeWalk DEF Carries, Brings, OfOperator
<1> QED
  BY <1>1, <1>2, <1>3, <1>4, <1>5, <1>6, <1>7, <1>8, <1>9, <1>10, <1>11, <1>12, <1>13, <1>14,
     <1>15, <1>16 DEF Step

(* No session loses its operator: without PATCH assign there is no way     *)
(* back to the queue.                                                      *)
LEMMA OperatorsStay ==
  ASSUME IInv, RolesInv, "restAssign" \notin Handlers, Next, NEW s \in Sessions,
         session[s].operator # Nobody
  PROVE  session'[s].operator # Nobody
<1>0. session \in [Sessions -> SessionType]
  BY Facts
<1>1. CASE SameOperators
  BY <1>1 DEF SameOperators
<1>2. ASSUME NEW t \in Tasks, Assign(t) PROVE session'[s].operator # Nobody
  <2>1. task[t].s \in Sessions /\ task[t].o \in Operators
    <3>1. RoleOK(task[t]) /\ task[t].at = "assign"
      BY <1>2 DEF RolesInv, Assign
    <3>2. task[t].handler \in Draining \cup {"start", "reply", "claim"}
      BY <3>1 DEF RoleOK
    <3>3. task[t].handler \in Draining => task[t].o \in Operators
      BY Facts
    <3>4. task[t].handler \notin Draining => task[t].o \in Operators
      BY <3>1, <3>2 DEF RoleOK
    <3> QED
      BY <3>1, <3>3, <3>4, Facts DEF OfSession
  <2>2. task[t].o # Nobody
    BY <2>1, SupervisorsAreOperators
  <2>3. session' = [session EXCEPT ![task[t].s] = Assigned(session[task[t].s], task[t].o, task[t].seen)]
    BY <1>2 DEF Assign
  <2> QED
    BY <1>0, <2>1, <2>2, <2>3 DEF Assigned, SessionType
<1> QED
  BY <1>1, <1>2, RequestsKeepOperators, InstantKeepsOperators, TimersKeepOperators,
     StepsKeepOperators DEF Next

(* What keeps a session from being forgotten lasts until a restart.        *)
LEMMA KeptStays ==
  ASSUME IInv, KnownInv, RolesInv, CountdownInv, NoSilentReopening, Next, ~Restart,
         NEW s \in Sessions
  PROVE  /\ QueuedKept(s) => QueuedKept(s)'
         /\ ActiveKept(s) => ActiveKept(s)'
<1> DEFINE Goal == /\ QueuedKept(s) => QueuedKept(s)'
                   /\ ActiveKept(s) => ActiveKept(s)'
<1>1. ASSUME NEW t \in Tasks, Others(t), Safe(t) PROVE Goal
  BY <1>1, SafeKeeps
<1>2. ASSUME NEW t \in Tasks, Requests(t) \/ Step(t) PROVE Goal
  <2>1. Others(t)
    BY <1>2, RequestsRoles, StepsStay
  <2>2. Safe(t)
    BY <1>2, RequestsSafe, StepsSafe
  <2> QED
    BY <1>1, <2>1, <2>2
<1>3. \A t \in Tasks : ~Fail(t)
  BY DEF Fail, NoSilentReopening
<1>4. ASSUME UNCHANGED task,
             session'[s] = session[s] \/ session'[s].status = "closed",
             inactivity[s] # "none" => inactivity'[s] # "none",
             abandon[s] # "none" => abandon'[s] # "none"
      PROVE  Goal
  BY <1>4 DEF QueuedKept, ActiveKept, StillQueued, Manned, Counting
<1>5. ASSUME NEW r \in Sessions, TimersFire(r) PROVE Goal
  <2>1. ASSUME NEW t \in Tasks, InactivityClose(t, r) \/ AbandonClose(t, r) \/ GraceClose(t, r)
        PROVE  Goal
    BY <1>1, <2>1, ClosesSafe
  <2>2. CASE InactivityWarning(r) \/ AbandonWarning(r) \/ QueueWaitMessage(r)
    <3>1. \A c : AfterWarning(c) # "none"
      BY DEF AfterWarning
    <3>2. /\ UNCHANGED <<task, session>>
          /\ inactivity[s] # "none" => inactivity'[s] # "none"
          /\ abandon[s] # "none" => abandon'[s] # "none"
      BY <2>2, <3>1 DEF InactivityWarning, AbandonWarning, QueueWaitMessage, IInv, MapsOK
    <3> QED
      BY <1>4, <3>2
  <2> QED
    BY <1>5, <2>1, <2>2 DEF TimersFire
<1>6. CASE Instant
  <2>0. session \in [Sessions -> SessionType] /\ \A r \in Sessions : ~RestReopen(r)
    BY Facts DEF RestReopen, NoSilentReopening
  <2>1. /\ UNCHANGED <<task, inactivity, abandon>>
        /\ session'[s] = session[s] \/ session'[s].status = "closed"
    <3>1. ASSUME NEW r \in Sessions, RestClose(r)
          PROVE  /\ UNCHANGED <<task, inactivity, abandon>>
                 /\ session'[s] = session[s] \/ session'[s].status = "closed"
      BY <2>0, <3>1 DEF RestClose, timers, SessionType
    <3>2. ASSUME NEW r \in Sessions, VisitorDisconnect(r)
          PROVE  UNCHANGED <<task, inactivity, abandon, session>>
      BY <3>2 DEF VisitorDisconnect
    <3>3. ASSUME SaveLimit PROVE UNCHANGED <<task, inactivity, abandon, session>>
      BY <3>3 DEF SaveLimit, timers
    <3> QED
      BY <1>6, <2>0, <3>1, <3>2, <3>3 DEF Instant
  <2> QED
    BY <1>4, <2>1
<1> QED
  BY <1>2, <1>3, <1>5, <1>6 DEF Next

(* Which steps come to the places that rely on a row read before or on an  *)
(* assignment made before, and which end a message or a rejoin.            *)
LEMMA StepsLead ==
  ASSUME IInv, RolesInv, NEW t \in Tasks, Step(t)
  PROVE  /\ task'[t].at \in {"react", "rearm", "park"}
              => ReadSession(t) \/ Recheck(t) \/ RejoinReacts(t)
         /\ task'[t].at \in {"notify", "greet"} => Assign(t) \/ Notify(t)
         /\ task[t].handler \in {"message", "rejoin"} /\ task'[t].at = "idle"
              => MessageReacts(t) \/ RejoinRearms(t)
<1> DEFINE Goal ==
      /\ task'[t].at \in {"react", "rearm", "park"}
              => ReadSession(t) \/ Recheck(t) \/ RejoinReacts(t)
      /\ task'[t].at \in {"notify", "greet"} => Assign(t) \/ Notify(t)
      /\ task[t].handler \in {"message", "rejoin"} /\ task'[t].at = "idle"
              => MessageReacts(t) \/ RejoinRearms(t)
<1>0. /\ RoleOK(task[t]) /\ Placed(task[t]) /\ task[t] \in TaskType
      /\ task \in [Tasks -> TaskType]
  BY InFlight DEF RolesInv, IInv
<1>1. ASSUME task[t].handler \notin {"message", "rejoin"},
             task'[t].at \notin {"react", "rearm", "park", "notify", "greet"}
      PROVE  Goal
  BY <1>1
<1>2. CASE ReadSession(t) \/ Recheck(t) \/ Stamp(t)
  <2>1. CASE ReadSession(t)
    <3>1. task'[t].at = "react"
      BY <2>1, ReadFields DEF ReadSession
    <3> QED
      BY <2>1, <3>1
  <2>2. CASE Recheck(t)
    <3>1. task'[t].at = "park"
      BY <2>2, ReadFields DEF Recheck
    <3> QED
      BY <2>2, <3>1
  <2>3. CASE Stamp(t)
    <3>1. task'[t].at = "assign"
      BY <2>3, ReadFields DEF Stamp
    <3> QED
      BY <3>1
  <2> QED
    BY <1>2, <2>1, <2>2, <2>3
<1>3. CASE MessageReacts(t) \/ RejoinRearms(t)
  <2>1. task'[t] = Idle
    BY <1>3, EndFields DEF MessageReacts, RejoinRearms
  <2> QED
    BY <1>3, <2>1 DEF Idle
<1>4. CASE RejoinReacts(t)
  <2>1. task'[t].at = "rearm"
    BY <1>0, <1>4 DEF RejoinReacts, TaskType
  <2> QED
    BY <1>4, <2>1
<1>5. CASE Notify(t) \/ Assign(t)
  <2>1. task'[t].at \in {"greet", "arm", "notify", "idle"}
        /\ task[t].handler \notin {"message", "rejoin"}
    BY <1>0, <1>5, GoFields, EndFields DEF Notify, Assign, Idle, RoleOK, Draining
  <2> QED
    BY <1>5, <2>1
<1>6. CASE \/ FormReacts(t) \/ NothingToClose(t) \/ Park(t) \/ Sync(t) \/ CloseAfterRead(t)
           \/ ClaimReads(t) \/ ReplyReads(t) \/ ReplyCounts(t) \/ Greet(t)
  <2>1. task[t].handler \notin {"message", "rejoin"}
    BY <1>0, <1>6
    DEF FormReacts, NothingToClose, Park, Sync, CloseAfterRead, GoesOnToClose, Reacts, ClaimReads,
        ReplyReads, ReplyCounts, Greet, RoleOK, Draining
  <2>2. task'[t].at \in {"idle", "close", "stamp", "arm", "capacity"}
    BY <1>6, GoFields, EndFields
    DEF FormReacts, NothingToClose, Park, Sync, CloseAfterRead, ClaimReads,
        ReplyReads, ReplyCounts, Greet, Idle
  <2> QED
    BY <1>1, <2>1, <2>2
<1>7. CASE Arm(t)
  <2>1. CASE task' = [task EXCEPT ![t].at = "take", ![t].s = 0, ![t].n = @ + 1,
                                  ![t].seen = NoSession]
    <3>1. task'[t].at = "take"
      BY <1>0, <2>1 DEF TaskType
    <3> QED
      BY <1>0, <1>1, <1>7, <3>1 DEF Arm, RoleOK, Draining
  <2>2. CASE Go(t, "recheck") \/ End(t)
    <3>1. task'[t].at \in {"recheck", "idle"}
      BY <2>2, GoFields, EndFields DEF Idle
    <3> QED
      BY <1>0, <1>1, <1>7, <3>1 DEF Arm, RoleOK, Draining
  <2> QED
    BY <1>7, <2>1, <2>2 DEF Arm
<1>8. CASE Pick(t) \/ PickCounts(t) \/ PickRotates(t)
  <2>1. task[t].handler = "start"
    BY <1>0, <1>8 DEF Pick, PickCounts, PickRotates, RoleOK
  <2>2. task'[t].at \in {"recheck", "counts", "rotate", "stamp"}
    <3>1. CASE Pick(t)
      BY <1>0, <3>1 DEF Pick, TaskType
    <3>2. CASE PickCounts(t)
      BY <1>0, <3>2 DEF PickCounts, TaskType
    <3> QED
      BY <1>8, <3>1, <3>2, RotatesFields
  <2> QED
    BY <1>1, <2>1, <2>2
<1>9. ASSUME DrainEnds(t) PROVE task'[t].at \in {"sync", "idle"}
  BY <1>9, BeginFields, EndFields DEF DrainEnds, Idle
<1>10. CASE Close(t) \/ Drain(t) \/ DrainCounts(t) \/ DrainTakes(t)
  <2>1. task[t].handler \notin {"message", "rejoin"}
    BY <1>0, <1>10 DEF Close, Drain, DrainCounts, DrainTakes, RoleOK, Placed, Closing, Draining
  <2>2. task'[t].at \in {"idle", "drain", "sync", "count", "take", "stamp"}
    <3>1. CASE Close(t)
      BY <3>1, BeginFields, EndFields DEF Close, Idle
    <3>2. CASE Drain(t)
      BY <1>9, <3>2, GoFields DEF Drain
    <3>3. CASE DrainCounts(t)
      BY <1>0, <3>3 DEF DrainCounts, TaskType
    <3>4. CASE DrainTakes(t)
      <4>1. ASSUME NEW s \in Sessions, task' = [task EXCEPT ![t].at = "stamp", ![t].s = s]
            PROVE  task'[t].at = "stamp"
        BY <1>0, <4>1 DEF TaskType
      <4> QED
        BY <1>9, <3>4, <4>1 DEF DrainTakes
    <3> QED
      BY <1>10, <3>1, <3>2, <3>3, <3>4
  <2> QED
    BY <1>1, <2>1, <2>2
<1> QED
  BY <1>2, <1>3, <1>4, <1>5, <1>6, <1>7, <1>8, <1>10 DEF Step

(* A countdown of the queue starts for a session whose row said that it    *)
(* waits; if it has got an operator since, his countdown is on its way.    *)
LEMMA AbandonStarts ==
  ASSUME IInv, KnownInv, RolesInv, CountdownInv, NoSilentReopening, Next, NEW s \in Sessions,
         abandon'[s] # "none"
  PROVE  ActiveKept(s)
<1>1. CASE abandon[s] # "none"
  BY <1>1 DEF CountdownInv
<1>2. CASE abandon[s] = "none"
  <2>0. ASSUME NEW t \in Tasks, task[t].at \in {"react", "rearm", "park"},
               task[t].seen.operator = Nobody, task[t].s \in Sessions, ArmAbandon(task[t].s)
        PROVE  ActiveKept(s)
    <3>1. task[t].s = s
      BY <1>2, <2>0 DEF ArmAbandon, IInv, MapsOK
    <3> QED
      BY <2>0, <3>1 DEF CountdownInv, Remembers
  <2>1. ASSUME NEW t \in Tasks, Step(t) PROVE ActiveKept(s)
    <3>1. CASE MessageReacts(t) \/ FormReacts(t) \/ RejoinRearms(t) \/ Park(t)
      <4>1. /\ task[t].at \in {"react", "rearm", "park"} /\ task[t].s \in Sessions
            /\ \/ task[t].seen.operator = Nobody /\ ArmAbandon(task[t].s)
               \/ UNCHANGED abandon
        BY <3>1, InFlight
        DEF MessageReacts, FormReacts, RejoinRearms, Park, Reacts, StillQueued, OfSession
      <4> QED
        BY <1>2, <2>0, <4>1, <1>2
    <3>2. CASE CloseAfterRead(t) \/ Notify(t)
      BY <1>2, <3>2 DEF CloseAfterRead, ClearSessionTimers, Notify, IInv, MapsOK
    <3>3. CASE UNCHANGED abandon
      BY <1>2, <3>3
    <3> QED
      BY <2>1, <3>1, <3>2, <3>3
      DEF Step, ReadSession, RejoinReacts, NothingToClose, ClaimReads, ReplyReads, ReplyCounts,
          Stamp, Assign, Greet, Arm, Pick, PickCounts, PickRotates, Recheck, Close, Drain,
          DrainCounts, DrainTakes, Sync, timers
  <2>2. CASE UNCHANGED abandon
    BY <1>2, <2>2
  <2>3. ASSUME NEW r, ClearSessionTimers(r) PROVE ActiveKept(s)
    BY <1>2, <2>3 DEF ClearSessionTimers, IInv, MapsOK
  <2>4. ASSUME NEW t \in Tasks, Requests(t) PROVE ActiveKept(s)
    BY <2>2, <2>3, <2>4
    DEF Requests, VisitorStart, OperatorJoin, SetStatus, OperatorOffline, VisitorMessage,
        VisitorFormActivity, VisitorRejoin, VisitorCloseSession, VisitorLeaveContactInfo,
        ReopenSession, RestAssign, OperatorJoinSession, OperatorMessage, OperatorCloseSession,
        timers
  <2>5. ASSUME NEW r \in Sessions, TimersFire(r) PROVE ActiveKept(s)
    <3>1. CASE InactivityWarning(r) \/ AbandonWarning(r) \/ QueueWaitMessage(r)
      BY <1>2, <3>1 DEF InactivityWarning, AbandonWarning, QueueWaitMessage, IInv, MapsOK
    <3>2. ASSUME NEW t \in Tasks, InactivityClose(t, r) \/ AbandonClose(t, r) \/ GraceClose(t, r)
          PROVE  ActiveKept(s)
      BY <1>2, <2>2, <2>3, <3>2 DEF InactivityClose, AbandonClose, GraceClose, IInv, MapsOK
    <3> QED
      BY <2>5, <3>1, <3>2 DEF TimersFire
  <2>6. CASE Instant
    <3>1. CASE Restart
      BY <1>2, <3>1 DEF Restart, IInv, MapsOK
    <3> QED
      BY <2>2, <2>6, <3>1 DEF Instant, VisitorDisconnect, RestClose, RestReopen, SaveLimit, timers
  <2>7. \A t \in Tasks : ~Fail(t)
    BY DEF Fail, NoSilentReopening
  <2> QED
    BY <2>1, <2>4, <2>5, <2>6, <2>7 DEF Next
<1> QED
  BY <1>1, <1>2

LEMMA WhoMoves ==
  ASSUME IInv, RolesInv, NoSilentReopening, Next, ~Restart, NEW t \in Tasks,
         task'[t] # task[t]
  PROVE  \/ Requests(t)
         \/ Step(t)
         \/ \E s \in Sessions : InactivityClose(t, s) \/ AbandonClose(t, s) \/ GraceClose(t, s)
<1>1. ~Fail(t)
  BY DEF Fail, NoSilentReopening
<1> QED
  BY <1>1, WhoActs

(* A visitor who has been back leaves a countdown behind, or came to a     *)
(* session that was closed already.                                        *)
LEMMA ReturnsKept ==
  ASSUME IInv, KnownInv, RolesInv, CountdownInv, NoSilentReopening, Next, ~Restart,
         NEW s \in Sessions, Counting(s)' \/ Revisited(s)
  PROVE  QueuedKept(s)' /\ ActiveKept(s)'
<1>1. ASSUME abandon'[s] # "none" PROVE QueuedKept(s)' /\ ActiveKept(s)'
  <2>1. ActiveKept(s)'
    BY <1>1, AbandonStarts, KeptStays
  <2>2. QueuedKept(s)'
    BY <1>1 DEF QueuedKept, Counting
  <2> QED
    BY <2>1, <2>2
<1>2. ASSUME inactivity'[s] # "none" PROVE QueuedKept(s)' /\ ActiveKept(s)'
  BY <1>2 DEF QueuedKept, ActiveKept, Counting
<1>3. ASSUME Revisited(s) PROVE QueuedKept(s)' /\ ActiveKept(s)'
  <2>1. PICK t \in Tasks : /\ task[t].handler \in {"message", "rejoin"} /\ task[t].s = s
                           /\ task'[t].at = "idle"
    BY <1>3 DEF Revisited
  <2>2. RoleOK(task[t])
    BY DEF RolesInv
  <2>3. task[t].at # "idle"
    BY <2>1, <2>2 DEF RoleOK
  <2>4. Step(t)
    <3>1. Requests(t) => task[t].at = "idle"
      BY DEF Requests, VisitorStart, OperatorJoin, SetStatus, OperatorOffline, VisitorMessage,
        VisitorFormActivity, VisitorRejoin, VisitorCloseSession, VisitorLeaveContactInfo,
        ReopenSession, RestAssign, OperatorJoinSession, OperatorMessage, OperatorCloseSession,
        Receives
    <3>2. \A r \in Sessions :
            InactivityClose(t, r) \/ AbandonClose(t, r) \/ GraceClose(t, r) => task[t].at = "idle"
      BY DEF InactivityClose, AbandonClose, GraceClose
    <3>3. task'[t] # task[t]
      BY <2>1, <2>3
    <3> QED
      BY <2>3, <3>1, <3>2, <3>3, WhoMoves
  <2>5. MessageReacts(t) \/ RejoinRearms(t)
    BY <2>1, <2>4, StepsLead
  <2>6. ASSUME ArmAbandon(s), task[t].at \in {"react", "rearm"}, task[t].seen.operator = Nobody
        PROVE  QueuedKept(s)' /\ ActiveKept(s)'
    <3>1. CASE QueueMessages
      BY <1>1, <2>6, <3>1, ArmedIsCounting
    <3>2. CASE ~QueueMessages
      <4>1. ActiveKept(s)
        BY <2>1, <2>6 DEF CountdownInv, Remembers
      <4> QED
        BY <3>2, <4>1, KeptStays DEF QueuedKept
    <3> QED
      BY <3>1, <3>2
  <2>7. CASE MessageReacts(t)
    <3>1. \/ ArmInactivity(s)
          \/ ArmAbandon(s) /\ task[t].at = "react" /\ task[t].seen.operator = Nobody
      BY <2>1, <2>7 DEF MessageReacts, Reacts
    <3>2. ArmInactivity(s) => inactivity'[s] # "none"
      BY ArmedIsCounting
    <3> QED
      BY <1>2, <2>6, <3>1, <3>2
  <2>8. CASE RejoinRearms(t)
    <3>0. task[t].at = "rearm"
      BY <2>8 DEF RejoinRearms
    <3>1. CASE task[t].seen.status # "open"
      <4>1. QueuedKept(s) /\ ActiveKept(s)
        BY <2>1, <3>0, <3>1 DEF CountdownInv, Remembers
      <4> QED
        BY <4>1, KeptStays
    <3>2. CASE StillQueued(task[t].seen)
      <4>1. ArmAbandon(s) \/ (abandon[s] # "none" /\ UNCHANGED abandon)
        BY <2>1, <2>8, <3>2 DEF RejoinRearms, ArmAbandon
      <4> QED
        BY <1>1, <2>6, <3>0, <3>2, <4>1 DEF StillQueued
    <3>3. CASE task[t].seen.status = "open" /\ task[t].seen.operator # Nobody
      <4>1. ArmInactivity(s) \/ (inactivity[s] # "none" /\ UNCHANGED inactivity)
        BY <2>1, <2>8, <3>3 DEF RejoinRearms, ArmInactivity
      <4>2. inactivity'[s] # "none"
        BY <4>1, ArmedIsCounting
      <4> QED
        BY <1>2, <4>2
    <3> QED
      BY <3>1, <3>2, <3>3 DEF StillQueued
  <2> QED
    BY <2>5, <2>7, <2>8
<1> QED
  BY <1>1, <1>2, <1>3 DEF Counting

LEMMA RemembersNext ==
  ASSUME IInv, KnownInv, RolesInv, CountdownInv, NoSilentReopening, Next, ~Restart,
         NEW t \in Tasks
  PROVE  Remembers(task[t])'
<1> SUFFICES ASSUME NEW s \in Sessions, task'[t].s = s, task'[t].at \in {"react", "rearm", "park"}
             PROVE  /\ task'[t].seen.operator # Nobody => session'[s].operator # Nobody
                    /\ task'[t].seen.operator = Nobody \/ task'[t].seen.status # "open"
                         => ActiveKept(s)'
                    /\ task'[t].seen.status # "open" => QueuedKept(s)'
  BY DEF Remembers
<1>0. "restAssign" \notin Handlers
  BY DEF NoSilentReopening
<1>1. ASSUME task[t].s = s, task[t].at \in {"react", "rearm", "park"},
             task'[t].seen = task[t].seen
      PROVE  /\ task'[t].seen.operator # Nobody => session'[s].operator # Nobody
             /\ task'[t].seen.operator = Nobody \/ task'[t].seen.status # "open"
                  => ActiveKept(s)'
             /\ task'[t].seen.status # "open" => QueuedKept(s)'
  <2>1. /\ task[t].seen.operator # Nobody => session[s].operator # Nobody
        /\ task[t].seen.operator = Nobody \/ task[t].seen.status # "open" => ActiveKept(s)
        /\ task[t].seen.status # "open" => QueuedKept(s)
    BY <1>1 DEF CountdownInv, Remembers
  <2>2. session[s].operator # Nobody => session'[s].operator # Nobody
    BY <1>0, OperatorsStay
  <2>3. (QueuedKept(s) => QueuedKept(s)') /\ (ActiveKept(s) => ActiveKept(s)')
    BY KeptStays
  <2> QED
    BY <1>1, <2>1, <2>2, <2>3
<1>2. CASE task'[t] = task[t]
  BY <1>1, <1>2
<1>3. CASE task'[t] # task[t]
  <2>1. CASE Step(t)
    <3>1. ReadSession(t) \/ Recheck(t) \/ RejoinReacts(t)
      BY <2>1, StepsLead
    <3>2. CASE ReadSession(t) \/ Recheck(t)
      <4>1. task'[t].seen = session[s] /\ UNCHANGED session
        <5>1. task[t].s = s
          BY <3>2 DEF ReadSession, Recheck, IInv, TaskType
        <5> QED
          BY <3>2, <5>1 DEF ReadSession, Recheck, IInv, TaskType
      <4> QED
        BY <4>1 DEF QueuedKept, ActiveKept, StillQueued, Manned
    <3>3. CASE RejoinReacts(t)
      <4>1. /\ task[t].at = "react" /\ task'[t].s = task[t].s
            /\ task'[t].seen = task[t].seen
        BY <3>3 DEF RejoinReacts, Reacts, IInv, TaskType
      <4> QED
        BY <1>1, <4>1
    <3> QED
      BY <3>1, <3>2, <3>3
  <2>2. ASSUME Requests(t) PROVE task'[t].at \notin {"react", "rearm", "park"}
    BY <2>2, BeginFields
    DEF Requests, VisitorStart, OperatorJoin, SetStatus, OperatorOffline, VisitorMessage,
        VisitorFormActivity, VisitorRejoin, VisitorCloseSession, VisitorLeaveContactInfo,
        ReopenSession, RestAssign, OperatorJoinSession, OperatorMessage, OperatorCloseSession
  <2>3. ASSUME NEW r \in Sessions, InactivityClose(t, r) \/ AbandonClose(t, r) \/ GraceClose(t, r)
        PROVE  task'[t].at \notin {"react", "rearm", "park"}
    BY <2>3, BeginFields DEF InactivityClose, AbandonClose, GraceClose
  <2> QED
    BY <1>3, <2>1, <2>2, <2>3, WhoMoves
<1> QED
  BY <1>2, <1>3

LEMMA ServedNext ==
  ASSUME IInv, KnownInv, RolesInv, CountdownInv, NoSilentReopening, Next, ~Restart,
         NEW t \in Tasks, task'[t].at \in {"notify", "greet"}
  PROVE  session'[task'[t].s].operator # Nobody
<1>0. "restAssign" \notin Handlers
  BY DEF NoSilentReopening
<1>1. ASSUME task[t].at \in {"notify", "greet"}, task'[t].s = task[t].s
      PROVE  session'[task'[t].s].operator # Nobody
  <2>1. task[t].s \in Sessions /\ session[task[t].s].operator # Nobody
    BY <1>1, InFlight DEF CountdownInv, OfSession
  <2> QED
    BY <1>0, <1>1, <2>1, OperatorsStay
<1>2. CASE task'[t] = task[t]
  BY <1>1, <1>2
<1>3. CASE task'[t] # task[t]
  <2>1. CASE Step(t)
    <3>1. CASE Assign(t)
      <4>1. /\ task[t].s \in Sessions /\ task[t].at = "assign" /\ RoleOK(task[t])
            /\ session \in [Sessions -> SessionType]
        BY <3>1, InFlight, Facts DEF Assign, OfSession, RolesInv
      <4>2. /\ task[t].handler \in Draining \cup {"start"}
            /\ task'[t].s = task[t].s
        BY <3>1, GoFields, EndFields DEF Assign, Automatic, Idle
      <4>3. task[t].o \in Operators
        BY <4>1, <4>2, InFlight DEF RoleOK
      <4>4. task[t].o # Nobody
        BY <4>3, SupervisorsAreOperators
      <4> QED
        BY <3>1, <4>1, <4>2, <4>4 DEF Assign, Assigned, SessionType
    <3>2. CASE Notify(t)
      <4>1. task[t].at = "notify" /\ task'[t].s = task[t].s
        BY <3>2, GoFields DEF Notify
      <4> QED
        BY <1>1, <4>1
    <3> QED
      BY <2>1, <3>1, <3>2, StepsLead
  <2>2. ASSUME Requests(t) PROVE task'[t].at \notin {"notify", "greet"}
    BY <2>2, BeginFields
    DEF Requests, VisitorStart, OperatorJoin, SetStatus, OperatorOffline, VisitorMessage,
        VisitorFormActivity, VisitorRejoin, VisitorCloseSession, VisitorLeaveContactInfo,
        ReopenSession, RestAssign, OperatorJoinSession, OperatorMessage, OperatorCloseSession
  <2>3. ASSUME NEW r \in Sessions, InactivityClose(t, r) \/ AbandonClose(t, r) \/ GraceClose(t, r)
        PROVE  task'[t].at \notin {"notify", "greet"}
    BY <2>3, BeginFields DEF InactivityClose, AbandonClose, GraceClose
  <2> QED
    BY <1>3, <2>1, <2>2, <2>3, WhoMoves
<1> QED
  BY <1>2, <1>3

LEMMA RestartKept ==
  ASSUME IInv, Restart, forgotten' = {s \in Sessions : session[s].status = "open"}
  PROVE  CountdownInv'
<1>1. \A s \in Sessions : /\ session'[s] = session[s]
                          /\ s \notin forgotten' => session'[s].status # "open"
                          /\ abandon'[s] = "none"
  BY DEF Restart
<1>2. \A t \in Tasks : task'[t].at = "idle"
  BY DEF Restart, Idle
<1>3. \A s \in Sessions : s \notin forgotten' => QueuedKept(s)' /\ ActiveKept(s)'
  BY <1>1 DEF QueuedKept, ActiveKept, StillQueued, Manned
<1>4. \A t \in Tasks : Remembers(task[t])'
  BY <1>2 DEF Remembers
<1> QED
  BY <1>1, <1>2, <1>3, <1>4 DEF CountdownInv

LEMMA CountdownNext ==
  ASSUME NoSilentReopening
  PROVE  IInv /\ KnownInv /\ RolesInv /\ CountdownInv /\ [CNext]_<<vars, forgotten>>
           => CountdownInv'
<1> SUFFICES ASSUME IInv, KnownInv, RolesInv, CountdownInv, [CNext]_<<vars, forgotten>>
             PROVE  CountdownInv'
  OBVIOUS
<1>1. CASE UNCHANGED <<vars, forgotten>>
  BY <1>1 DEF vars, timers, CountdownInv, QueuedKept, ActiveKept, Remembers, Counting
<1>2. CASE CNext /\ Restart /\ forgotten' = {s \in Sessions : session[s].status = "open"}
  BY <1>2, RestartKept
<1>3. CASE Next /\ ~Restart /\ forgotten' = {s \in forgotten : ~Counting(s)' /\ ~Revisited(s)}
  <2>1. ASSUME NEW s \in Sessions, s \notin forgotten'
        PROVE  QueuedKept(s)' /\ ActiveKept(s)'
    <3>1. CASE s \in forgotten
      <4>1. Counting(s)' \/ Revisited(s)
        BY <1>3, <2>1, <3>1
      <4> QED
        BY <1>3, <4>1, ReturnsKept
    <3>2. CASE s \notin forgotten
      <4>1. QueuedKept(s) /\ ActiveKept(s)
        BY <3>2 DEF CountdownInv
      <4> QED
        BY <1>3, <4>1, KeptStays
    <3> QED
      BY <3>1, <3>2
  <2>2. ASSUME NEW s \in Sessions, abandon'[s] # "none" PROVE ActiveKept(s)'
    BY <1>3, <2>2, AbandonStarts, KeptStays
  <2>3. \A t \in Tasks : Remembers(task[t])'
    BY <1>3, RemembersNext
  <2>4. \A t \in Tasks : task'[t].at \in {"notify", "greet"} => session'[task'[t].s].operator # Nobody
    BY <1>3, ServedNext
  <2> QED
    BY <2>1, <2>2, <2>3, <2>4 DEF CountdownInv
<1> QED
  BY <1>1, <1>2, <1>3 DEF CNext

LEMMA CountdownInit == CInit => CountdownInv
<1> SUFFICES ASSUME CInit PROVE CountdownInv
  OBVIOUS
<1>1. \A s \in Sessions : session[s].status = "none" /\ abandon[s] = "none"
  BY DEF CInit, Init, NoSession
<1>2. \A t \in Tasks : task[t].at = "idle"
  BY DEF CInit, Init, Idle
<1>3. \A s \in Sessions : QueuedKept(s) /\ ActiveKept(s)
  BY <1>1 DEF QueuedKept, ActiveKept, StillQueued, Manned
<1> QED
  BY <1>1, <1>2, <1>3 DEF CountdownInv, Remembers

LEMMA CountdownsHold ==
  ASSUME NoSilentReopening
  PROVE  CSpec => [](IInv /\ CountdownInv)
<1>1. CInit => IInv /\ KnownInv /\ RolesInv /\ CountdownInv
  BY InitHolds, KnownInit, LimitInit, CountdownInit DEF CInit
<1>2. [CNext]_<<vars, forgotten>> => [Next]_vars
  BY DEF CNext
<1>3. IInv /\ KnownInv /\ RolesInv /\ CountdownInv /\ [CNext]_<<vars, forgotten>>
        => IInv' /\ KnownInv' /\ RolesInv' /\ CountdownInv'
  BY <1>2, NextPreserves, KnownNext, RolesNext, CountdownNext
<1> QED
  BY <1>1, <1>3, PTL DEF CSpec

(* A queued session that no handler works on has its countdown, for any    *)
(* number of sessions and handlers and however they interleave, restarts   *)
(* included.  Excluded is what changes a row behind the gateway's back     *)
(* (REST reopening and assigning) and a command that fails; and a team     *)
(* that switches both messages of a countdown off has no countdown (the    *)
(* other countdown counts too: a chat closed in the queue and reopened     *)
(* gets the one of a conversation).                                        *)
THEOREM ChatQueuedHasCountdown ==
  ASSUME Handlers \cap {"restReopen", "restAssign", "fail"} = {},
         {"inactivity_warning", "inactivity_close"} \cap Enabled # {},
         {"queue_abandon_warning", "queue_abandon_close"} \cap Enabled # {}
  PROVE  CSpec => []QueuedHasCountdown
<1>1. NoSilentReopening /\ QueueMessages
  BY DEF NoSilentReopening, QueueMessages
<1>2. CountdownInv => QueuedHasCountdown
  <2> SUFFICES ASSUME CountdownInv, NEW s \in Sessions, Unattended(s),
                      session[s].operator = Nobody
               PROVE  Counting(s)
    BY DEF QueuedHasCountdown
  <2>1. StillQueued(session[s]) /\ QueuedKept(s)
    BY DEF Unattended, CountdownInv, StillQueued
  <2>2. \A t \in Tasks : ~Carries(task[t], s)
    BY DEF Unattended, Working, Carries
  <2> QED
    BY <1>1, <2>1, <2>2 DEF QueuedKept
<1> QED
  BY <1>1, <1>2, CountdownsHold, PTL

(* A session with an operator that no handler works on has its inactivity  *)
(* countdown, whether the messages of the queue are switched on or not.    *)
(* Excluded is, besides, a claim by opening, which starts no countdown.    *)
THEOREM ChatActiveHasCountdown ==
  ASSUME Handlers \cap {"restReopen", "restAssign", "claim", "fail"} = {},
         {"inactivity_warning", "inactivity_close"} \cap Enabled # {}
  PROVE  CSpec => []ActiveHasCountdown
<1>1. NoSilentReopening /\ NoClaims
  BY DEF NoSilentReopening, NoClaims
<1>2. CountdownInv => ActiveHasCountdown
  <2> SUFFICES ASSUME CountdownInv, NEW s \in Sessions, Unattended(s),
                      session[s].operator # Nobody
               PROVE  inactivity[s] # "none"
    BY DEF ActiveHasCountdown
  <2>1. Manned(session[s]) /\ ActiveKept(s)
    BY DEF Unattended, CountdownInv, Manned
  <2>2. \A t \in Tasks : ~Brings(task[t], s)
    BY DEF Unattended, Working, Brings
  <2> QED
    BY <1>1, <2>1, <2>2 DEF ActiveKept
<1> QED
  BY <1>1, <1>2, CountdownsHold, PTL

-----------------------------------------------------------------------------
(* Greetings                                                               *)

(* A handler of its own account that has not given its session away yet.   *)
Untaken(k) ==
  \/ k.at \in {"pick", "counts", "rotate"}
  \/ k.at \in {"stamp", "assign"} /\ k.handler \in Draining \cup {"start"}

LEMMA StepsUntaken ==
  ASSUME IInv, RolesInv, NEW t \in Tasks, Step(t) \/ Fail(t), NEW s, task'[t].s = s,
         Untaken(task'[t])
  PROVE  (task[t].s = s /\ Untaken(task[t])) \/ (s \in Sessions /\ Waiting(s))
<1> DEFINE Goal == (task[t].s = s /\ Untaken(task[t])) \/ (s \in Sessions /\ Waiting(s))
<1>0. /\ RoleOK(task[t]) /\ Placed(task[t]) /\ task[t] \in TaskType
      /\ task \in [Tasks -> TaskType]
  BY InFlight DEF RolesInv, IInv
<1>00. /\ task'[t].at \in {"pick", "counts", "rotate", "stamp", "assign"}
       /\ task'[t].at \in {"stamp", "assign"} => task'[t].handler \in Draining \cup {"start"}
  BY DEF Untaken
<1>1. CASE Stamp(t)
  <2>1. /\ task[t].at = "stamp" /\ task'[t].s = task[t].s /\ task'[t].at = "assign"
        /\ task'[t].handler = task[t].handler
    BY <1>1, ReadFields DEF Stamp
  <2> QED
    BY <1>00, <2>1 DEF Untaken
<1>2. CASE Pick(t)
  <2>1. task[t].at = "pick" /\ task'[t].s = task[t].s
    BY <1>0, <1>2 DEF Pick, TaskType
  <2> QED
    BY <2>1 DEF Untaken
<1>3. CASE PickCounts(t)
  <2>1. task[t].at = "counts" /\ task'[t].s = task[t].s
    BY <1>0, <1>3 DEF PickCounts, TaskType
  <2> QED
    BY <2>1 DEF Untaken
<1>4. CASE PickRotates(t)
  <2>1. ASSUME NEW o, task' = [task EXCEPT ![t].at = "stamp", ![t].o = o, ![t].pool = {}]
        PROVE  task'[t].s = task[t].s
    BY <1>0, <2>1 DEF TaskType
  <2>2. ASSUME task' = [task EXCEPT ![t].at = "recheck", ![t].pool = {}]
        PROVE  task'[t].s = task[t].s
    BY <1>0, <2>2 DEF TaskType
  <2>3. task[t].at = "rotate" /\ task'[t].s = task[t].s
    BY <1>4, <2>1, <2>2 DEF PickRotates
  <2> QED
    BY <2>3 DEF Untaken
<1>5. CASE DrainTakes(t)
  <2>1. ASSUME DrainEnds(t) PROVE task'[t].at \in {"sync", "idle"}
    BY <2>1, BeginFields, EndFields DEF DrainEnds, Idle
  <2>2. ASSUME NEW r \in Sessions, Oldest(r), task' = [task EXCEPT ![t].at = "stamp", ![t].s = r]
        PROVE  Goal
    <3>1. r = s
      BY <1>0, <2>2 DEF TaskType
    <3> QED
      BY <2>2, <3>1 DEF Oldest
  <2> QED
    BY <1>00, <1>5, <2>1, <2>2 DEF DrainTakes
<1>6. CASE ReadSession(t) \/ Recheck(t) \/ RejoinReacts(t)
  <2>1. CASE ReadSession(t)
    <3>1. task'[t].at = "react"
      BY <2>1, ReadFields DEF ReadSession
    <3> QED
      BY <1>00, <3>1
  <2>2. CASE Recheck(t)
    <3>1. task'[t].at = "park"
      BY <2>2, ReadFields DEF Recheck
    <3> QED
      BY <1>00, <3>1
  <2>3. CASE RejoinReacts(t)
    <3>1. task'[t].at = "rearm"
      BY <1>0, <2>3 DEF RejoinReacts, TaskType
    <3> QED
      BY <1>00, <3>1
  <2> QED
    BY <1>6, <2>1, <2>2, <2>3
<1>7. CASE ClaimReads(t) \/ ReplyReads(t) \/ ReplyCounts(t)
  <2>1. task'[t].at \in {"stamp", "idle", "arm", "capacity"}
        /\ (task'[t].at = "stamp" => task'[t].handler \in {"claim", "reply"})
    BY <1>0, <1>7, GoFields, EndFields DEF ClaimReads, ReplyReads, ReplyCounts, RoleOK, Idle
  <2> QED
    BY <1>00, <2>1 DEF Draining
<1>8. CASE Arm(t)
  <2>1. CASE task' = [task EXCEPT ![t].at = "take", ![t].s = 0, ![t].n = @ + 1,
                                  ![t].seen = NoSession]
    <3>1. task'[t].at = "take"
      BY <1>0, <2>1 DEF TaskType
    <3> QED
      BY <1>00, <3>1
  <2>2. CASE Go(t, "recheck") \/ End(t)
    <3>1. task'[t].at \in {"recheck", "idle"}
      BY <2>2, GoFields, EndFields DEF Idle
    <3> QED
      BY <1>00, <3>1
  <2> QED
    BY <1>8, <2>1, <2>2 DEF Arm
<1>9. CASE DrainCounts(t)
  <2>1. task'[t].at = "take"
    BY <1>0, <1>9 DEF DrainCounts, TaskType
  <2> QED
    BY <1>00, <2>1
<1>10. CASE \/ MessageReacts(t) \/ FormReacts(t) \/ RejoinRearms(t) \/ CloseAfterRead(t)
            \/ NothingToClose(t) \/ Assign(t) \/ Notify(t) \/ Greet(t) \/ Park(t)
            \/ Close(t) \/ Drain(t) \/ Sync(t) \/ Fail(t)
  <2>1. ASSUME DrainEnds(t) PROVE task'[t].at \in {"sync", "idle"}
    BY <2>1, BeginFields, EndFields DEF DrainEnds, Idle
  <2>2. End(t) => task'[t].at = "idle"
    BY EndFields DEF Idle
  <2>3. \A at : Go(t, at) => task'[t].at = at
    BY GoFields
  <2>4. CASE Close(t)
    <3>1. task'[t].at \in {"idle", "drain"}
      BY <2>2, <2>4, BeginFields DEF Close
    <3> QED
      BY <1>00, <3>1
  <2>5. CASE MessageReacts(t) \/ FormReacts(t) \/ RejoinRearms(t) \/ NothingToClose(t) \/ Park(t)
             \/ Sync(t)
    <3>1. End(t)
      BY <2>5 DEF MessageReacts, FormReacts, RejoinRearms, NothingToClose, Park, Sync
    <3> QED
      BY <1>00, <2>2, <3>1
  <2>6. CASE CloseAfterRead(t) \/ Assign(t) \/ Notify(t) \/ Greet(t) \/ Drain(t) \/ Fail(t)
    <3>1. task'[t].at \in {"idle", "close", "notify", "greet", "arm", "count", "sync"}
      BY <2>1, <2>2, <2>3, <2>6 DEF CloseAfterRead, Assign, Notify, Greet, Drain, Fail
    <3> QED
      BY <1>00, <3>1
  <2> QED
    BY <1>10, <2>4, <2>5, <2>6
<1> QED
  BY <1>1, <1>2, <1>3, <1>4, <1>5, <1>6, <1>7, <1>8, <1>9, <1>10 DEF Step

(* A handler that begins, begins with nothing to greet.                    *)
LEMMA BeginsUntaken ==
  ASSUME IInv, NEW t \in Tasks,
         \/ Requests(t)
         \/ \E s \in Sessions : InactivityClose(t, s) \/ AbandonClose(t, s) \/ GraceClose(t, s)
  PROVE  /\ task'[t].at \notin {"notify", "greet"}
         /\ Untaken(task'[t]) => /\ task'[t].at = "pick"
                                 /\ VisitorStart(t)
<1>1. CASE VisitorStart(t)
  <2>1. task'[t].at = "pick"
    BY <1>1, BeginFields DEF VisitorStart
  <2> QED
    BY <1>1, <2>1
<1>2. CASE ~VisitorStart(t)
  <2>1. \/ task'[t].at \in {"read", "close", "arm", "drain", "sync"}
        \/ task'[t].at = "stamp" /\ task'[t].handler = "assign"
    <3>1. ASSUME NEW s \in Sessions, InactivityClose(t, s) \/ AbandonClose(t, s) \/ GraceClose(t, s)
          PROVE  task'[t].at \in {"read", "close"}
      BY <3>1, BeginFields DEF InactivityClose, AbandonClose, GraceClose
    <3>2. ASSUME NEW s \in Sessions,
                 \/ VisitorMessage(t, s) \/ VisitorFormActivity(t, s) \/ VisitorRejoin(t, s)
                 \/ VisitorCloseSession(t, s) \/ VisitorLeaveContactInfo(t, s)
                 \/ ReopenSession(t, s)
                 \/ \E o \in Operators :
                      \/ OperatorJoinSession(t, s, o) \/ OperatorMessage(t, s, o)
                      \/ OperatorCloseSession(t, s, o)
          PROVE  task'[t].at \in {"read", "close", "arm"}
      BY <3>2, BeginFields
      DEF VisitorMessage, VisitorFormActivity, VisitorRejoin, VisitorCloseSession,
          VisitorLeaveContactInfo, ReopenSession, OperatorJoinSession, OperatorMessage,
          OperatorCloseSession
    <3>3. ASSUME NEW o \in Operators, OperatorJoin(t, o) \/ SetStatus(t, o) \/ OperatorOffline(t, o)
          PROVE  task'[t].at \in {"drain", "sync"}
      BY <3>3, BeginFields DEF OperatorJoin, SetStatus, OperatorOffline
    <3>4. ASSUME NEW s \in Sessions, RestAssign(t, s)
          PROVE  task'[t].at = "stamp" /\ task'[t].handler = "assign"
      BY <3>4, BeginFields DEF RestAssign
    <3> QED
      BY <1>2, <3>1, <3>2, <3>3, <3>4 DEF Requests
  <2> QED
    BY <2>1 DEF Untaken, Draining
<1> QED
  BY <1>1, <1>2

(* The handlers that have session s in hand: until they have greeted, or   *)
(* found nobody.                                                           *)
Taking(k, s) ==
  /\ k.handler \in Draining \cup {"start"} /\ k.s = s
  /\ k.at \in {"pick", "counts", "rotate", "stamp", "assign", "notify", "greet"}

(* A greeting for each that has the session in hand is what may come yet.  *)
Times(s) == IF s \in met THEN Cardinality(Tasks) ELSE 1

Once(s) ==
  /\ session[s].operator = Nobody => greetings[s] = 0
  /\ greetings[s] + Cardinality(InHand(s)) <= Times(s)
  /\ \A t \in InHand(s) : task[t].at \in {"notify", "greet"} => session[s].operator # Nobody

GreetedInv == \A s \in Sessions \ released : Once(s)

LEMMA HandsMean ==
  ASSUME NEW s \in Sessions
  PROVE  /\ InHand(s) = {t \in Tasks : Taking(task[t], s)}
         /\ InHand(s)' = {t \in Tasks : Taking(task'[t], s)}
BY DEF InHand, Taking, Automatic

LEMMA HandsAreFinite ==
  ASSUME NEW H, H \subseteq Tasks
  PROVE  IsFiniteSet(H) /\ Cardinality(H) \in Nat /\ Cardinality(H) <= Cardinality(Tasks)
         /\ Cardinality(Tasks) \in Nat
BY TasksAreFinite, FS_Subset, FS_CardinalityType

(* Who takes a session in hand that he had not: a start, for a row that it *)
(* has just written, or a drain, for one that waits.                       *)
LEMMA TakesInHand ==
  ASSUME IInv, KnownInv, RolesInv, Next, NEW s \in Sessions, NEW t \in Tasks,
         Taking(task'[t], s), ~Taking(task[t], s)
  PROVE  session[s].operator = Nobody
<1>0. task'[t] # task[t] /\ task'[t].s = s /\ RoleOK(task[t])
  BY DEF Taking, RolesInv
<1>1. CASE Step(t) \/ Fail(t)
  <2>1. CASE task'[t].at \in {"notify", "greet"}
    <3>1. ~Fail(t)
      BY <2>1, BeginFields, EndFields DEF Fail, DrainEnds, Idle
    <3>2. Assign(t) \/ Notify(t)
      BY <1>1, <2>1, <3>1, StepsLead
    <3>3. /\ task[t].at \in {"assign", "notify"} /\ task[t].s = s
          /\ task[t].handler = task'[t].handler
      BY <1>0, <2>1, <3>2, GoFields, EndFields DEF Assign, Notify, Idle
    <3> QED
      BY <3>3 DEF Taking
  <2>2. CASE task'[t].at \notin {"notify", "greet"}
    <3>1. Untaken(task'[t])
      BY <2>2 DEF Taking, Untaken
    <3>2. (task[t].s = s /\ Untaken(task[t])) \/ Waiting(s)
      BY <1>0, <1>1, <3>1, StepsUntaken
    <3>3. ~(task[t].s = s /\ Untaken(task[t]))
      BY <1>0 DEF Taking, Untaken, RoleOK
    <3> QED
      BY <3>2, <3>3 DEF Waiting
  <2> QED
    BY <2>1, <2>2
<1>2. CASE \/ Requests(t)
           \/ \E r \in Sessions : InactivityClose(t, r) \/ AbandonClose(t, r) \/ GraceClose(t, r)
  <2>1. task'[t].at \notin {"notify", "greet"} /\ (Untaken(task'[t]) => VisitorStart(t))
    BY <1>2, BeginsUntaken
  <2>2. VisitorStart(t)
    BY <2>1 DEF Taking, Untaken
  <2>3. PICK r \in Sessions : session[r].status = "none" /\ Begin(t, "start", "pick", r, Nobody)
    BY <2>2 DEF VisitorStart
  <2>4. r = s
    BY <1>0, <2>3, BeginFields
  <2> QED
    BY <2>3, <2>4 DEF KnownInv, RowsKnown, Known
<1>3. CASE Restart
  BY <1>3 DEF Restart, Taking, Idle
<1> QED
  BY <1>0, <1>1, <1>2, <1>3, WhoActs

(* Who comes to the greeting has assigned the session.                     *)
LEMMA ComesToGreet ==
  ASSUME IInv, RolesInv, Next, NEW s \in Sessions, NEW t \in Tasks,
         Taking(task'[t], s), task'[t].at \in {"notify", "greet"}
  PROVE  \/ Taking(task[t], s) /\ task[t].at \in {"notify", "greet"}
         \/ session'[s].operator # Nobody
<1>1. CASE task'[t] = task[t]
  BY <1>1
<1>2. CASE Step(t) \/ Fail(t)
  <2>1. ~Fail(t)
    BY BeginFields, EndFields DEF Fail, DrainEnds, Idle
  <2>2. Assign(t) \/ Notify(t)
    BY <1>2, <2>1, StepsLead
  <2>3. CASE Notify(t)
    BY <2>3, GoFields DEF Notify, Taking
  <2>4. CASE Assign(t)
    <3>1. /\ task[t].s = s /\ task[t].at = "assign"
          /\ task[t].handler \in Draining \cup {"start"}
      BY <2>4, GoFields, EndFields DEF Assign, Taking, Idle
    <3>2. task[t].o \in Operators
      <4>1. CASE task[t].handler \in Draining
        BY <4>1, InFlight
      <4>2. CASE task[t].handler = "start"
        BY <3>1, <4>2 DEF RolesInv, RoleOK
      <4> QED
        BY <3>1, <4>1, <4>2
    <3>3. task[t].o # Nobody
      BY <3>2, SupervisorsAreOperators
    <3>4. session \in [Sessions -> SessionType]
      BY Facts
    <3> QED
      BY <2>4, <3>1, <3>3, <3>4 DEF Assign, Assigned, SessionType
  <2> QED
    BY <2>2, <2>3, <2>4
<1>3. CASE \/ Requests(t)
           \/ \E r \in Sessions : InactivityClose(t, r) \/ AbandonClose(t, r) \/ GraceClose(t, r)
  BY <1>3, BeginsUntaken
<1>4. CASE Restart
  BY <1>4 DEF Restart, Idle
<1> QED
  BY <1>1, <1>2, <1>3, <1>4, WhoActs

(* Only a greeting greets: one handler, once, and then it is done with it. *)
LEMMA GreetsOnce ==
  ASSUME IInv, RolesInv, Next, NEW s \in Sessions, greetings'[s] # greetings[s]
  PROVE  \E t \in Tasks :
           /\ Taking(task[t], s) /\ task[t].at = "greet" /\ ~Taking(task'[t], s)
           /\ greetings'[s] = greetings[s] + 1 /\ Others(t) /\ UNCHANGED session
<1>0. greetings \in [Sessions -> Nat]
  BY DEF IInv, MapsOK
<1>1. ASSUME NEW t \in Tasks, Requests(t) PROVE UNCHANGED greetings
  BY <1>1
  DEF Requests, VisitorStart, OperatorJoin, SetStatus, OperatorOffline, VisitorMessage,
      VisitorFormActivity, VisitorRejoin, VisitorCloseSession, VisitorLeaveContactInfo,
      ReopenSession, RestAssign, OperatorJoinSession, OperatorMessage, OperatorCloseSession
<1>2. ASSUME NEW t \in Tasks, Step(t) \/ Fail(t), ~Greet(t) PROVE UNCHANGED greetings
  BY <1>2
  DEF Step, Fail, ReadSession, MessageReacts, FormReacts, RejoinReacts, RejoinRearms,
      CloseAfterRead, NothingToClose, ClaimReads, ReplyReads, ReplyCounts, Stamp, Assign, Notify,
      Arm, Pick, PickCounts, PickRotates, Recheck, Park, Close, Drain, DrainCounts,
      DrainTakes, Sync
<1>3. ASSUME NEW r \in Sessions, TimersFire(r) PROVE UNCHANGED greetings
  BY <1>3
  DEF TimersFire, InactivityWarning, AbandonWarning, QueueWaitMessage, InactivityClose,
      AbandonClose, GraceClose
<1>4. Instant => UNCHANGED greetings
  BY DEF Instant, VisitorDisconnect, RestClose, RestReopen, SaveLimit, Restart
<1>5. PICK t \in Tasks : Greet(t)
  BY <1>1, <1>2, <1>3, <1>4 DEF Next
<1>6. task[t].s = s /\ greetings'[s] = greetings[s] + 1
  BY <1>0, <1>5 DEF Greet
<1>7. Others(t) /\ task'[t].at = "arm"
  BY <1>5, GoFields DEF Greet
<1>8. Taking(task[t], s)
  BY <1>5, <1>6 DEF Greet, Taking, RolesInv, RoleOK
<1> QED
  BY <1>5, <1>6, <1>7, <1>8 DEF Greet, Taking

LEMMA GreetedNext ==
  ASSUME IInv, KnownInv, RolesInv, GreetedInv, [XNext]_<<vars, forgotten, crossings>>
  PROVE  GreetedInv'
<1>1. CASE UNCHANGED <<vars, forgotten, crossings>>
  <2>1. UNCHANGED <<session, greetings, task, met, released>>
    BY <1>1 DEF vars, crossings
  <2> QED
    BY <2>1 DEF GreetedInv, Once, Times, InHand, Automatic
<1>2. CASE XNext
  <2> SUFFICES ASSUME NEW s \in Sessions, s \notin released' PROVE Once(s)'
    BY DEF GreetedInv
  <2> DEFINE H == InHand(s)
             G == InHand(s)'
  <2>0. /\ Next /\ greetings[s] \in Nat
        /\ H = {t \in Tasks : Taking(task[t], s)} /\ G = {t \in Tasks : Taking(task'[t], s)}
    BY <1>2, HandsMean DEF XNext, CNext, IInv, MapsOK
  <2>1. /\ s \notin released
        /\ session[s].operator # Nobody => session'[s].operator # Nobody
        /\ s \in met' <=> s \in met \/ Cardinality(G) > 1
    BY <1>2 DEF XNext
  <2>2. Once(s)
    BY <2>1 DEF GreetedInv
  <2>3. /\ IsFiniteSet(H) /\ Cardinality(H) \in Nat /\ IsFiniteSet(G) /\ Cardinality(G) \in Nat
        /\ Cardinality(G) <= Cardinality(Tasks) /\ Cardinality(Tasks) \in Nat
    BY <2>0, HandsAreFinite
  <2>4. /\ session[s].operator = Nobody => greetings[s] = 0
        /\ greetings[s] + Cardinality(H) <= Times(s)
        /\ \A t \in H : task[t].at \in {"notify", "greet"} => session[s].operator # Nobody
    BY <2>2 DEF Once
  <2>5. greetings'[s] # greetings[s] =>
          /\ session[s].operator # Nobody /\ UNCHANGED session
          /\ greetings'[s] = greetings[s] + 1
          /\ Cardinality(G) + 1 <= Cardinality(H)
    <3> SUFFICES ASSUME greetings'[s] # greetings[s]
                 PROVE  /\ session[s].operator # Nobody /\ UNCHANGED session
                        /\ greetings'[s] = greetings[s] + 1
                        /\ Cardinality(G) + 1 <= Cardinality(H)
      OBVIOUS
    <3>1. PICK t \in Tasks :
            /\ Taking(task[t], s) /\ task[t].at = "greet" /\ ~Taking(task'[t], s)
            /\ greetings'[s] = greetings[s] + 1 /\ Others(t) /\ UNCHANGED session
      BY <2>0, GreetsOnce
    <3>2. t \in H /\ t \notin G /\ session[s].operator # Nobody
      BY <2>0, <2>4, <3>1
    <3>3. G \subseteq H \ {t}
      BY <2>0, <3>1 DEF Others
    <3> HIDE DEF G, H
    <3>4. Cardinality(H \ {t}) = Cardinality(H) - 1 /\ IsFiniteSet(H \ {t})
      BY <2>3, <3>2, FS_RemoveElement
    <3>5. Cardinality(G) <= Cardinality(H \ {t})
      BY <3>3, <3>4, FS_Subset
    <3> QED
      BY <2>3, <3>1, <3>2, <3>4, <3>5
  <2>6. session'[s].operator = Nobody => greetings'[s] = 0
    BY <2>1, <2>4, <2>5
  <2>7. Cardinality(G) <= Cardinality(H) => Times(s) <= Times(s)'
    <3> HIDE DEF G, H
    <3> QED
      BY <2>0, <2>1, <2>3, <2>4 DEF Times
  <2>8. greetings'[s] + Cardinality(G) <= Times(s)'
    <3> HIDE DEF G, H
    <3>1. Times(s) \in Nat /\ Times(s)' \in Nat
      BY <2>3 DEF Times
    <3>2. CASE greetings'[s] = 0
      BY <2>1, <2>3, <3>2 DEF Times
    <3>3. CASE greetings'[s] # 0 /\ greetings'[s] = greetings[s]
      <4>1. session[s].operator # Nobody
        BY <2>4, <3>3
      <4>2. G \subseteq H
        BY <2>0, <4>1, TakesInHand
      <4>3. Cardinality(G) <= Cardinality(H)
        BY <2>3, <4>2, FS_Subset
      <4> QED
        BY <2>0, <2>3, <2>4, <2>7, <3>3, <3>1, <4>3
    <3>4. CASE greetings'[s] # greetings[s]
      BY <2>0, <2>3, <2>4, <2>5, <2>7, <3>4, <3>1
    <3> QED
      BY <3>2, <3>3, <3>4
  <2>9. ASSUME NEW t \in G, task'[t].at \in {"notify", "greet"}
        PROVE  session'[s].operator # Nobody
    <3>1. t \in Tasks /\ Taking(task'[t], s)
      BY <2>0
    <3>2. (Taking(task[t], s) /\ task[t].at \in {"notify", "greet"}) \/ session'[s].operator # Nobody
      BY <2>0, <2>9, <3>1, ComesToGreet
    <3> QED
      BY <2>0, <2>1, <2>4, <3>1, <3>2
  <2> QED
    BY <2>6, <2>8, <2>9 DEF Once
<1> QED
  BY <1>1, <1>2

LEMMA GreetedInit == XInit => GreetedInv
<1> SUFFICES ASSUME XInit, NEW s \in Sessions PROVE Once(s)
  BY DEF GreetedInv
<1>1. /\ greetings[s] = 0 /\ met = {}
      /\ \A t \in Tasks : task[t].at = "idle"
  BY DEF XInit, CInit, Init, Idle
<1>2. InHand(s) = {}
  BY <1>1 DEF InHand
<1>3. Cardinality(InHand(s)) = 0
  BY <1>2, FS_EmptySet
<1> QED
  BY <1>1, <1>2, <1>3 DEF Once, Times

(* However many starts and drains are in flight: a visitor whose operator  *)
(* was never taken away again is greeted once, and again only if two of    *)
(* them have had the session in hand at the same time.                     *)
THEOREM ChatGreetedTwiceByMeetingOnly == XSpec => []GreetedTwiceByMeetingOnly
<1>1. XInit => IInv /\ KnownInv /\ RolesInv /\ GreetedInv
  BY CrossingsRefine, InitHolds, KnownInit, LimitInit, GreetedInit
<1>2. IInv /\ KnownInv /\ RolesInv /\ GreetedInv /\ [XNext]_<<vars, forgotten, crossings>>
        => IInv' /\ KnownInv' /\ RolesInv' /\ GreetedInv'
  BY CrossingsRefine, NextPreserves, KnownNext, RolesNext, GreetedNext
<1>3. IInv /\ GreetedInv => GreetedTwiceByMeetingOnly
  <2> SUFFICES ASSUME IInv, GreetedInv, NEW s \in Sessions \ released
               PROVE  greetings[s] <= Times(s)
    BY DEF GreetedTwiceByMeetingOnly, Times
  <2>1. greetings[s] + Cardinality(InHand(s)) <= Times(s) /\ greetings[s] \in Nat
    BY DEF GreetedInv, Once, IInv, MapsOK
  <2>2. Cardinality(InHand(s)) \in Nat /\ Cardinality(Tasks) \in Nat
    BY HandsAreFinite DEF InHand
  <2> QED
    BY <2>1, <2>2 DEF Times
<1> QED
  BY <1>1, <1>2, <1>3, PTL DEF XSpec

-----------------------------------------------------------------------------
(* One handler at a time: no idle capacity                                 *)

Alone == \A t, u \in Tasks : t = u

(* A visitor waits while an eligible operator has room.                    *)
Spare(s, o) == Waiting(s) /\ o \in Eligible /\ Load(o) < limit

(* The handler that is about to see to it: a start, to its own session; a  *)
(* drain, to all who wait, on behalf of its operator.                      *)
Excused(k, s, o) ==
  \/ k.handler = "start" /\ k.at \in {"pick", "counts", "rotate", "stamp", "assign"} /\ k.s = s
  \/ /\ k.handler \in Draining /\ k.o = o
     /\ k.at \in {"drain", "count", "take", "stamp", "assign", "notify", "greet", "arm"}

(* What a handler has read is still so.                                    *)
LineOK(k) ==
  /\ k.at = "counts" => k.pool = Eligible
  /\ k.at = "rotate" => k.pool = {o \in Eligible : Load(o) < limit}
  /\ k.handler \in {"leave", "abandon", "vanish"} => k.o = Nobody
  /\ \A o \in Operators :
       k.o = o /\ k.handler \in Draining =>
         /\ k.at \in {"take", "stamp", "assign"} => k.n = Load(o)
         /\ k.at \in {"notify", "greet", "arm"} => k.n + 1 = Load(o)
  /\ \A s \in Sessions :
       k.s = s =>
         /\ k.at \in {"capacity", "stamp", "assign"} => session[s].operator = Nobody
         /\ k.at \in {"pick", "counts", "rotate"} => Waiting(s)
         /\ k.at \in {"stamp", "assign"} /\ k.handler \in Draining \cup {"start"} => Oldest(s)
         /\ k.at = "close" /\ k.o # Nobody => session[s].operator = k.o

FairInv ==
  /\ \A s \in Sessions, o \in Operators : Spare(s, o) => \E t \in Tasks : Excused(task[t], s, o)
  /\ \A t \in Tasks : LineOK(task[t])

(* A step that leaves rows, preferences and limit alone.                   *)
LEMMA FairQuiet ==
  ASSUME Alone, FairInv, NEW t \in Tasks, UNCHANGED <<session, preference, limit>>,
         NEW k, k = task'[t], LineOK(k),
         \A s \in Sessions, o \in Operators :
           Excused(task[t], s, o) => Excused(k, s, o) \/ ~Spare(s, o)
  PROVE  FairInv'
<1>1. /\ \A o : Load(o)' = Load(o)
      /\ Eligible' = Eligible
      /\ \A s : Waiting(s)' <=> Waiting(s)
      /\ \A s : Oldest(s)' <=> Oldest(s)
  BY DEF Load, Eligible, Waiting, Oldest
<1>2. \A s, o : Spare(s, o)' <=> Spare(s, o)
  BY <1>1 DEF Spare
<1>3. \A u \in Tasks : u = t
  BY DEF Alone
<1>4. LineOK(task[t])'
  BY <1>1 DEF LineOK
<1>5. ASSUME NEW s \in Sessions, NEW o \in Operators, Spare(s, o)'
      PROVE  Excused(task'[t], s, o)
  BY <1>2, <1>3, <1>5 DEF FairInv
<1> QED
  BY <1>3, <1>4, <1>5 DEF FairInv

LEMMA IdleLine ==
  /\ LineOK(Idle)
  /\ \A s, o : ~Excused(Idle, s, o)
BY DEF LineOK, Excused, Idle, Draining

(* Whatever is at an ordinary place relies on nothing.                     *)
LEMMA PlainLine ==
  ASSUME NEW k, k.at \in {"idle", "read", "react", "rearm", "recheck", "park", "drain", "count",
                          "sync", "close"},
         k.at = "close" \/ k.handler \in {"leave", "abandon", "vanish"} => k.o = Nobody
  PROVE  LineOK(k)
BY DEF LineOK

LEMMA FairReads ==
  ASSUME Alone, IInv, RolesInv, FairInv, NEW t \in Tasks,
         \/ ReadSession(t) \/ MessageReacts(t) \/ FormReacts(t) \/ RejoinReacts(t)
         \/ RejoinRearms(t) \/ CloseAfterRead(t) \/ NothingToClose(t) \/ Recheck(t) \/ Park(t)
         \/ Sync(t)
  PROVE  FairInv'
<1> PICK k : k = task'[t]
  OBVIOUS
<1>0. RoleOK(task[t]) /\ LineOK(task[t]) /\ task[t] \in TaskType /\ task \in [Tasks -> TaskType]
  BY InFlight DEF RolesInv, IInv, FairInv
<1>1. UNCHANGED <<session, preference, limit>>
  BY DEF ReadSession, MessageReacts, FormReacts, RejoinReacts, RejoinRearms, CloseAfterRead,
         NothingToClose, Recheck, Park, Sync
<1>2. \A s, o : ~Excused(task[t], s, o)
  <2>1. task[t].at \in {"read", "react", "rearm", "recheck", "park", "sync"}
    BY DEF ReadSession, MessageReacts, FormReacts, RejoinReacts, RejoinRearms, CloseAfterRead,
           GoesOnToClose, Reacts, NothingToClose, Recheck, Park, Sync
  <2> QED
    BY <2>1 DEF Excused
<1>3. LineOK(k)
  <2>1. CASE ReadSession(t) \/ Recheck(t)
    <3>1. k.at \in {"react", "park"} /\ k.handler = task[t].handler /\ k.o = task[t].o
      <4>1. CASE ReadSession(t)
        BY <4>1, ReadFields DEF ReadSession
      <4>2. CASE Recheck(t)
        BY <4>2, ReadFields DEF Recheck
      <4> QED
        BY <2>1, <4>1, <4>2
    <3>2. k.handler \in {"leave", "abandon", "vanish"} => k.o = Nobody
      BY <1>0, <3>1 DEF LineOK
    <3> QED
      BY <3>1, <3>2, PlainLine
  <2>2. CASE RejoinReacts(t)
    <3>1. k.at = "rearm" /\ k.handler = "rejoin"
      BY <1>0, <2>2 DEF RejoinReacts, Reacts, TaskType
    <3> QED
      BY <3>1, PlainLine
  <2>3. CASE CloseAfterRead(t)
    <3>1. k.at = "close" /\ k.o = task[t].o /\ task[t].handler \in {"leave", "abandon", "vanish"}
      BY <2>3, GoFields DEF CloseAfterRead, GoesOnToClose, Reacts
    <3>2. k.o = Nobody
      BY <1>0, <3>1 DEF LineOK
    <3> QED
      BY <3>1, <3>2, PlainLine
  <2>4. CASE \/ MessageReacts(t) \/ FormReacts(t) \/ RejoinRearms(t) \/ NothingToClose(t)
             \/ Park(t) \/ Sync(t)
    <3>1. k = Idle
      BY <2>4, EndFields DEF MessageReacts, FormReacts, RejoinRearms, NothingToClose, Park, Sync
    <3> QED
      BY <3>1, IdleLine
  <2> QED
    BY <2>1, <2>2, <2>3, <2>4
<1> QED
  BY <1>1, <1>2, <1>3, FairQuiet

LEMMA FairClaims ==
  ASSUME Alone, IInv, RolesInv, FairInv, NEW t \in Tasks,
         ClaimReads(t) \/ ReplyReads(t) \/ ReplyCounts(t) \/ Stamp(t)
  PROVE  FairInv'
<1> PICK k : k = task'[t]
  OBVIOUS
<1>0. RoleOK(task[t]) /\ LineOK(task[t]) /\ task[t] \in TaskType /\ task \in [Tasks -> TaskType]
  BY InFlight DEF RolesInv, IInv, FairInv
<1>1. UNCHANGED <<session, preference, limit>>
  BY DEF ClaimReads, ReplyReads, ReplyCounts, Stamp
<1>2. CASE ClaimReads(t) \/ ReplyReads(t) \/ ReplyCounts(t)
  <2>0. task[t].at \in {"read", "capacity"} /\ task[t].handler \in {"claim", "reply"}
    BY <1>0, <1>2 DEF ClaimReads, ReplyReads, ReplyCounts, RoleOK
  <2>1. \A s, o : ~Excused(task[t], s, o)
    BY <2>0 DEF Excused, Draining
  <2>2. LineOK(k)
    <3>1. \/ k = Idle
          \/ /\ k.at \in {"stamp", "capacity", "arm"} /\ k.s = task[t].s
             /\ k.handler = task[t].handler
             /\ k.at \in {"stamp", "capacity"}
                  => task[t].at = "capacity" \/ session[task[t].s].operator = Nobody
      BY <1>2, GoFields, EndFields DEF ClaimReads, ReplyReads, ReplyCounts, StillQueued
    <3>2. CASE k = Idle
      BY <3>2, IdleLine
    <3>3. CASE k # Idle
      BY <1>0, <2>0, <3>1, <3>3 DEF LineOK, Draining
    <3> QED
      BY <3>2, <3>3
  <2> QED
    BY <1>1, <2>1, <2>2, FairQuiet
<1>3. CASE Stamp(t)
  <2>1. /\ task[t].at = "stamp" /\ k.at = "assign" /\ k.handler = task[t].handler /\ k.s = task[t].s
        /\ k.o = task[t].o /\ k.n = task[t].n
    BY <1>3, ReadFields DEF Stamp
  <2>2. LineOK(k)
    BY <1>0, <2>1 DEF LineOK
  <2>3. \A s, o : Excused(task[t], s, o) => Excused(k, s, o)
    BY <2>1 DEF Excused
  <2> QED
    BY <1>1, <2>2, <2>3, FairQuiet
<1> QED
  BY <1>2, <1>3

LEMMA FairGreets ==
  ASSUME Alone, IInv, RolesInv, FairInv, NEW t \in Tasks, Notify(t) \/ Greet(t) \/ Arm(t)
  PROVE  FairInv'
<1> PICK k : k = task'[t]
  OBVIOUS
<1>0. RoleOK(task[t]) /\ LineOK(task[t]) /\ task[t] \in TaskType /\ task \in [Tasks -> TaskType]
  BY InFlight DEF RolesInv, IInv, FairInv
<1>1. UNCHANGED <<session, preference, limit>>
  BY DEF Notify, Greet, Arm
<1>2. CASE Notify(t) \/ Greet(t)
  <2>1. /\ task[t].at \in {"notify", "greet"} /\ k.at \in {"greet", "arm"}
        /\ k.handler = task[t].handler /\ k.o = task[t].o /\ k.n = task[t].n
    BY <1>2, GoFields DEF Notify, Greet
  <2>2. k.handler \in Draining \cup {"start"}
    BY <1>0, <2>1 DEF RoleOK
  <2>3. LineOK(k)
    BY <1>0, <2>1, <2>2 DEF LineOK, Draining
  <2>4. \A s, o : Excused(task[t], s, o) => Excused(k, s, o)
    BY <2>1 DEF Excused, Draining
  <2> QED
    BY <1>1, <2>3, <2>4, FairQuiet
<1>3. CASE Arm(t) /\ task[t].handler \in Draining
  <2>1. task' = [task EXCEPT ![t].at = "take", ![t].s = 0, ![t].n = @ + 1, ![t].seen = NoSession]
    BY <1>3 DEF Arm, Draining
  <2>2. /\ task[t].at = "arm" /\ k.at = "take" /\ k.handler = task[t].handler
        /\ k.o = task[t].o /\ k.n = task[t].n + 1
    BY <1>0, <1>3, <2>1 DEF Arm, TaskType
  <2>3. LineOK(k)
    BY <1>0, <1>3, <2>2 DEF LineOK, Draining
  <2>4. \A s, o : Excused(task[t], s, o) => Excused(k, s, o)
    BY <1>3, <2>2 DEF Excused, Draining
  <2> QED
    BY <1>1, <2>3, <2>4, FairQuiet
<1>4. CASE Arm(t) /\ task[t].handler \notin Draining
  <2>1. \A s, o : ~Excused(task[t], s, o)
    BY <1>4 DEF Excused, Arm
  <2>2. k = Idle \/ (k.at = "recheck" /\ k.handler = "start")
    BY <1>4, GoFields, EndFields DEF Arm
  <2>3. LineOK(k)
    <3>1. CASE k = Idle
      BY <3>1, IdleLine
    <3>2. CASE k.at = "recheck" /\ k.handler = "start"
      BY <3>2, PlainLine
    <3> QED
      BY <2>2, <3>1, <3>2
  <2> QED
    BY <1>1, <2>1, <2>3, FairQuiet
<1> QED
  BY <1>2, <1>3, <1>4

(* A start that finds nobody leaves nobody idle: its own session waits     *)
(* because no eligible operator has room; one that finds somebody has the  *)
(* only session that waits.                                                *)
LEMMA FairPicks ==
  ASSUME Alone, IInv, RolesInv, FairInv, NEW t \in Tasks,
         Pick(t) \/ PickCounts(t) \/ PickRotates(t)
  PROVE  FairInv'
<1> PICK k : k = task'[t]
  OBVIOUS
<1>0. /\ RoleOK(task[t]) /\ LineOK(task[t]) /\ task[t] \in TaskType /\ task \in [Tasks -> TaskType]
      /\ task[t].s \in Sessions /\ task[t].handler = "start"
      /\ \A u \in Tasks : u = t
  BY InFlight DEF RolesInv, IInv, FairInv, Pick, PickCounts, PickRotates, OfSession, RoleOK, Alone
<1>1. UNCHANGED <<session, preference, limit>>
  BY DEF Pick, PickCounts, PickRotates
<1>2. Waiting(task[t].s)
  BY <1>0 DEF LineOK, Pick, PickCounts, PickRotates
<1>3. CASE Pick(t)
  <2>1. /\ k.at = (IF Eligible = {} THEN "recheck" ELSE "counts") /\ k.handler = "start"
        /\ k.s = task[t].s /\ k.pool = Eligible
    BY <1>0, <1>3 DEF Pick, TaskType
  <2>2. LineOK(k)
    BY <1>2, <2>1 DEF LineOK, Draining
  <2>3. \A s, o : Excused(task[t], s, o) => Excused(k, s, o) \/ ~Spare(s, o)
    BY <1>0, <2>1 DEF Excused, Spare, Draining
  <2> QED
    BY <1>1, <2>2, <2>3, FairQuiet
<1>4. CASE PickCounts(t)
  <2>1. /\ k.at = "rotate" /\ k.handler = "start" /\ k.s = task[t].s
        /\ k.pool = {o \in Eligible : Load(o) < limit}
    BY <1>0, <1>4 DEF PickCounts, TaskType, LineOK
  <2>2. LineOK(k)
    BY <1>2, <2>1 DEF LineOK, Draining
  <2>3. \A s, o : Excused(task[t], s, o) => Excused(k, s, o)
    BY <1>0, <2>1 DEF Excused, Draining
  <2> QED
    BY <1>1, <2>2, <2>3, FairQuiet
<1>5. ASSUME NEW o \in task[t].pool, PickRotates(t),
             task' = [task EXCEPT ![t].at = "stamp", ![t].o = o, ![t].pool = {}]
      PROVE  FairInv'
  <2>1. /\ task[t].at = "rotate" /\ k.at = "stamp" /\ k.handler = "start" /\ k.s = task[t].s
    BY <1>0, <1>5 DEF PickRotates, TaskType
  <2>2. o \in Eligible /\ Load(o) < limit /\ o \in Operators
    BY <1>0, <1>5, <2>1 DEF LineOK, Eligible
  <2>3. Oldest(task[t].s)
    <3> SUFFICES ASSUME NEW r \in Sessions, Waiting(r) PROVE r = task[t].s
      BY <1>0, <1>2, BoundsAreCounts DEF Oldest, Sessions
    <3>1. Spare(r, o)
      BY <2>2 DEF Spare
    <3>2. Excused(task[t], r, o)
      BY <1>0, <2>2, <3>1 DEF FairInv
    <3> QED
      BY <1>0, <3>2 DEF Excused, Draining
  <2>4. session[task[t].s].operator = Nobody
    BY <1>2 DEF Waiting
  <2>5. LineOK(k)
    BY <2>1, <2>3, <2>4 DEF LineOK, Draining
  <2>6. \A s, p : Excused(task[t], s, p) => Excused(k, s, p)
    BY <1>0, <2>1 DEF Excused, Draining
  <2> QED
    BY <1>1, <2>5, <2>6, FairQuiet
<1>6. ASSUME task[t].pool = {}, PickRotates(t),
             task' = [task EXCEPT ![t].at = "recheck", ![t].pool = {}]
      PROVE  FairInv'
  <2>1. task[t].at = "rotate" /\ k.at = "recheck" /\ k.handler = "start"
    BY <1>0, <1>6 DEF PickRotates, TaskType
  <2>2. \A s, o : ~Spare(s, o)
    BY <1>0, <1>6, <2>1 DEF LineOK, Spare
  <2>3. LineOK(k)
    BY <2>1, PlainLine
  <2> QED
    BY <1>1, <2>2, <2>3, FairQuiet
<1>7. CASE PickRotates(t)
  BY <1>0, <1>5, <1>6, <1>7 DEF PickRotates
<1> QED
  BY <1>3, <1>4, <1>7

LEMMA DrainEndsFields ==
  ASSUME IInv, NEW t \in Tasks, DrainEnds(t)
  PROVE  task'[t].at \in {"idle", "sync"} /\ task'[t].handler \in {"none", task[t].handler}
BY BeginFields, EndFields DEF DrainEnds, Idle

(* A drain ends when its operator is full or not eligible, or nobody       *)
(* waits.                                                                  *)
LEMMA FairDrains ==
  ASSUME Alone, IInv, RolesInv, FairInv, NEW t \in Tasks,
         Drain(t) \/ DrainCounts(t) \/ DrainTakes(t)
  PROVE  FairInv'
<1> PICK k : k = task'[t]
  OBVIOUS
<1>0. /\ RoleOK(task[t]) /\ LineOK(task[t]) /\ task[t] \in TaskType /\ task \in [Tasks -> TaskType]
      /\ task[t].o \in Operators /\ task[t].handler \in Draining
  BY InFlight DEF RolesInv, IInv, FairInv, Drain, DrainCounts, DrainTakes, OfOperator, RoleOK
<1>1. UNCHANGED <<session, preference, limit>>
  BY DEF Drain, DrainCounts, DrainTakes
<1>2. \A s, o : Excused(task[t], s, o) => o = task[t].o
  BY <1>0 DEF Excused, Draining
<1>3. ASSUME DrainEnds(t), \A s \in Sessions : ~Spare(s, task[t].o) PROVE FairInv'
  <2>1. LineOK(k)
    <3>1. k.at \in {"idle", "sync"} /\ k.handler \notin {"leave", "abandon", "vanish"}
      BY <1>0, <1>3, DrainEndsFields DEF Draining
    <3> QED
      BY <3>1, PlainLine
  <2>2. \A s \in Sessions, o \in Operators : Excused(task[t], s, o) => ~Spare(s, o)
    BY <1>2, <1>3
  <2> QED
    BY <1>1, <2>1, <2>2, FairQuiet
<1>4. CASE Drain(t)
  <2>1. CASE preference[task[t].o] \in {"away", "busy"} \/ task[t].o \in Supervisors
    <3>1. \A s \in Sessions : ~Spare(s, task[t].o)
      BY <2>1 DEF Spare, Eligible
    <3>2. DrainEnds(t)
      BY <1>4, <2>1 DEF Drain
    <3> QED
      BY <1>3, <3>1, <3>2
  <2>2. CASE Go(t, "count")
    <3>1. k.at = "count" /\ k.handler = task[t].handler /\ k.o = task[t].o
      BY <2>2, GoFields
    <3>2. LineOK(k)
      BY <1>0, <3>1, PlainLine DEF Draining
    <3>3. \A s, o : Excused(task[t], s, o) => Excused(k, s, o)
      BY <1>0, <3>1 DEF Excused, Draining
    <3> QED
      BY <1>1, <3>2, <3>3, FairQuiet
  <2> QED
    BY <1>4, <2>1, <2>2 DEF Drain
<1>5. CASE DrainCounts(t)
  <2>1. k.at = "take" /\ k.handler = task[t].handler /\ k.o = task[t].o /\ k.n = Load(task[t].o)
    BY <1>0, <1>5 DEF DrainCounts, TaskType
  <2>2. LineOK(k)
    BY <1>0, <2>1 DEF LineOK, Draining
  <2>3. \A s, o : Excused(task[t], s, o) => Excused(k, s, o)
    BY <1>0, <2>1 DEF Excused, Draining
  <2> QED
    BY <1>1, <2>2, <2>3, FairQuiet
<1>6. CASE DrainTakes(t)
  <2>0. task[t].at = "take" /\ task[t].n = Load(task[t].o)
    BY <1>0, <1>6 DEF DrainTakes, LineOK
  <2>1. ASSUME NEW s \in Sessions, Oldest(s), task' = [task EXCEPT ![t].at = "stamp", ![t].s = s]
        PROVE  FairInv'
    <3>1. /\ k.at = "stamp" /\ k.handler = task[t].handler /\ k.o = task[t].o
          /\ k.n = task[t].n /\ k.s = s
      BY <1>0, <2>1 DEF TaskType
    <3>2. LineOK(k)
      BY <1>0, <2>0, <2>1, <3>1 DEF LineOK, Draining, Oldest, Waiting
    <3>3. \A r, o : Excused(task[t], r, o) => Excused(k, r, o)
      BY <1>0, <3>1 DEF Excused, Draining
    <3> QED
      BY <1>1, <3>2, <3>3, FairQuiet
  <2>2. ASSUME DrainEnds(t), task[t].n >= limit \/ \A s \in Sessions : ~Waiting(s)
        PROVE  FairInv'
    <3>1. limit \in Nat /\ Load(task[t].o) \in Nat
      BY HeldIsLoad DEF IInv, MapsOK
    <3>2. \A s \in Sessions : ~Spare(s, task[t].o)
      BY <2>0, <2>2, <3>1 DEF Spare
    <3> QED
      BY <1>3, <2>2, <3>2
  <2> QED
    BY <1>6, <2>1, <2>2 DEF DrainTakes
<1> QED
  BY <1>4, <1>5, <1>6

(* An assignment takes its session off the line and one place of its       *)
(* operator.                                                               *)
LEMMA AssignLoads ==
  ASSUME IInv, NEW s \in Sessions, NEW o \in Operators, session[s].operator = Nobody,
         session'[s].operator = o, session'[s].status = session[s].status,
         \A r \in Sessions \ {s} : session'[r] = session[r]
  PROVE  /\ \A r \in Sessions : Waiting(r)' <=> Waiting(r) /\ r # s
         /\ \A p \in Operators : Load(p) <= Load(p)'
         /\ session[s].status = "open" => Load(o)' = Load(o) + 1
<1>1. o # Nobody
  BY SupervisorsAreOperators
<1>2. \A p \in Operators : Held(p) \subseteq Held(p)'
  BY SupervisorsAreOperators DEF Held
<1>3. \A p : Load(p) = Cardinality(Held(p)) /\ IsFiniteSet(Held(p)) /\ Load(p) \in Nat
  BY HeldIsLoad
<1>4. ASSUME NEW p
      PROVE  Load(p)' = Cardinality(Held(p)') /\ IsFiniteSet(Held(p)') /\ Load(p)' \in Nat
  <2>1. Load(p)' = Cardinality(Held(p)')
    BY DEF Load, Held
  <2>2. Held(p)' \subseteq Sessions
    BY DEF Held
  <2>3. IsFiniteSet(Held(p)')
    BY <2>2, HeldIsLoad, FS_Subset
  <2> QED
    BY <2>1, <2>3, FS_CardinalityType
<1>5. ASSUME NEW p \in Operators PROVE Load(p) <= Load(p)'
  BY <1>2, <1>3, <1>4, FS_Subset
<1>6. ASSUME session[s].status = "open" PROVE Load(o)' = Load(o) + 1
  <2>1. s \notin Held(o)
    BY <1>1 DEF Held
  <2>2. Held(o)' = Held(o) \cup {s}
    BY <1>1, <1>6 DEF Held
  <2> QED
    BY <1>3, <1>4, <2>1, <2>2, FS_AddElement
<1>7. \A r \in Sessions : Waiting(r)' <=> Waiting(r) /\ r # s
  BY <1>1 DEF Waiting
<1> QED
  BY <1>5, <1>6, <1>7

LEMMA FairAssigns ==
  ASSUME Alone, IInv, RolesInv, FairInv, "restAssign" \notin Handlers, NEW t \in Tasks, Assign(t)
  PROVE  FairInv'
<1> PICK s \in Sessions : s = task[t].s
  BY InFlight DEF Assign, OfSession
<1> PICK o : o = task[t].o
  OBVIOUS
<1>0. /\ RoleOK(task[t]) /\ LineOK(task[t]) /\ task[t] \in TaskType /\ task[t].at = "assign"
      /\ session \in [Sessions -> SessionType] /\ limit \in Nat
      /\ \A u \in Tasks : u = t
  BY InFlight, Facts DEF RolesInv, IInv, MapsOK, FairInv, Assign, Alone
<1>1. o \in Operators
  <2>1. task[t].handler \in Draining \cup {"start", "reply", "claim"}
    BY <1>0 DEF RoleOK
  <2>2. CASE task[t].handler \in Draining
    BY <2>2, InFlight
  <2> QED
    BY <1>0, <2>1, <2>2 DEF RoleOK
<1>2. /\ session[s].operator = Nobody
      /\ task[t].handler \in Draining \cup {"start"} => Oldest(s)
      /\ task[t].handler \in Draining => task[t].n = Load(o)
  BY <1>0, <1>1 DEF LineOK
<1>3. /\ session'[s].operator = o /\ session'[s].status = session[s].status
      /\ \A r \in Sessions \ {s} : session'[r] = session[r]
  BY <1>0 DEF Assign, Assigned, SessionType
<1>4. /\ \A r \in Sessions : Waiting(r)' <=> Waiting(r) /\ r # s
      /\ \A p \in Operators : Load(p) <= Load(p)'
      /\ session[s].status = "open" => Load(o)' = Load(o) + 1
  BY <1>1, <1>2, <1>3, AssignLoads
<1>5. Eligible' = Eligible /\ UNCHANGED limit
  BY DEF Eligible, Assign
<1>6. \/ /\ task[t].handler \in Draining \cup {"start"} /\ task'[t].at = "notify"
         /\ task'[t].handler = task[t].handler /\ task'[t].o = o /\ task'[t].n = task[t].n
      \/ task[t].handler \notin Draining \cup {"start"} /\ task'[t].at = "arm"
         /\ task'[t].handler = "reply"
      \/ task[t].handler \notin Draining \cup {"start"} /\ task'[t] = Idle
  BY GoFields, EndFields DEF Assign, Automatic, Draining
<1>7. ASSUME NEW r \in Sessions, NEW p \in Operators, Spare(r, p)'
      PROVE  Excused(task'[t], r, p)
  <2>1. Load(p) \in Nat /\ Load(p)' \in Nat
    <3>1. Load(p)' = Cardinality(Held(p)') /\ Held(p)' \subseteq Sessions
      BY DEF Load, Held
    <3>2. Load(p)' \in Nat
      BY <3>1, HeldIsLoad, FS_Subset, FS_CardinalityType
    <3> QED
      BY <3>2, HeldIsLoad
  <2>2. Spare(r, p) /\ r # s
    BY <1>0, <1>4, <1>5, <1>7, <2>1 DEF Spare
  <2>3. Excused(task[t], r, p)
    BY <1>0, <2>2 DEF FairInv
  <2> QED
    BY <1>6, <2>2, <2>3 DEF Excused
<1>8. LineOK(task[t])'
  <2>1. task'[t].at \in {"notify", "arm", "idle"}
    BY <1>6 DEF Idle
  <2>2. task'[t].handler \notin {"leave", "abandon", "vanish"}
    BY <1>6 DEF Idle, Draining
  <2>3. ASSUME task'[t].handler \in Draining, task'[t].at \in {"notify", "greet", "arm"},
               NEW p \in Operators, task'[t].o = p
        PROVE  task'[t].n + 1 = Load(p)'
    <3>1. /\ p = o /\ task'[t].n = task[t].n /\ task[t].handler \in Draining
      BY <1>6, <2>3 DEF Idle, Draining
    <3>2. session[s].status = "open"
      BY <1>2, <3>1 DEF Oldest, Waiting
    <3> QED
      BY <1>2, <1>4, <3>1, <3>2
  <2> QED
    BY <2>1, <2>2, <2>3 DEF LineOK
<1> QED
  BY <1>0, <1>7, <1>8 DEF FairInv

(* A close makes room for the operator whose chat it was, and the drain    *)
(* that follows is his.                                                    *)
LEMMA FairCloses ==
  ASSUME Alone, IInv, RolesInv, FairInv, NEW t \in Tasks, Close(t)
  PROVE  FairInv'
<1> PICK s \in Sessions : s = task[t].s
  BY InFlight DEF Close, OfSession
<1> PICK q : q = session[s].operator
  OBVIOUS
<1>0. /\ LineOK(task[t]) /\ task[t].at = "close" /\ session \in [Sessions -> SessionType]
      /\ \A u \in Tasks : u = t
  BY Facts DEF FairInv, Close, Alone
<1>1. IF q = Nobody THEN task'[t] = Idle
      ELSE task'[t].at = "drain" /\ task'[t].handler = "drain" /\ task'[t].o = q
  <2>1. task[t].o # Nobody => task[t].o = q
    BY <1>0 DEF LineOK
  <2>2. IF q = Nobody THEN End(t) ELSE Begin(t, "drain", "drain", 0, q)
    BY <2>1 DEF Close
  <2> QED
    BY <2>2, EndFields, BeginFields
<1>2. /\ session'[s].status = "closed" /\ UNCHANGED limit /\ Eligible' = Eligible
      /\ \A r \in Sessions \ {s} : session'[r] = session[r]
  BY <1>0 DEF Close, SessionType, Eligible
<1>3. ASSUME NEW r \in Sessions, NEW p \in Operators, Spare(r, p)'
      PROVE  Excused(task'[t], r, p)
  <2>1. ~Spare(r, p)
    BY <1>0 DEF FairInv, Excused
  <2>2. p = q
    <3> SUFFICES ASSUME p # q PROVE FALSE
      OBVIOUS
    <3>1. Held(p)' = Held(p)
      BY <1>2 DEF Held
    <3>2. Load(p)' = Load(p)
      BY <3>1 DEF Load, Held
    <3>3. Waiting(r)
      BY <1>2, <1>3 DEF Spare, Waiting
    <3> QED
      BY <1>2, <1>3, <2>1, <3>2, <3>3 DEF Spare
  <2>3. q # Nobody
    BY <2>2, SupervisorsAreOperators
  <2> QED
    BY <1>1, <2>2, <2>3 DEF Excused, Draining
<1>4. LineOK(task[t])'
  <2>1. task'[t].at \in {"idle", "drain"} /\ task'[t].handler \in {"none", "drain"}
    BY <1>1 DEF Idle
  <2> QED
    BY <2>1 DEF LineOK
<1> QED
  BY <1>0, <1>3, <1>4 DEF FairInv

(* With nobody at work, nobody waits in vain.                              *)
LEMMA IdleIsFair ==
  ASSUME Alone, FairInv, NEW t \in Tasks, task[t].at = "idle"
  PROVE  \A s \in Sessions, o \in Operators : ~Spare(s, o)
BY DEF Alone, FairInv, Excused

LEMMA FairBegins ==
  ASSUME Alone, IInv, FairInv, NEW t \in Tasks, task[t].at = "idle", NEW s \in Sessions,
         UNCHANGED <<session, preference, limit>>, NEW handler, NEW at, NEW o,
         Begin(t, handler, at, s, o), at \in {"read", "close"},
         at = "close" \/ handler \in {"leave", "abandon", "vanish"} => o = Nobody
  PROVE  FairInv'
<1> PICK k : k = task'[t]
  OBVIOUS
<1>1. k.at = at /\ k.handler = handler /\ k.o = o
  BY BeginFields
<1>2. LineOK(k)
  BY <1>1, PlainLine
<1> QED
  BY <1>2, IdleIsFair, FairQuiet

LEMMA FairStarts ==
  ASSUME Alone, IInv, KnownInv, FairInv, NEW t \in Tasks, VisitorStart(t)
  PROVE  FairInv'
<1> PICK s \in Sessions : /\ session[s].status = "none"
                          /\ session' = [session EXCEPT ![s].status = "open"]
                          /\ Begin(t, "start", "pick", s, Nobody)
  BY DEF VisitorStart
<1>0. /\ session \in [Sessions -> SessionType] /\ task[t].at = "idle"
      /\ UNCHANGED <<preference, limit>> /\ \A u \in Tasks : u = t
  BY Facts DEF VisitorStart, Receives, Alone
<1>1. /\ session'[s].status = "open" /\ session'[s].operator = Nobody
      /\ \A r \in Sessions \ {s} : session'[r] = session[r]
  BY <1>0 DEF KnownInv, RowsKnown, Known, SessionType
<1>2. task'[t].at = "pick" /\ task'[t].handler = "start" /\ task'[t].s = s
  BY BeginFields
<1>3. ASSUME NEW r \in Sessions, NEW p \in Operators, Spare(r, p)'
      PROVE  Excused(task'[t], r, p)
  <2>1. ~Spare(r, p)
    BY <1>0, IdleIsFair
  <2>2. Held(p)' = Held(p)
    BY <1>1, SupervisorsAreOperators DEF Held, KnownInv
  <2>3. Load(p)' = Load(p) /\ Eligible' = Eligible
    BY <1>0, <2>2 DEF Load, Held, Eligible
  <2>4. r = s
    BY <1>0, <1>1, <1>3, <2>1, <2>3 DEF Spare, Waiting
  <2> QED
    BY <1>2, <2>4 DEF Excused
<1>4. LineOK(task[t])'
  BY <1>1, <1>2 DEF LineOK, Waiting, Draining
<1> QED
  BY <1>0, <1>3, <1>4 DEF FairInv

(* Whoever becomes eligible has his queue drained.                         *)
LEMMA FairPresence ==
  ASSUME Alone, IInv, FairInv, NEW t \in Tasks, NEW o \in Operators,
         OperatorJoin(t, o) \/ SetStatus(t, o) \/ OperatorOffline(t, o)
  PROVE  FairInv'
<1>0. /\ task[t].at = "idle" /\ UNCHANGED <<session, limit>> /\ \A u \in Tasks : u = t
      /\ preference \in [Operators -> {"online", "away", "busy", "offline"}]
  BY DEF OperatorJoin, SetStatus, OperatorOffline, Receives, Alone, IInv, MapsOK
<1>1. /\ \A p \in Operators \ {o} : preference'[p] = preference[p]
      /\ \/ task'[t].at = "drain" /\ task'[t].handler \in Draining /\ task'[t].o = o
         \/ /\ task'[t].at = "sync" /\ task'[t].handler \in {"status", "offline"}
            /\ preference'[o] # "online"
  <2>1. CASE OperatorJoin(t, o)
    <3>1. task'[t].at = "drain" /\ task'[t].handler = "join" /\ task'[t].o = o
      BY <2>1, BeginFields DEF OperatorJoin
    <3> QED
      BY <1>0, <2>1, <3>1 DEF OperatorJoin, Draining
  <2>2. CASE SetStatus(t, o)
    <3>1. PICK wish \in {"online", "away", "busy"} :
            /\ preference' = [preference EXCEPT ![o] = wish]
            /\ Begin(t, "status", IF wish = "online" THEN "drain" ELSE "sync", 0, o)
      BY <2>2 DEF SetStatus
    <3>2. /\ task'[t].at = (IF wish = "online" THEN "drain" ELSE "sync")
          /\ task'[t].handler = "status" /\ task'[t].o = o
      BY <3>1, BeginFields
    <3> QED
      BY <1>0, <3>1, <3>2 DEF Draining
  <2>3. CASE OperatorOffline(t, o)
    <3>1. task'[t].at = "sync" /\ task'[t].handler = "offline"
      BY <2>3, BeginFields DEF OperatorOffline
    <3> QED
      BY <1>0, <2>3, <3>1 DEF OperatorOffline
  <2> QED
    BY <2>1, <2>2, <2>3
<1>2. ASSUME NEW r \in Sessions, NEW p \in Operators, Spare(r, p)'
      PROVE  Excused(task'[t], r, p)
  <2>1. ~Spare(r, p)
    BY <1>0, IdleIsFair
  <2>2. Load(p)' = Load(p) /\ (Waiting(r)' <=> Waiting(r))
    BY <1>0 DEF Load, Waiting
  <2>3. p = o /\ preference'[o] = "online"
    BY <1>0, <1>1, <1>2, <2>1, <2>2 DEF Spare, Eligible
  <2> QED
    BY <1>1, <2>3 DEF Excused
<1>3. LineOK(task[t])'
  <2>1. task'[t].at \in {"drain", "sync"} /\ task'[t].handler \notin {"leave", "abandon", "vanish"}
    BY <1>1 DEF Draining
  <2> QED
    BY <2>1 DEF LineOK
<1> QED
  BY <1>0, <1>2, <1>3 DEF FairInv

LEMMA FairOwnCloses ==
  ASSUME Alone, IInv, FairInv, NEW t \in Tasks, NEW s \in Sessions, NEW o \in Operators,
         "closeAny" \notin Handlers, OperatorCloseSession(t, s, o)
  PROVE  FairInv'
<1> PICK k : k = task'[t]
  OBVIOUS
<1>1. /\ task[t].at = "idle" /\ session[s].operator = o
      /\ UNCHANGED <<session, preference, limit>>
  BY DEF OperatorCloseSession, Receives
<1>2. k.at = "close" /\ k.handler = "operatorClose" /\ k.s = s /\ k.o = o
  BY BeginFields DEF OperatorCloseSession
<1>3. LineOK(k)
  BY <1>1, <1>2 DEF LineOK
<1> QED
  BY <1>1, <1>3, IdleIsFair, FairQuiet

(* What takes room from or gives room to an operator without the queue     *)
(* being drained for him.                                                  *)
Unfair == {"config", "closeAny", "restClose", "restReopen", "restAssign", "reopen", "fail"}

LEMMA FairRequests ==
  ASSUME Alone, Handlers \cap Unfair = {}, IInv, KnownInv, FairInv, NEW t \in Tasks, Requests(t)
  PROVE  FairInv'
<1>1. ASSUME NEW s \in Sessions,
             \/ VisitorMessage(t, s) \/ VisitorFormActivity(t, s) \/ VisitorRejoin(t, s)
             \/ VisitorCloseSession(t, s) \/ VisitorLeaveContactInfo(t, s)
             \/ \E o \in Operators : OperatorJoinSession(t, s, o) \/ OperatorMessage(t, s, o)
      PROVE  FairInv'
  <2>1. /\ task[t].at = "idle" /\ UNCHANGED <<session, preference, limit>>
        /\ \E handler \in {"message", "form", "rejoin", "visitorClose", "leave", "claim", "reply"} :
             \E at \in {"read", "close"}, o \in Operators \cup {Nobody} :
               /\ Begin(t, handler, at, s, o)
               /\ at = "close" \/ handler \in {"leave", "abandon", "vanish"} => o = Nobody
    <3>1. CASE \/ VisitorMessage(t, s) \/ VisitorFormActivity(t, s) \/ VisitorRejoin(t, s)
               \/ VisitorCloseSession(t, s) \/ VisitorLeaveContactInfo(t, s)
      BY <3>1
      DEF VisitorMessage, VisitorFormActivity, VisitorRejoin, VisitorCloseSession,
          VisitorLeaveContactInfo, Receives
    <3>2. CASE \E o \in Operators : OperatorJoinSession(t, s, o) \/ OperatorMessage(t, s, o)
      BY <3>2 DEF OperatorJoinSession, OperatorMessage, Receives
    <3> QED
      BY <1>1, <3>1, <3>2
  <2> QED
    BY <2>1, FairBegins
<1>2. \A s \in Sessions : ~ReopenSession(t, s) /\ ~RestAssign(t, s)
  BY DEF ReopenSession, RestAssign, Receives, Unfair
<1>3. "closeAny" \notin Handlers
  BY DEF Unfair
<1> QED
  BY <1>1, <1>2, <1>3, FairStarts, FairPresence, FairOwnCloses DEF Requests

LEMMA FairSame ==
  ASSUME FairInv, UNCHANGED <<session, preference, limit>>, UNCHANGED task
  PROVE  FairInv'
BY DEF FairInv, LineOK, Spare, Excused, Load, Eligible, Waiting, Oldest

LEMMA FairTimers ==
  ASSUME Alone, IInv, FairInv, NEW s \in Sessions, TimersFire(s)
  PROVE  FairInv'
<1>0. UNCHANGED <<session, preference, limit>>
  BY DEF TimersFire, InactivityWarning, AbandonWarning, QueueWaitMessage, InactivityClose,
         AbandonClose, GraceClose
<1>1. CASE UNCHANGED task
  BY <1>0, <1>1, FairSame
<1>2. ASSUME NEW t \in Tasks, InactivityClose(t, s) \/ AbandonClose(t, s) \/ GraceClose(t, s)
      PROVE  FairInv'
  <2>1. /\ task[t].at = "idle"
        /\ \E handler \in {"inactivity", "abandon", "vanish"}, at \in {"read", "close"} :
             Begin(t, handler, at, s, Nobody)
    BY <1>2 DEF InactivityClose, AbandonClose, GraceClose
  <2> QED
    BY <1>0, <2>1, FairBegins
<1> QED
  BY <1>1, <1>2 DEF TimersFire, InactivityWarning, AbandonWarning, QueueWaitMessage

(* After a restart everybody is offline.                                   *)
LEMMA FairInstant ==
  ASSUME Handlers \cap Unfair = {}, FairInv, Instant
  PROVE  FairInv'
<1>1. CASE Restart
  <2>1. \A o \in Operators : preference'[o] = "offline"
    BY <1>1 DEF Restart
  <2>2. Eligible' = {}
    BY <2>1 DEF Eligible
  <2>3. \A t \in Tasks : task'[t] = Idle
    BY <1>1 DEF Restart
  <2>4. \A t \in Tasks : LineOK(task[t])'
    BY <2>3 DEF LineOK, Idle, Draining
  <2> QED
    BY <2>2, <2>4 DEF FairInv, Spare
<1>2. CASE ~Restart
  <2>1. UNCHANGED <<session, preference, limit>> /\ UNCHANGED task
    BY <1>2 DEF Instant, VisitorDisconnect, RestClose, RestReopen, SaveLimit, Unfair
  <2> QED
    BY <2>1, FairSame
<1> QED
  BY <1>1, <1>2

LEMMA FairNext ==
  ASSUME Alone, Handlers \cap Unfair = {}
  PROVE  IInv /\ KnownInv /\ RolesInv /\ FairInv /\ [Next]_vars => FairInv'
<1> SUFFICES ASSUME IInv, KnownInv, RolesInv, FairInv, [Next]_vars PROVE FairInv'
  OBVIOUS
<1>1. CASE UNCHANGED vars
  BY <1>1, FairSame DEF vars
<1>2. ASSUME NEW t \in Tasks, Step(t) PROVE FairInv'
  <2>1. "restAssign" \notin Handlers
    BY DEF Unfair
  <2> QED
    BY <1>2, <2>1, FairReads, FairClaims, FairGreets, FairPicks, FairDrains, FairAssigns, FairCloses
    DEF Step
<1>3. \A t \in Tasks : ~Fail(t)
  BY DEF Fail, Unfair
<1> QED
  BY <1>1, <1>2, <1>3, FairRequests, FairTimers, FairInstant DEF Next

LEMMA FairInit == Init => FairInv
<1> SUFFICES ASSUME Init PROVE FairInv
  OBVIOUS
<1>1. \A s \in Sessions, o \in Operators : ~Spare(s, o)
  BY DEF Init, Spare, Eligible
<1>2. \A t \in Tasks : task[t] = Idle
  BY DEF Init
<1> QED
  BY <1>1, <1>2, IdleLine DEF FairInv

(* With one handler at a time, and as long as chats are closed by their    *)
(* own operators, visitors and timers, nobody is left waiting while an     *)
(* eligible operator has room: what frees a place, and whoever comes       *)
(* online, drains the queue.  Excluded are the requests after which the    *)
(* code drains nothing or for somebody else: a higher limit, a close by    *)
(* another operator or by REST, REST assigning, and a drain that fails;    *)
(* reopening brings a session back into the queue without a look at who    *)
(* is free.                                                                *)
THEOREM ChatNoIdleCapacity ==
  ASSUME Handlers \cap {"config", "closeAny", "restClose", "restReopen", "restAssign", "reopen",
                        "fail"} = {},
         NEW t, Tasks = {t}
  PROVE  Spec => []NoIdleCapacity
<1>1. Alone /\ Handlers \cap Unfair = {}
  BY DEF Alone, Unfair
<1>2. Init => IInv /\ KnownInv /\ RolesInv /\ FairInv
  BY InitHolds, KnownInit, LimitInit, FairInit
<1>3. IInv /\ KnownInv /\ RolesInv /\ FairInv /\ [Next]_vars
        => IInv' /\ KnownInv' /\ RolesInv' /\ FairInv'
  BY <1>1, NextPreserves, KnownNext, RolesNext, FairNext
<1>4. FairInv => NoIdleCapacity
  <2> SUFFICES ASSUME FairInv, Quiet, NEW s \in Sessions, NEW o \in Eligible, Waiting(s),
                      Load(o) < limit
               PROVE  FALSE
    BY DEF NoIdleCapacity
  <2>1. Spare(s, o) /\ o \in Operators
    BY DEF Spare, Eligible
  <2>2. \A u \in Tasks : ~Excused(task[u], s, o)
    BY DEF Quiet, Excused
  <2> QED
    BY <2>1, <2>2 DEF FairInv
<1> QED
  BY <1>2, <1>3, <1>4, PTL DEF Spec

-----------------------------------------------------------------------------
(* The line of the visitors                                                *)

Line_line == {s \in Sessions : session[s].status = "open" /\ session[s].operator = Nobody}
Line_served == {s \in Sessions : session[s].status = "open" /\ session[s].operator # Nobody}
Line_entered == Cardinality({s \in Sessions : session[s].status # "none"})

LEMMA EnteredSoFar ==
  ASSUME NEW s \in Sessions
  PROVE  /\ Cardinality({r \in Sessions : r < s}) = s - 1
         /\ Cardinality({r \in Sessions : r < s \/ r = s}) = s
         /\ s \in Nat /\ s <= NumSessions
<1>0. s \in 1 .. NumSessions /\ NumSessions \in Nat
  BY BoundsAreCounts DEF Sessions
<1>1. {r \in Sessions : r < s} = 1 .. (s - 1) /\ {r \in Sessions : r < s \/ r = s} = 1 .. s
  BY <1>0 DEF Sessions
<1>2. Cardinality(1 .. (s - 1)) = s - 1 /\ Cardinality(1 .. s) = s
  <2>1. s - 1 \in Int /\ s \in Int /\ 1 \in Int
    BY <1>0
  <2>2. Cardinality(1 .. (s - 1)) = (IF 1 > s - 1 THEN 0 ELSE (s - 1) - 1 + 1)
    BY <2>1, FS_Interval
  <2>3. Cardinality(1 .. s) = (IF 1 > s THEN 0 ELSE s - 1 + 1)
    BY <2>1, FS_Interval
  <2> QED
    BY <1>0, <2>2, <2>3
<1>3. s \in Nat /\ s <= NumSessions
  BY <1>0
<1> QED
  BY <1>1, <1>2, <1>3

(* A visitor enters behind all the others.                                 *)
LEMMA EntersLine ==
  ASSUME IInv, KnownInv, NEW t \in Tasks, VisitorStart(t)
  PROVE  Line!Enter
<1> PICK s \in Sessions : /\ session[s].status = "none"
                          /\ \A r \in 1 .. s - 1 : session[r].status # "none"
                          /\ session' = [session EXCEPT ![s].status = "open"]
  BY DEF VisitorStart
<1>0. session \in [Sessions -> SessionType]
  BY Facts
<1>1. /\ session'[s].status = "open" /\ session'[s].operator = Nobody
      /\ \A r \in Sessions \ {s} : session'[r] = session[r]
  <2>1. session[s].operator = Nobody
    BY DEF KnownInv, RowsKnown, Known
  <2>2. session[s] \in SessionType
    BY <1>0
  <2>3. session'[s] = [session[s] EXCEPT !.status = "open"]
    BY <1>0
  <2>4. \A r \in Sessions \ {s} : session'[r] = session[r]
    BY <1>0
  <2> QED
    BY <2>1, <2>2, <2>3, <2>4 DEF SessionType
<1>2. \A r \in Sessions : session[r].status # "none" <=> r < s
  <2> SUFFICES ASSUME NEW r \in Sessions PROVE session[r].status # "none" <=> r < s
    OBVIOUS
  <2>0. r \in Nat /\ s \in Nat /\ 1 <= r /\ 1 <= s
    BY BoundsAreCounts DEF Sessions
  <2>1. CASE r < s
    BY <2>0, <2>1
  <2>2. CASE r = s
    BY <2>0, <2>2
  <2>3. CASE s < r
    <3>1. s \in 1 .. r - 1
      BY <2>0, <2>3
    <3> QED
      BY <2>0, <2>3, <3>1 DEF KnownInv, RowsKnown, Known
  <2> QED
    BY <2>0, <2>1, <2>2, <2>3
<1>3. /\ {r \in Sessions : session[r].status # "none"} = {r \in Sessions : r < s}
      /\ {r \in Sessions : session'[r].status # "none"} = {r \in Sessions : r < s \/ r = s}
  BY <1>1, <1>2
<1>4. Line_entered = s - 1 /\ Line_entered' = s /\ s \in Nat /\ s <= NumSessions
  BY <1>3, EnteredSoFar DEF Line_entered
<1>5. Line_line' = Line_line \cup {s} /\ Line_served' = Line_served
  BY <1>1 DEF Line_line, Line_served
<1>6. Line_entered < NumSessions /\ Line_entered' = Line_entered + 1 /\ s = Line_entered + 1
  BY <1>4, BoundsAreCounts
<1> QED
  BY <1>5, <1>6 DEF Line!Enter, Line_line, Line_served, Line_entered

(* Whoever is assigned a chat by the gateway gets the oldest of the line.  *)
LEMMA ServesLine ==
  ASSUME IInv, RolesInv, FairInv, Handlers \cap {"claim", "reply", "restAssign"} = {},
         NEW t \in Tasks, Assign(t)
  PROVE  Line!Serve
<1> PICK s \in Sessions : s = task[t].s
  BY InFlight DEF Assign, OfSession
<1> PICK o : o = task[t].o
  OBVIOUS
<1>0. /\ RoleOK(task[t]) /\ LineOK(task[t]) /\ task[t].at = "assign"
      /\ session \in [Sessions -> SessionType]
  BY Facts DEF RolesInv, FairInv, Assign
<1>1. task[t].handler \in Draining \cup {"start"}
  BY <1>0 DEF RoleOK
<1>2. o \in Operators
  <2>1. CASE task[t].handler \in Draining
    BY <2>1, InFlight
  <2>2. CASE task[t].handler = "start"
    BY <1>0, <2>2 DEF RoleOK
  <2> QED
    BY <1>1, <2>1, <2>2
<1>3. o # Nobody
  BY <1>2, SupervisorsAreOperators
<1>4. Oldest(s)
  BY <1>0, <1>1 DEF LineOK
<1>5. /\ session'[s].operator = o /\ session'[s].status = session[s].status
      /\ \A r \in Sessions \ {s} : session'[r] = session[r]
  BY <1>0 DEF Assign, Assigned, SessionType
<1>6. s \in Line_line /\ \A w \in Line_line : s <= w
  BY <1>4 DEF Oldest, Waiting, Line_line
<1>7. Line_line' = Line_line \ {s} /\ Line_served' = Line_served \cup {s}
  BY <1>3, <1>4, <1>5 DEF Line_line, Line_served, Oldest, Waiting
<1>8. {r \in Sessions : session'[r].status # "none"} = {r \in Sessions : session[r].status # "none"}
  BY <1>5
<1>9. Line_entered' = Line_entered
  BY <1>8 DEF Line_entered
<1> QED
  BY <1>6, <1>7, <1>9 DEF Line!Serve, Line_line, Line_served, Line_entered

(* A close takes a visitor out of the line or ends a conversation.         *)
LEMMA LeavesLine ==
  ASSUME IInv, KnownInv, NEW t \in Tasks, Close(t)
  PROVE  Line!GiveUp \/ Line!Finish \/ UNCHANGED Line!vars
<1> PICK s \in Sessions : s = task[t].s
  BY InFlight DEF Close, OfSession
<1>0. session \in [Sessions -> SessionType] /\ session[s].status # "none"
  BY Facts DEF KnownInv, Known, Close, OfSession
<1>1. /\ session'[s].status = "closed"
      /\ \A r \in Sessions \ {s} : session'[r] = session[r]
  BY <1>0 DEF Close, SessionType
<1>2. Line_line' = Line_line \ {s} /\ Line_served' = Line_served \ {s}
  BY <1>1 DEF Line_line, Line_served
<1>3. {r \in Sessions : session'[r].status # "none"} = {r \in Sessions : session[r].status # "none"}
  BY <1>0, <1>1
<1>4. Line_entered' = Line_entered
  BY <1>3 DEF Line_entered
<1>5. Line_line \cap Line_served = {}
  BY DEF Line_line, Line_served
<1>6. CASE s \in Line_line
  <2>1. Line_served' = Line_served
    BY <1>2, <1>5, <1>6
  <2>2. Line!GiveUp
    BY <1>2, <1>4, <1>6, <2>1 DEF Line!GiveUp, Line_line, Line_served, Line_entered
  <2> QED
    BY <2>2
<1>7. CASE s \in Line_served
  <2>1. Line_line' = Line_line
    BY <1>2, <1>5, <1>7
  <2>2. Line!Finish
    BY <1>2, <1>4, <1>7, <2>1 DEF Line!Finish, Line_line, Line_served, Line_entered
  <2> QED
    BY <2>2
<1>8. CASE s \notin Line_line /\ s \notin Line_served
  <2>1. Line_line' = Line_line /\ Line_served' = Line_served
    BY <1>2, <1>8
  <2> QED
    BY <1>4, <2>1 DEF Line!vars, Line_line, Line_served, Line_entered
<1> QED
  BY <1>6, <1>7, <1>8

LEMMA KeepsLine ==
  ASSUME UNCHANGED session
  PROVE  UNCHANGED Line!vars
BY DEF Line!vars

LEMMA LineNext ==
  ASSUME Handlers \cap Unfair = {}, Handlers \cap {"claim", "reply"} = {}
  PROVE  IInv /\ KnownInv /\ RolesInv /\ FairInv /\ [Next]_vars => [Line!Next]_(Line!vars)
<1> SUFFICES ASSUME IInv, KnownInv, RolesInv, FairInv, [Next]_vars
             PROVE  Line!Next \/ UNCHANGED Line!vars
  OBVIOUS
<1>1. ASSUME NEW t \in Tasks, VisitorStart(t) PROVE Line!Next
  BY <1>1, EntersLine DEF Line!Next
<1>2. ASSUME NEW t \in Tasks, Assign(t) PROVE Line!Next
  <2>1. Handlers \cap {"claim", "reply", "restAssign"} = {}
    BY DEF Unfair
  <2> QED
    BY <1>2, <2>1, ServesLine DEF Line!Next
<1>3. ASSUME NEW t \in Tasks, Close(t) PROVE Line!Next \/ UNCHANGED Line!vars
  BY <1>3, LeavesLine DEF Line!Next
<1>4. CASE \A t \in Tasks : ~VisitorStart(t) /\ ~Assign(t) /\ ~Close(t)
  <2>1. ASSUME NEW t \in Tasks, Requests(t) PROVE UNCHANGED session
    BY <1>4, <2>1
    DEF Requests, OperatorJoin, SetStatus, OperatorOffline, VisitorMessage,
        VisitorFormActivity, VisitorRejoin, VisitorCloseSession, VisitorLeaveContactInfo,
        ReopenSession, RestAssign, OperatorJoinSession, OperatorMessage, OperatorCloseSession,
        Receives, Unfair
  <2>2. ASSUME NEW t \in Tasks, Step(t) PROVE UNCHANGED session
    BY <1>4, <2>2
    DEF Step, ReadSession, MessageReacts, FormReacts, RejoinReacts, RejoinRearms,
        CloseAfterRead, NothingToClose, ClaimReads, ReplyReads, ReplyCounts, Stamp, Notify,
        Greet, Arm, Pick, PickCounts, PickRotates, Recheck, Park, Drain, DrainCounts,
        DrainTakes, Sync
  <2>3. ASSUME NEW s \in Sessions, TimersFire(s) PROVE UNCHANGED session
    BY <2>3
    DEF TimersFire, InactivityWarning, AbandonWarning, QueueWaitMessage, InactivityClose,
        AbandonClose, GraceClose
  <2>4. ASSUME Instant PROVE UNCHANGED session
    BY <2>4
    DEF Instant, VisitorDisconnect, RestClose, RestReopen, SaveLimit, Restart, Unfair
  <2>5. \A t \in Tasks : ~Fail(t)
    BY DEF Fail, Unfair
  <2>6. UNCHANGED session
    BY <2>1, <2>2, <2>3, <2>4, <2>5 DEF Next, vars
  <2> QED
    BY <2>6, KeepsLine
<1> QED
  BY <1>1, <1>2, <1>3, <1>4

LEMMA LineInit == Init => Line!Init
<1> SUFFICES ASSUME Init PROVE Line!Init
  OBVIOUS
<1>1. \A s \in Sessions : session[s].status = "none"
  BY DEF Init, NoSession
<1>2. Line_line = {} /\ Line_served = {}
  BY <1>1 DEF Line_line, Line_served
<1>3. {s \in Sessions : session[s].status # "none"} = {}
  BY <1>1
<1>4. Line_entered = 0
  BY <1>3, FS_EmptySet DEF Line_entered
<1> QED
  BY <1>2, <1>4 DEF Line!Init, Line_line, Line_served, Line_entered

(* The gateway implements the line its visitors are promised: with one     *)
(* handler at a time every visitor enters at the end, only the head of the *)
(* line is served, and nobody comes back.  Excluded, beside what leaves    *)
(* room idle, is an operator who picks a session himself: opening it or    *)
(* answering in it claims it wherever it stands in the line.               *)
THEOREM ChatServedInOrder ==
  ASSUME Handlers \cap {"config", "closeAny", "restClose", "restReopen", "restAssign", "reopen",
                        "fail", "claim", "reply"} = {},
         NEW t, Tasks = {t}
  PROVE  Spec => ServedInOrder
<1>1. Alone /\ Handlers \cap Unfair = {} /\ Handlers \cap {"claim", "reply"} = {}
  BY DEF Alone, Unfair
<1>2. Init => IInv /\ KnownInv /\ RolesInv /\ FairInv /\ Line!Init
  BY InitHolds, KnownInit, LimitInit, FairInit, LineInit
<1>3. IInv /\ KnownInv /\ RolesInv /\ FairInv /\ [Next]_vars
        => IInv' /\ KnownInv' /\ RolesInv' /\ FairInv' /\ [Line!Next]_(Line!vars)
  BY <1>1, NextPreserves, KnownNext, RolesNext, FairNext, LineNext
<1> QED
  BY <1>2, <1>3, PTL DEF Spec, ServedInOrder, Line!Spec
=============================================================================
