------------------------------ MODULE ChatPresence ------------------------------
(***************************************************************************)
(* Sockets and who sits behind them: which visitor page belongs to which   *)
(* chat, which tab of the back office makes which operator available, and  *)
(* the two grace timers that run once a socket is lost (ChatGateway has    *)
(* only their outcomes).  A socket is lost at the far end some time before *)
(* the gateway hears of it, and handlers of a socket go on after that.     *)
(***************************************************************************)
EXTENDS Tables

CONSTANTS
  Sockets,     \* sockets; one that nothing refers to any more serves as a new one
  Operators,
  MaxTalks,    \* bound: chats ever started
  MaxRestarts  \* bound: restarts of the server

ASSUME PresenceBounds == MaxTalks \in Nat /\ MaxRestarts \in Nat
ASSUME NoneIsNobody == None \notin Sockets \cup Operators \cup {"start", "rejoin", "join"}

VARIABLES
  wire,       \* socket -> open, lost (the gateway has not heard of it), or gone;
              \* and client.data.user once the handshake's cookie is verified
  handling,   \* socket -> the one handler that awaits something for it
  talks,      \* chat -> is it open
  seat,       \* visitorSessionSockets: socket -> chat, 0 for none
  vanished,   \* visitorDisconnectTimers
  closing,    \* chats that closeAbandonedVisitorSession is about to close
  online,     \* onlineOperators: operator -> socket
  leaving,    \* operatorDisconnectTimers
  restarts,
  registered, \* history: sockets that joined as an operator, until logout or loss
  slips       \* history: where the gateway cannot know what happened, below

visitorSide == <<talks, seat, vanished, closing>>
operatorSide == <<online, leaving, registered>>
presenceVars == <<wire, handling, visitorSide, operatorSide, restarts, slips>>

Unhandled == [does |-> None, chat |-> 0]
NoSlips == [overtaken |-> {}, missed |-> {}, eclipsed |-> {}, ghosts |-> {}]

PresenceInit ==
  /\ wire = [k \in Sockets |-> [at |-> "gone", user |-> None]]
  /\ handling = [k \in Sockets |-> Unhandled]
  /\ talks = << >> /\ seat = [k \in Sockets |-> 0]
  /\ vanished = {} /\ closing = {}
  /\ online = [o \in Operators |-> None] /\ leaving = {} /\ registered = {}
  /\ restarts = 0 /\ slips = NoSlips

-----------------------------------------------------------------------------
Gone(k) == wire[k].at = "gone"
Sitters(c) == {k \in Sockets : seat[k] = c}
TabsOf(o) == {k \in registered : wire[k].user = o}

Referred(k) ==
  seat[k] # 0 \/ handling[k] # Unhandled \/ \E o \in Operators : online[o] = k

(* A socket connects without an identity, and has one once the database    *)
(* has answered, if it sent an operator's cookie.                          *)
Connect(k) ==
  /\ Gone(k) /\ ~Referred(k)
  /\ wire' = [wire EXCEPT ![k] = [at |-> "open", user |-> None]]
  /\ UNCHANGED <<handling, visitorSide, operatorSide, restarts, slips>>

HandleConnection(k, o) ==
  /\ wire[k] = [at |-> "open", user |-> None] /\ ~Referred(k)
  /\ wire' = [wire EXCEPT ![k].user = o]
  /\ UNCHANGED <<handling, visitorSide, operatorSide, restarts, slips>>

(* The tab is closed or the line breaks; then the gateway hears of it.     *)
Drop(k) ==
  /\ wire[k].at = "open"
  /\ wire' = [wire EXCEPT ![k].at = "lost"]
  /\ UNCHANGED <<handling, visitorSide, operatorSide, restarts, slips>>

(* The operator whose entry names the socket has a grace window, and so    *)
(* has the visitor.  History: the loss that overtakes a newer socket of    *)
(* the chat, and the one of the tab that came last before another's.       *)
HandleDisconnect(k) ==
  LET c == seat[k]
      its == {o \in Operators : online[o] = k}
      others == {x \in Sitters(c) \ {k} : wire[x].at = "open"}
  IN
    /\ wire[k].at = "lost"
    /\ wire' = [wire EXCEPT ![k].at = "gone"]
    /\ leaving' = leaving \cup its
    /\ registered' = registered \ {k}
    /\ seat' = [seat EXCEPT ![k] = 0]
    /\ vanished' = IF c = 0 THEN vanished ELSE vanished \cup {c}
    /\ slips' = [slips EXCEPT
         !.overtaken = IF c # 0 /\ others # {} THEN @ \cup {c} ELSE @ \ {c},
         !.eclipsed = @ \cup {o \in its : TabsOf(o) \ {k} # {}}]
    /\ UNCHANGED <<handling, talks, closing, online, restarts>>

-----------------------------------------------------------------------------
(* Visitors.  Each handler awaits the database once before it seats its    *)
(* socket, and knows nothing of a loss in the meantime.                    *)
Begins(k, does, c) ==
  /\ wire[k].at = "open" /\ handling[k] = Unhandled
  /\ handling' = [handling EXCEPT ![k] = [does |-> does, chat |-> c]]
  /\ UNCHANGED <<wire, visitorSide, operatorSide, restarts, slips>>

VisitorStart(k) ==
  /\ wire[k].user = None /\ Cardinality(DOMAIN talks) < MaxTalks
  /\ Begins(k, "start", 0)

VisitorRejoin(k, c) == wire[k].user = None /\ Begins(k, "rejoin", c)

(* The chat that the socket is seated in, and the one that it leaves; the  *)
(* map has one chat per socket.                                            *)
Seats(k, c) ==
  LET left == {seat[k]} \ {0, c}
      unwatched == IF Gone(k) /\ {x \in Sitters(c) \ {k} : ~Gone(x)} = {} THEN {c} ELSE {}
  IN
    /\ seat' = [seat EXCEPT ![k] = c]
    /\ handling' = [handling EXCEPT ![k] = Unhandled]
    /\ slips' = [slips EXCEPT
         !.overtaken = @ \ {c},
         !.missed = (IF Gone(k) THEN @ ELSE @ \ {c}) \cup left \cup unwatched]
    /\ UNCHANGED <<wire, closing, operatorSide, restarts>>

Started(k) ==
  LET c == Cardinality(DOMAIN talks) + 1 IN
    /\ handling[k].does = "start" /\ c <= MaxTalks
    /\ talks' = Put(talks, c, TRUE)
    /\ Seats(k, c)
    /\ UNCHANGED vanished

(* Mutant of Rejoined: the grace timer goes on.                            *)
RejoinedInVain(k) ==
  /\ handling[k].does = "rejoin"
  /\ Seats(k, handling[k].chat)
  /\ UNCHANGED <<talks, vanished>>
Rejoined(k) ==
  /\ handling[k].does = "rejoin"
  /\ Seats(k, handling[k].chat)
  /\ vanished' = vanished \ {handling[k].chat}
  /\ UNCHANGED talks

(* The command of a start or a rejoin fails, which is logged.              *)
Rejected(k) ==
  /\ handling[k].does \in {"start", "rejoin"}
  /\ handling' = [handling EXCEPT ![k] = Unhandled]
  /\ UNCHANGED <<wire, visitorSide, operatorSide, restarts, slips>>

(* Closed by anybody for any reason, which ends the grace timer too, and   *)
(* opened again by an operator, whether or not the visitor is there.       *)
Closes(c) ==
  /\ talks' = [talks EXCEPT ![c] = FALSE]
  /\ vanished' = vanished \ {c}

CloseTalk(c) ==
  /\ Closes(c)
  /\ UNCHANGED <<wire, handling, seat, closing, operatorSide, restarts, slips>>

ReopenTalk(c) ==
  /\ ~talks[c]
  /\ talks' = [talks EXCEPT ![c] = TRUE]
  /\ slips' = [slips EXCEPT !.missed =
                 IF {k \in Sitters(c) : ~Gone(k)} = {} THEN @ \cup {c} ELSE @]
  /\ UNCHANGED <<wire, handling, seat, vanished, closing, operatorSide, restarts>>

(* The grace window is over: the chat is read and, if still open, closed;  *)
(* an error is logged and the timer is spent.                              *)
GraceOver(c) ==
  /\ c \in vanished
  /\ vanished' = vanished \ {c} /\ closing' = closing \cup {c}
  /\ UNCHANGED <<wire, handling, talks, seat, operatorSide, restarts, slips>>

CloseAbandoned(c) ==
  /\ c \in closing /\ closing' = closing \ {c}
  /\ \/ /\ IF talks[c] THEN Closes(c) ELSE UNCHANGED <<talks, vanished>>
        /\ UNCHANGED slips
     \/ /\ slips' = [slips EXCEPT !.missed = @ \cup {c}]
        /\ UNCHANGED <<talks, vanished>>
  /\ UNCHANGED <<wire, handling, seat, operatorSide, restarts>>

-----------------------------------------------------------------------------
(* Operators.  A join sends two snapshots that it awaits, and registers    *)
(* the socket afterwards.                                                  *)
OperatorJoin(k) == wire[k].user # None /\ Begins(k, "join", 0)

Registers(k) ==
  LET o == wire[k].user IN
    /\ handling[k].does = "join"
    /\ handling' = [handling EXCEPT ![k] = Unhandled]
    /\ online' = [online EXCEPT ![o] = k]
    /\ registered' = IF Gone(k) THEN registered ELSE registered \cup {k}
    /\ slips' = [slips EXCEPT !.eclipsed = @ \ {o},
                              !.ghosts = IF Gone(k) THEN @ \cup {o} ELSE @ \ {o}]
    /\ UNCHANGED <<wire, visitorSide, restarts>>

(* Mutant of Joined: the grace timer goes on.                              *)
JoinedInVain(k) == Registers(k) /\ UNCHANGED leaving
Joined(k) == Registers(k) /\ leaving' = leaving \ {wire[k].user}

MarkOperatorOffline(o) ==
  /\ online' = [online EXCEPT ![o] = None]
  /\ leaving' = leaving \ {o}

OperatorGraceOver(o) ==
  /\ o \in leaving /\ MarkOperatorOffline(o)
  /\ UNCHANGED <<wire, handling, visitorSide, registered, restarts, slips>>

(* Logout leaves the sockets as they are.                                  *)
ForceOperatorOffline(o) ==
  /\ MarkOperatorOffline(o)
  /\ registered' = registered \ TabsOf(o)
  /\ UNCHANGED <<wire, handling, visitorSide, restarts, slips>>

(* All maps and timers live in the process, and every socket ends with it. *)
RestartGateway ==
  /\ restarts < MaxRestarts /\ restarts' = restarts + 1
  /\ wire' = [k \in Sockets |-> [at |-> "gone", user |-> None]]
  /\ handling' = [k \in Sockets |-> Unhandled]
  /\ seat' = [k \in Sockets |-> 0] /\ vanished' = {} /\ closing' = {}
  /\ online' = [o \in Operators |-> None] /\ leaving' = {} /\ registered' = {}
  /\ slips' = [NoSlips EXCEPT !.missed = {c \in DOMAIN talks : talks[c]}]
  /\ UNCHANGED talks

PresenceNext ==
  \/ \E k \in Sockets :
       \/ Connect(k) \/ Drop(k) \/ HandleDisconnect(k)
       \/ VisitorStart(k) \/ Started(k) \/ Rejoined(k) \/ Rejected(k)
       \/ OperatorJoin(k) \/ Joined(k)
       \/ \E o \in Operators : HandleConnection(k, o)
       \/ \E c \in DOMAIN talks : VisitorRejoin(k, c)
  \/ \E c \in DOMAIN talks :
       CloseTalk(c) \/ ReopenTalk(c) \/ GraceOver(c) \/ CloseAbandoned(c)
  \/ \E o \in Operators : OperatorGraceOver(o) \/ ForceOperatorOffline(o)
  \/ RestartGateway

PresenceSpec == PresenceInit /\ [][PresenceNext]_presenceVars

-----------------------------------------------------------------------------
(* An open chat is about to be closed as abandoned only while no page of   *)
(* the visitor sits in it, unless the loss of an older page was heard of   *)
(* after the newer one came (chat.gateway.ts:326); and once the last page  *)
(* is lost it is about to be closed, unless nobody is left who could tell: *)
(* after a restart, a reopening without the visitor, a failed close, a     *)
(* page that took another chat, or one that was lost before its start or   *)
(* rejoin had finished, which may also stop the timer (:1490).             *)
ChatsFollowPages ==
  \A c \in DOMAIN talks :
    /\ c \in vanished /\ (\E k \in Sitters(c) : wire[k].at = "open") =>
         c \in slips.overtaken
    /\ talks[c] /\ (\A k \in Sitters(c) : Gone(k)) =>
         c \in vanished \cup closing \cup slips.missed

(* Nobody goes offline over a tab that has just come back; an operator     *)
(* whose last socket is gone is on the way offline, unless its join came   *)
(* to an end after its loss was heard of (:1173); and one with a tab that  *)
(* has joined stays online until logout, unless a tab that joined later    *)
(* was lost before (:314, one socket per operator).                        *)
PresenceFollowsTabs ==
  \A o \in Operators :
    /\ online[o] # None => (o \in leaving => Gone(online[o]))
    /\ online[o] # None => (Gone(online[o]) => o \in leaving \cup slips.ghosts)
    /\ TabsOf(o) # {} => online[o] # None \/ o \in slips.eclipsed
=============================================================================
