------------------------------ MODULE ResponseCache ------------------------------
(***************************************************************************)
(* The cache of answers in front of seven controllers (CacheInterceptor):  *)
(* each keeps a map of its own, fills it with the answers to GETs, empties *)
(* it when a request to write comes in, before that is handled, and knows  *)
(* nothing of what the others write: a page that is renamed renames menu   *)
(* items, and what is public of the languages is written by the back       *)
(* office.                                                                 *)
(*                                                                         *)
(* An edition stands for what the tables have to say at a time.  The map   *)
(* has one entry here, of one address and language.                        *)
(***************************************************************************)
EXTENDS Tables

CONSTANTS
  Controllers,
  Feeds,        \* <<c, d>>: what is written through c shows in the answers of d
  Askers,       \* GETs in flight
  Changers,     \* requests that write, in flight
  CacheTTL,     \* of an answer, in periods
  MaxEditions,  \* bound: changes of what a controller answers
  MaxClock      \* bound: periods

ASSUME AnswerBounds ==
  /\ Feeds \subseteq Controllers \X Controllers
  /\ MaxEditions \in Nat /\ MaxClock \in Nat /\ CacheTTL \in Nat \ {0}
ASSUME NoneIsNoController == None \notin Controllers

VARIABLES
  edition,   \* controller -> what the tables have for it
  answers,   \* cache: controller -> data, timestamp, crossed (history); or None
  asking,    \* GET -> what it has read and not stored yet
  changing,  \* request -> the controller it writes through, once it has emptied the map
  clock,
  editedAt   \* history: controller -> when its edition changed

answerVars == <<edition, answers, asking, changing, clock, editedAt>>

NoGet == [of |-> None, data |-> 0, crossed |-> FALSE]

AnswersInit ==
  /\ edition = [c \in Controllers |-> 0]
  /\ editedAt = [c \in Controllers |-> 0]
  /\ answers = [c \in Controllers |-> None]
  /\ asking = [r \in Askers |-> NoGet]
  /\ changing = [w \in Changers |-> None]
  /\ clock = 0

-----------------------------------------------------------------------------
Served(c) == answers[c] # None /\ clock < answers[c].timestamp + CacheTTL

(* A GET that is not served from the map is handled, which reads the       *)
(* tables; an entry that is too old is deleted.                            *)
Handle(r, c) ==
  /\ asking[r] = NoGet /\ ~Served(c)
  /\ answers' = [answers EXCEPT ![c] = None]
  /\ asking' = [asking EXCEPT ![r] = [of |-> c, data |-> edition[c], crossed |-> FALSE]]
  /\ UNCHANGED <<edition, changing, clock, editedAt>>

(* Its answer goes into the map.  History: it crosses a write that has     *)
(* emptied the map and may not have been done when the tables were read.   *)
SetAnswer(r) ==
  LET c == asking[r].of IN
    /\ c # None
    /\ answers' = [answers EXCEPT ![c] =
         [data |-> asking[r].data, timestamp |-> clock,
          crossed |-> asking[r].crossed \/ \E w \in Changers : changing[w] = c]]
    /\ asking' = [asking EXCEPT ![r] = NoGet]
    /\ UNCHANGED <<edition, changing, clock, editedAt>>

(* POST, PATCH, PUT, DELETE: first the map is emptied, ...                 *)
Uncleared(c) == answers
Cleared(c) == [answers EXCEPT ![c] = None]

StartChange(w, c) ==
  /\ changing[w] = None
  /\ changing' = [changing EXCEPT ![w] = c]
  /\ answers' = Cleared(c)
  /\ UNCHANGED <<edition, asking, clock, editedAt>>

(* ... and then the request is handled.                                    *)
Change(w) ==
  LET shown == {d \in Controllers : <<changing[w], d>> \in Feeds} IN
    /\ changing[w] # None
    /\ \A d \in shown : edition[d] < MaxEditions
    /\ edition' = [d \in Controllers |-> IF d \in shown THEN edition[d] + 1 ELSE edition[d]]
    /\ editedAt' = [d \in Controllers |-> IF d \in shown THEN clock ELSE editedAt[d]]
    /\ asking' = [r \in Askers |-> [asking[r] EXCEPT !.crossed = @ \/ asking[r].of \in shown]]
    /\ changing' = [changing EXCEPT ![w] = None]
    /\ UNCHANGED <<answers, clock>>

(* It is refused or fails.                                                 *)
NoChange(w) ==
  /\ changing[w] # None
  /\ changing' = [changing EXCEPT ![w] = None]
  /\ UNCHANGED <<edition, answers, asking, clock, editedAt>>

ClockTicks ==
  /\ clock < MaxClock /\ clock' = clock + 1
  /\ UNCHANGED <<edition, answers, asking, changing, editedAt>>

AnswersNext ==
  \/ \E r \in Askers : SetAnswer(r) \/ \E c \in Controllers : Handle(r, c)
  \/ \E w \in Changers :
       Change(w) \/ NoChange(w) \/ \E c \in {f[1] : f \in Feeds} : StartChange(w, c)
  \/ ClockTicks

AnswersSpec == AnswersInit /\ [][AnswersNext]_answerVars

-----------------------------------------------------------------------------
(* An answer that is served and is not what the tables say was read beside *)
(* the write that changed them (the map is emptied before the write, not   *)
(* after it: cache.interceptor.ts:26-31), or it was changed through        *)
(* another controller, a time to live ago at most.                         *)
AnswersCatchUp ==
  \A c \in Controllers :
    Served(c) /\ answers[c].data # edition[c] /\ ~answers[c].crossed =>
      /\ \E d \in Controllers \ {c} : <<d, c>> \in Feeds
      /\ clock < editedAt[c] + CacheTTL
==================================================================================
