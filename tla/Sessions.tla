-------------------------------- MODULE Sessions --------------------------------
(***************************************************************************)
(* Signing in and out (AuthService) over the users of module Accounts, as  *)
(* one browser sees it: several tabs share its two cookies, and each has   *)
(* at most one request of AuthController in flight.  A request reads the   *)
(* user, later writes the user's one session, and later still its answer   *)
(* sets the cookies, or is lost.                                           *)
(*                                                                         *)
(* The session is a hash of the refresh token, in which bcrypt sees the    *)
(* first 72 bytes: the user and the leading digits of the time of issue.   *)
(* So a token is a period of the clock, and tokens of one period match.    *)
(* A session also keeps, for the properties, the rights it was issued      *)
(* with, and whether it slipped through a change of them: its request had  *)
(* read the old ones, or the command that was to end it failed.            *)
(***************************************************************************)
EXTENDS Accounts

CONSTANTS
  Tabs,
  MaxPeriods  \* bound: periods of the clock

ASSUME SessionBounds == MaxPeriods \in Nat

VARIABLES
  period,    \* what of the time a token's hash sees
  cookies,   \* the browser's: access -> user or 0, refresh -> [user, token] or None
  tab,       \* what each tab's request has read, or has to be told
  apart      \* history: two requests crossed, or an answer was lost, since the
             \* cookies were last set by a request on its own

sessionVars == <<period, cookies, tab, apart>>

Resting == [at |-> "idle", ask |-> None, user |-> 0, rights |-> None, token |-> 0, alone |-> TRUE]

SessionsInit ==
  /\ AccountsInit
  /\ period = 1
  /\ cookies = [access |-> 0, refresh |-> None]
  /\ tab = [t \in Tabs |-> Resting]
  /\ apart = FALSE

Rights(u) == [roles |-> users[u].roles, direct |-> users[u].direct]

-----------------------------------------------------------------------------
(* A request that has read user u goes on beside those of the other tabs.  *)
Asks(t, ask, u) ==
  LET others == {o \in Tabs \ {t} : tab[o].at # "idle"} IN
    /\ tab[t].at = "idle"
    /\ tab' = [o \in Tabs |->
         IF o = t THEN [Resting EXCEPT !.at = "read", !.ask = ask, !.user = u,
                                       !.rights = Rights(u), !.alone = others = {}]
         ELSE IF o \in others THEN [tab[o] EXCEPT !.alone = FALSE]
         ELSE tab[o]]
    /\ apart' = (apart \/ others # {})
    /\ UNCHANGED <<accountVars, period, cookies>>

(* login: the right password is taken for granted, a wrong one is refused. *)
LoginDto == Emails
StartLogin(t, m) ==
  \E u \in DOMAIN users :
    /\ users[u].email = m
    /\ ValidateUser(u)
    /\ Asks(t, "login", u)

(* refreshToken: the cookie is compared with the session.                  *)
Matches(session, token) == session.token = token

StartRefresh(t) ==
  /\ cookies.refresh # None
  /\ LET u == cookies.refresh.user IN
       /\ ValidateUser(u)
       /\ users[u].session # None
       /\ Matches(users[u].session, cookies.refresh.token)
       /\ Asks(t, "refresh", u)

(* Both then write a new session by the user's id, whatever the row is by  *)
(* now, unless there is none, ...                                          *)
WriteSession(t) ==
  LET u == tab[t].user IN
    /\ tab[t].at = "read" /\ tab[t].ask \in {"login", "refresh"}
    /\ u \in DOMAIN users
    /\ users' = [users EXCEPT ![u].session =
         [token |-> period, rights |-> tab[t].rights, slipped |-> tab[t].rights # Rights(u)]]
    /\ tab' = [tab EXCEPT ![t].at = "answered", ![t].token = period]
    /\ UNCHANGED <<nextUser, roleTables, request, period, cookies, apart>>

(* ... and the answer sets both cookies.                                   *)
AccessCookieOnly(t) ==
  IF tab[t].ask = "refresh" THEN [cookies EXCEPT !.access = tab[t].user]
  ELSE [access |-> tab[t].user, refresh |-> [user |-> tab[t].user, token |-> tab[t].token]]
CookiesOf(t) ==
  [access |-> tab[t].user, refresh |-> [user |-> tab[t].user, token |-> tab[t].token]]

Answer(t) ==
  /\ tab[t].at = "answered"
  /\ cookies' = CookiesOf(t)
  /\ apart' = IF tab[t].alone THEN FALSE ELSE apart
  /\ tab' = [tab EXCEPT ![t] = Resting]
  /\ UNCHANGED <<accountVars, period>>

LoseAnswer(t) ==
  /\ tab[t].at = "answered"
  /\ apart' = TRUE
  /\ tab' = [tab EXCEPT ![t] = Resting]
  /\ UNCHANGED <<accountVars, period, cookies>>

UserGone(t) ==
  /\ tab[t].at = "read" /\ tab[t].user \notin DOMAIN users
  /\ tab' = [tab EXCEPT ![t] = Resting]
  /\ UNCHANGED <<accountVars, period, cookies, apart>>

(* Somebody signs in as u elsewhere: a user has one session.               *)
LoginElsewhere(u) ==
  /\ ValidateUser(u)
  /\ users' = [users EXCEPT ![u].session = [token |-> period, rights |-> Rights(u), slipped |-> FALSE]]
  /\ apart' = TRUE
  /\ tab' = [t \in Tabs |-> [tab[t] EXCEPT !.alone = tab[t].at = "idle"]]
  /\ UNCHANGED <<nextUser, roleTables, request, period, cookies>>

-----------------------------------------------------------------------------
(* logout goes by the access cookie, and clears both cookies in any case.  *)
Logout ==
  LET u == cookies.access IN
    /\ u = 0 \/ u \in DOMAIN users
    /\ users' = IF u = 0 THEN users ELSE [users EXCEPT ![u] = EndSession(@)]
    /\ cookies' = [access |-> 0, refresh |-> None]
    /\ UNCHANGED <<nextUser, roleTables, request, period, tab, apart>>

(* The browser keeps the access cookie as long as the token in it is valid,*)
(* the refresh cookie longer.                                              *)
AccessCookieExpires ==
  /\ cookies.access # 0
  /\ cookies' = [cookies EXCEPT !.access = 0]
  /\ UNCHANGED <<accountVars, period, tab, apart>>

NextPeriod ==
  /\ period < MaxPeriods
  /\ period' = period + 1
  /\ UNCHANGED <<accountVars, cookies, tab, apart>>

(* forgotPassword mails a link; only the latest one is found again.        *)
ForgotPassword(m) ==
  /\ \E u \in DOMAIN users :
       /\ users[u].email = m /\ ValidateUser(u)
       /\ users' = [users EXCEPT ![u].reset = TRUE]
  /\ UNCHANGED <<nextUser, roleTables, request, period, cookies, tab, apart>>

(* resetPassword finds the user of the link (an expired one is refused, as *)
(* if it was not there) and, when the new password is hashed, writes it.   *)
StartReset(t) ==
  /\ tab[t].at = "idle"
  /\ \E u \in DOMAIN users :
       /\ users[u].reset /\ ~users[u].trashed
       /\ tab' = [tab EXCEPT ![t] = [Resting EXCEPT !.at = "read", !.ask = "reset", !.user = u]]
  /\ UNCHANGED <<accountVars, period, cookies, apart>>

ResetPassword(t) ==
  LET u == tab[t].user IN
    /\ tab[t].at = "read" /\ tab[t].ask = "reset"
    /\ u \in DOMAIN users
    /\ users' = [users EXCEPT ![u] = [EndSession(@) EXCEPT !.reset = FALSE]]
    /\ tab' = [tab EXCEPT ![t] = Resting]
    /\ UNCHANGED <<nextUser, roleTables, request, period, cookies, apart>>

-----------------------------------------------------------------------------
AuthRoutes(t) ==
  \/ \E m \in LoginDto : StartLogin(t, m)
  \/ StartRefresh(t) \/ WriteSession(t) \/ Answer(t) \/ LoseAnswer(t) \/ UserGone(t)
  \/ StartReset(t) \/ ResetPassword(t)

SessionsNext ==
  \/ \E t \in Tabs : AuthRoutes(t)
  \/ \E u \in DOMAIN users : LoginElsewhere(u)
  \/ \E m \in LoginDto : ForgotPassword(m)
  \/ Logout \/ AccessCookieExpires \/ NextPeriod
  \/ AccountsNext /\ UNCHANGED sessionVars

SessionsSpec == SessionsInit /\ [][SessionsNext]_<<accountVars, sessionVars>>

-----------------------------------------------------------------------------
(* "Invalidate existing session so new permissions take effect on next     *)
(* login" (users.service.ts:279): no session goes on with other roles or   *)
(* grants than its user has, but while the request that changed them has   *)
(* still to end it, or if that command failed, or if its login or refresh  *)
(* had read the old ones and wrote after the change.                       *)
SessionsKeepUpWithRights ==
  \A u \in DOMAIN users :
    \/ users[u].session = None \/ users[u].session.slipped
    \/ \E e \in Admins : request[e].at = "ending session" /\ request[e].id = u
    \/ /\ users[u].session.rights.roles \cap DOMAIN roles = users[u].roles
       /\ Only(users[u].session.rights.direct, permissions) = users[u].direct

(* A browser that has the cookies of a user with a session can refresh it, *)
(* unless requests of its tabs crossed, or an answer was lost, or somebody *)
(* signed in elsewhere (refreshToken, auth.service.ts:270-299).            *)
SignedInStaysSignedIn ==
  \/ apart \/ cookies.refresh = None \/ \E t \in Tabs : tab[t].at # "idle"
  \/ LET u == cookies.refresh.user IN
       u \notin DOMAIN users \/ users[u].session = None
         \/ Matches(users[u].session, cookies.refresh.token)
=================================================================================
