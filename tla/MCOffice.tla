--------------------------------- MODULE MCOffice ---------------------------------
(* Who works in the back office, signed in or not, whose sockets the chat has,   *)
(* and the chat's history and texts, side by side: a behaviour is about one.     *)
EXTENDS Sessions, ChatArchive, CannedResponses, ChatPresence, TLC

CONSTANTS t1, t2
MCTriggers == <<t1, t2>>

authVars == <<accountVars, sessionVars>>

VARIABLE subject  \* the part that the behaviour is about, once it has begun
Is(part) == subject \in {None, part} /\ subject' = part

MCInit == SessionsInit /\ ArchiveInit /\ LibraryInit /\ PresenceInit /\ subject = None
MCNext ==
  \/ Is("accounts") /\ SessionsNext /\ UNCHANGED <<archiveVars, libraryVars, presenceVars>>
  \/ Is("archive") /\ ArchiveNext /\ UNCHANGED <<authVars, libraryVars, presenceVars>>
  \/ Is("texts") /\ LibraryNext /\ UNCHANGED <<authVars, archiveVars, presenceVars>>
  \/ Is("sockets") /\ PresenceNext /\ UNCHANGED <<authVars, archiveVars, libraryVars>>
MCSpec == MCInit /\ [][MCNext]_<<authVars, archiveVars, libraryVars, presenceVars, subject>>

-----------------------------------------------------------------------------
(* While the browser is used there is one user, and three rows of roles    *)
(* and permissions at most; two requests are in flight.                    *)
Busy == Cardinality({e \in Admins : request[e].at # "idle"})
Asking == Cardinality({t \in Tabs : tab[t].at # "idle"})
Used == period > 1 \/ apart \/ Asking > 0 \/ cookies.refresh # None
          \/ \E u \in DOMAIN users : users[u].session # None
AccountsBound ==
  IF Used
  THEN /\ nextUser = 2 /\ nextRole + nextPermission <= 3
       /\ Busy + Asking <= 2 /\ Busy <= 1
       /\ Asking = 2 => nextRole + nextPermission = 2
       /\ Busy = 1 => ~apart
  ELSE /\ \A u \in DOMAIN users : ~users[u].reset
       /\ nextRole = 3 => nextPermission = 1 /\ Busy <= 1
       /\ Busy = 2 => nextRole + nextPermission <= 3

(* An export is of three chats, one of which may leave the history         *)
(* meanwhile; contact forms cross over two chats.                          *)
Crossing == {f \in Forms : InFlight(f)}
Left == {c \in 1 .. nextChat - 1 : c \notin ChatHistory(chats, {})}
Exporting ==
  /\ nextChat = MaxChats + 1
  /\ trashing = {} /\ crossed = {} /\ Cardinality(Left) <= 1
  /\ Cardinality(Crossing) <= 1 /\ \A f \in Crossing : forms[f].full /\ forms[f].closed
  /\ Cardinality({c \in DOMAIN chats : chats[c].sent # None}) <= 1
  /\ export.sent \in {{}, {FALSE}}
ThreeChats ==
  /\ crossed = {} /\ trashing = {}
  /\ Cardinality(Crossing) <= 1 /\ Cardinality(DOMAIN answered) <= 1
  /\ nextChat > MaxChats => DOMAIN chats = 1 .. MaxChats /\ \A c \in DOMAIN chats : ~chats[c].trashed
ArchiveBound ==
  IF export.at # "idle" THEN Exporting
  ELSE Cardinality(trashing) <= 1 /\ (nextChat <= 2 \/ ThreeChats)

(* One response below a category, or two without any; two requests that    *)
(* are under way write one response.                                       *)
TextsBound ==
  /\ nextShelf = 2 => nextResponse <= 2
  /\ (\A e \in Authors : writing[e] # Nothing) => nextResponse <= 2

(* Sockets of visitors or of the operator; a third one beside one chat and *)
(* one handler in flight, and a second chat beside one handler.            *)
InUse == {k \in Sockets : ~Gone(k) \/ Referred(k)}
Awaiting == {k \in Sockets : handling[k] # Unhandled}
Talks == Cardinality(DOMAIN talks)
SocketsBound ==
  /\ \/ Talks = 0 /\ \A k \in Sockets : handling[k].does # "start"
     \/ \A k \in Sockets : wire[k].user = None
  /\ Talks + restarts <= 2 \/ Talks = 0
  /\ Cardinality(InUse) = 3 => Talks <= 1 /\ Cardinality(Awaiting) <= 1 /\ restarts = 0
  /\ Talks = 2 => /\ Cardinality(InUse) <= 2 /\ Cardinality(Awaiting) <= 1
                  /\ closing \cup slips.overtaken = {}

Bound == AccountsBound /\ ArchiveBound /\ TextsBound /\ SocketsBound

Symmetry == Permutations(Admins) \cup Permutations(Tabs)
=============================================================================
