-------------------------------- MODULE ChatArchive --------------------------------
(***************************************************************************)
(* The history of closed chats: trash and permanent deletion, the contact  *)
(* form whose mail is sent beside the close (ChatGateway), and the export  *)
(* of the history, read in batches from a cursor while chats go on being   *)
(* closed, reopened, trashed and deleted.                                  *)
(*                                                                         *)
(* A filter of the history by anything a chat keeps once it is closed is   *)
(* no filter here; the one by the outcome of the contact mail is.          *)
(***************************************************************************)
EXTENDS Tables, Sequences

CONSTANTS
  Forms,      \* contact forms in flight
  BatchSize,  \* rows that the export reads at a time
  MaxChats    \* bound: chats ever started

ASSUME ArchiveBounds == BatchSize \in Nat \ {0} /\ MaxChats \in Nat
ASSUME NoneIsNoChat == None \notin Nat

VARIABLES
  chats,      \* id -> open, trashed, sent (how the mail of its form went)
  nextChat,   \* ids are cuids: they grow
  trashing,   \* chats found closed by trashSession and not written yet
  forms,      \* form -> its chat, and how far its close and its mail are
  export,     \* the export under way: filter, cursor, batches written
  answered,   \* history: chat -> what the mail server said of its last form
  crossed     \* history: chats whose forms and mails have crossed

chatTables == <<chats, nextChat>>
mailHistory == <<answered, crossed>>
archiveVars == <<chatTables, trashing, forms, export, mailHistory>>

NoForm == [chat |-> 0, full |-> FALSE, closed |-> TRUE, mailed |-> TRUE]
NoExport == [at |-> "idle", sent |-> {}, cursor |-> None, batches |-> << >>,
             throughout |-> {}, slipped |-> FALSE]

ArchiveInit ==
  /\ chats = << >> /\ nextChat = 1
  /\ trashing = {}
  /\ forms = [f \in Forms |-> NoForm]
  /\ export = NoExport
  /\ answered = << >> /\ crossed = {}

-----------------------------------------------------------------------------
(* The rows of the history: one value of sent asks for that outcome, both  *)
(* ask for any outcome.                                                    *)
ChatHistory(table, sent) ==
  {c \in DOMAIN table :
     /\ ~table[c].open /\ ~table[c].trashed
     /\ sent # {} => table[c].sent \in sent}

(* A write of the table, and (history) what has been in it throughout the  *)
(* export.                                                                 *)
WriteChats(table) ==
  /\ chats' = table
  /\ export' = [export EXCEPT !.throughout = @ \cap ChatHistory(table, export.sent)]

Rest == UNCHANGED <<nextChat, trashing, forms, mailHistory>>

StartSession ==
  /\ nextChat <= MaxChats
  /\ WriteChats(Put(chats, nextChat, [open |-> TRUE, trashed |-> FALSE, sent |-> None]))
  /\ nextChat' = nextChat + 1
  /\ UNCHANGED <<trashing, forms, mailHistory>>

(* Closed by an operator, the visitor or a timer: the fields of the        *)
(* contact form stay as they are.                                          *)
CloseSession(c) == WriteChats([chats EXCEPT ![c].open = FALSE]) /\ Rest

(* Nothing here or in the gateway looks whether the chat is in the trash.  *)
ReopenSession(c) == WriteChats([chats EXCEPT ![c].open = TRUE]) /\ Rest

(* trashSession reads the status and writes deletedAt by two commands.     *)
TrashSession(c) ==
  /\ ~chats[c].open
  /\ trashing' = trashing \cup {c}
  /\ UNCHANGED <<chatTables, forms, export, mailHistory>>

WriteTrash(c) ==
  /\ trashing' = trashing \ {c}
  /\ IF c \in DOMAIN chats THEN WriteChats([chats EXCEPT ![c].trashed = TRUE])
                           ELSE UNCHANGED <<chats, export>>
  /\ UNCHANGED <<nextChat, forms, mailHistory>>

BulkTrashSessions(ids) ==
  WriteChats([c \in DOMAIN chats |->
                [chats[c] EXCEPT !.trashed = @ \/ (c \in ids /\ ~chats[c].open)]]) /\ Rest

RestoreSessions(ids) ==
  WriteChats([c \in DOMAIN chats |-> [chats[c] EXCEPT !.trashed = @ /\ c \notin ids]]) /\ Rest

HardDeleteSessions(ids) ==
  /\ WriteChats(Only(chats, DOMAIN chats \ ids))
  /\ answered' = Only(answered, DOMAIN answered \ ids)
  /\ UNCHANGED <<nextChat, trashing, forms, crossed>>

-----------------------------------------------------------------------------
(* The contact form: getSession, then the mail is sent without being       *)
(* awaited, and the chat is closed.                                        *)
InFlight(f) == ~(forms[f].closed /\ forms[f].mailed)
Others(f, c) == {g \in Forms \ {f} : InFlight(g) /\ forms[g].chat = c}

(* full: one of the fields is filled in; the offer in the queue may send   *)
(* none, and then only contactInfoLeft is written, which is left out here. *)
LeaveContactInfo(f, c, full) ==
  /\ ~InFlight(f)
  /\ forms' = [forms EXCEPT ![f] = [chat |-> c, full |-> full, closed |-> FALSE, mailed |-> FALSE]]
  /\ crossed' = IF Others(f, c) = {} THEN crossed \ {c} ELSE crossed \cup {c}
  /\ answered' = Only(answered, DOMAIN answered \ {c})
  /\ UNCHANGED <<chatTables, trashing, export>>

(* A deleted chat fails the update; the mail is on its way all the same.   *)
CloseWithContactRequest(f) ==
  LET c == forms[f].chat IN
    /\ ~forms[f].closed
    /\ IF c \in DOMAIN chats
       THEN WriteChats([chats EXCEPT ![c].open = FALSE,
                                     ![c].sent = IF forms[f].full THEN FALSE ELSE @])
       ELSE UNCHANGED <<chats, export>>
    /\ forms' = [forms EXCEPT ![f].closed = TRUE]
    /\ UNCHANGED <<nextChat, trashing, mailHistory>>

Answers(f, sent) ==
  LET c == forms[f].chat IN
    /\ ~forms[f].mailed
    /\ forms' = [forms EXCEPT ![f].mailed = TRUE]
    /\ answered' = IF c \in DOMAIN chats THEN Put(answered, c, sent) ELSE answered
    /\ crossed' = IF forms[f].closed THEN crossed ELSE crossed \cup {c}
    /\ UNCHANGED <<nextChat, trashing>>

ForgetContactRequestEmailSent(f, sent) == Answers(f, sent) /\ UNCHANGED <<chats, export>>

(* ChatMailService answers FALSE for a failure, and never rejects.         *)
MarkContactRequestEmailSent(f, sent) ==
  LET c == forms[f].chat IN
    /\ Answers(f, sent)
    /\ IF c \in DOMAIN chats THEN WriteChats([chats EXCEPT ![c].sent = sent])
                             ELSE UNCHANGED <<chats, export>>

-----------------------------------------------------------------------------
Newest(ids, n) == {c \in ids : Cardinality({d \in ids : d > c}) < n}

BatchFromCursor(cursor) ==
  Newest({c \in ChatHistory(chats, export.sent) : cursor # None => c <= cursor}, BatchSize)

(* What findMany returns from a cursor with skip 1: no row if there is no  *)
(* row of that id any more, and otherwise the rows from its place on less  *)
(* the first, be that the cursor's own or, when the filter leaves that     *)
(* out, the next one.                                                      *)
Batch(cursor) ==
  LET from == {c \in ChatHistory(chats, export.sent) : cursor # None => c <= cursor}
  IN CASE cursor = None            -> Newest(from, BatchSize)
       [] cursor \in DOMAIN chats  -> Newest(from \ Newest(from, 1), BatchSize)
       [] OTHER                    -> {}

ExportChatHistory(sent) ==
  /\ export.at # "reading"
  /\ export' = [NoExport EXCEPT !.at = "reading", !.sent = sent,
                                !.throughout = ChatHistory(chats, sent)]
  /\ UNCHANGED <<chatTables, trashing, forms, mailHistory>>

NextBatch ==
  LET batch == Batch(export.cursor)
      slip  == export.cursor # None /\ export.cursor \notin ChatHistory(chats, export.sent)
  IN
    /\ export.at = "reading"
    /\ export' = [export EXCEPT
         !.at = IF Cardinality(batch) < BatchSize THEN "done" ELSE @,
         !.batches = IF batch = {} THEN @ ELSE Append(@, batch),
         !.cursor = IF batch = {} THEN @ ELSE CHOOSE c \in batch : \A d \in batch : c <= d,
         !.slipped = @ \/ slip]
    /\ UNCHANGED <<chatTables, trashing, forms, mailHistory>>

(* A restart of the server loses the handlers, and the answer of a mail.   *)
RestartServer ==
  /\ trashing' = {} /\ forms' = [f \in Forms |-> NoForm] /\ export' = NoExport
  /\ crossed' = crossed \cup {forms[f].chat : f \in {f \in Forms : InFlight(f)}}
  /\ UNCHANGED <<chatTables, answered>>

ChatRoutes ==
  \/ StartSession
  \/ \E c \in DOMAIN chats :
       CloseSession(c) \/ ReopenSession(c) \/ TrashSession(c)
  \/ \E ids \in (SUBSET DOMAIN chats) \ {{}} :
       BulkTrashSessions(ids) \/ RestoreSessions(ids) \/ HardDeleteSessions(ids)
  \/ \E sent \in SUBSET BOOLEAN : ExportChatHistory(sent)

ArchiveNext ==
  \/ ChatRoutes
  \/ \E c \in trashing : WriteTrash(c)
  \/ \E f \in Forms :
       \/ \E c \in DOMAIN chats, full \in BOOLEAN : LeaveContactInfo(f, c, full)
       \/ CloseWithContactRequest(f)
       \/ \E sent \in BOOLEAN : MarkContactRequestEmailSent(f, sent)
  \/ NextBatch
  \/ RestartServer

ArchiveSpec == ArchiveInit /\ [][ArchiveNext]_archiveVars

-----------------------------------------------------------------------------
(* An export that nothing slipped under has every chat that was in the     *)
(* filtered history from its first batch to its last, and has it once      *)
(* (iterateChatHistoryForExport).  It slips when the last row of a batch   *)
(* has left the history by the time of the next: then a chat is skipped,   *)
(* or all that were left.                                                  *)
ExportLosesBySlipOnly ==
  export.at = "done" /\ ~export.slipped =>
    \A c \in export.throughout :
      Cardinality({n \in DOMAIN export.batches : c \in export.batches[n]}) = 1

(* Once a contact form is closed and its mail answered, the chat shows how *)
(* the mail went, unless the answer came before the close was written, two *)
(* forms of the chat were in flight, or the server restarted.              *)
MailShownAsItWent ==
  \A c \in DOMAIN answered \ crossed :
    (\A f \in Forms : InFlight(f) => forms[f].chat # c) => chats[c].sent = answered[c]
=============================================================================
