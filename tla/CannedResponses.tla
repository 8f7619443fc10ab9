------------------------------ MODULE CannedResponses ------------------------------
(***************************************************************************)
(* The texts that operators and the chat itself send: canned responses and *)
(* their categories, with trash, and the automatic messages, which are     *)
(* rows of the same table with a trigger and which the gateway answers     *)
(* from a cache.  A request that changes an automatic message writes the   *)
(* row, then its translation, and then reads all the messages again into   *)
(* the cache, one by one.                                                  *)
(*                                                                         *)
(* Titles, headers, labels, delays and names are left out, and there is    *)
(* one language besides the default one.                                   *)
(***************************************************************************)
EXTENDS Tables, Sequences

CONSTANTS
  Authors,       \* operators and supervisors, with one request each at a time
  AutoTriggers,  \* AUTO_MESSAGE_TRIGGERS, in their order
  Texts,
  MaxResponses,  \* bound: responses ever made
  MaxShelves     \* bound: categories ever made

ASSUME ResponseBounds ==
  MaxResponses \in Nat /\ MaxShelves \in Nat

VARIABLES
  shelves,       \* categories: id -> trashed
  responses,     \* id -> trigger, shelf, author, trashed, body, tr(anslation)
  nextShelf, nextResponse,
  writing,       \* what the request of each author has still to do
  messages,      \* autoMessageCache: trigger -> body, translation
  behind,        \* history: triggers whose cache nobody is going to mend
  latecomers     \* history: responses put in use in a category that was trashed

shelfTables == <<shelves, nextShelf>>
responseTables == <<responses, nextResponse>>
libraryVars == <<shelfTables, responseTables, writing, messages, behind, latecomers>>

TriggerSet == {AutoTriggers[n] : n \in DOMAIN AutoTriggers}

ASSUME TriggersAreListed == AutoTriggers \in Seq(TriggerSet) /\ None \notin TriggerSet

AutoRows(t) == {r \in DOMAIN responses : responses[r].trigger = t}

(* A trashed row counts too; without a row the default text is sent.       *)
AutoMessage(t) ==
  IF AutoRows(t) = {} THEN <<None, None>>
  ELSE LET r == CHOOSE r \in AutoRows(t) : TRUE IN <<responses[r].body, responses[r].tr>>

Nothing == [at |-> "idle", id |-> 0, trigger |-> None, tr |-> None, n |-> 0, read |-> None]

LibraryInit ==
  /\ shelves = << >> /\ nextShelf = 1
  /\ responses = << >> /\ nextResponse = 1
  /\ writing = [e \in Authors |-> Nothing]
  /\ messages = [t \in TriggerSet |-> <<None, None>>]
  /\ behind = {} /\ latecomers = {}

-----------------------------------------------------------------------------
(* Categories. Trashing one trashes the responses in use below it, and     *)
(* restoring it restores all of them, also those trashed on their own.     *)
CreateCategoryOfResponses ==
  /\ nextShelf <= MaxShelves
  /\ shelves' = Put(shelves, nextShelf, FALSE) /\ nextShelf' = nextShelf + 1
  /\ UNCHANGED <<responseTables, writing, messages, behind, latecomers>>

Under(ids) == {r \in DOMAIN responses : responses[r].shelf \in ids}

SetTrashed(ids, trashed) ==
  responses' = [r \in DOMAIN responses |->
                  IF r \in ids THEN [responses[r] EXCEPT !.trashed = trashed] ELSE responses[r]]

TrashCategoryOnly(k) ==
  /\ shelves' = [shelves EXCEPT ![k] = TRUE]
  /\ UNCHANGED <<nextShelf, responseTables, writing, messages, behind, latecomers>>

TrashCategory(k) ==
  /\ shelves' = [shelves EXCEPT ![k] = TRUE]
  /\ SetTrashed(Under({k}), TRUE)
  /\ latecomers' = latecomers \ Under({k})
  /\ UNCHANGED <<nextShelf, nextResponse, writing, messages, behind>>

RestoreCategories(ids) ==
  /\ shelves' = [k \in DOMAIN shelves |-> shelves[k] /\ k \notin ids]
  /\ SetTrashed(Under(ids), FALSE)
  /\ latecomers' = latecomers \ Under(ids)
  /\ UNCHANGED <<nextShelf, nextResponse, writing, messages, behind>>

(* The responses of a category go with it, and those of a user with the    *)
(* account: automatic messages as well.                                    *)
RemoveResponses(ids) ==
  /\ responses' = Only(responses, DOMAIN responses \ ids)
  /\ behind' = behind \cup {t \in TriggerSet : AutoRows(t) \cap ids # {}}
  /\ latecomers' = latecomers \ ids
  /\ UNCHANGED <<nextResponse, writing, messages>>

DeleteCategories(ids) ==
  /\ shelves' = Only(shelves, DOMAIN shelves \ ids)
  /\ RemoveResponses(Under(ids))
  /\ UNCHANGED nextShelf

DeleteAccount(e) ==
  RemoveResponses({r \in DOMAIN responses : responses[r].author = e}) /\ UNCHANGED shelfTables

-----------------------------------------------------------------------------
(* Canned responses. A request names the text, the category (None: not     *)
(* mentioned; 0: none) and the translation it sends.                       *)
CannedResponseDto ==
  [body : Texts \cup {None}, shelf : DOMAIN shelves \cup {0, None}, tr : Texts \cup {None}]

Late(r, row) ==
  latecomers' =
    IF ~row.trashed /\ row.shelf \in DOMAIN shelves /\ shelves[row.shelf]
    THEN latecomers \cup {r} ELSE latecomers \ {r}

Then(e, at, r, t, tr) ==
  writing' = [writing EXCEPT ![e] = IF at = "idle" THEN Nothing ELSE
    [Nothing EXCEPT !.at = at, !.id = r, !.trigger = t, !.tr = tr, !.n = 1]]

CreateCannedResponse(e, dto) ==
  LET row == [trigger |-> None, shelf |-> Given(dto.shelf, 0), author |-> e, trashed |-> FALSE,
              body |-> dto.body, tr |-> None]
  IN
    /\ writing[e] = Nothing
    /\ dto.body # None /\ nextResponse <= MaxResponses
    /\ responses' = Put(responses, nextResponse, row) /\ nextResponse' = nextResponse + 1
    /\ Late(nextResponse, row)
    /\ IF dto.tr = None THEN UNCHANGED writing ELSE Then(e, "translating", nextResponse, None, dto.tr)
    /\ UNCHANGED <<shelfTables, messages, behind>>

(* Nothing asks whether the row is an automatic message.                   *)
UpdateCannedResponse(e, r, dto) ==
  LET row == [responses[r] EXCEPT !.body = Given(dto.body, @), !.shelf = Given(dto.shelf, @)] IN
    /\ writing[e] = Nothing
    /\ responses' = [responses EXCEPT ![r] = row]
    /\ Late(r, row)
    /\ behind' = behind \cup ({responses[r].trigger} \ {None})
    /\ IF dto.tr = None THEN UNCHANGED writing ELSE Then(e, "translating", r, None, dto.tr)
    /\ UNCHANGED <<shelfTables, nextResponse, messages>>

(* The check for a trigger comes first; it never changes.                  *)
TrashCannedResponse(r) ==
  /\ responses[r].trigger = None
  /\ SetTrashed({r}, TRUE)
  /\ latecomers' = latecomers \ {r}
  /\ UNCHANGED <<shelfTables, nextResponse, writing, messages, behind>>

RestoreCannedResponses(ids) ==
  /\ SetTrashed(ids, FALSE)
  /\ latecomers' = latecomers \cup {r \in ids : responses[r].shelf \in DOMAIN shelves
                                                /\ shelves[responses[r].shelf]}
  /\ UNCHANGED <<shelfTables, nextResponse, writing, messages, behind>>

DeleteCannedResponses(ids) ==
  RemoveResponses({r \in ids : responses[r].trigger = None}) /\ UNCHANGED shelfTables

-----------------------------------------------------------------------------
(* Automatic messages.                                                     *)
UpdateAutoMessageDto == [body : Texts, tr : Texts \cup {None}]

Place(t) == CHOOSE n \in DOMAIN AutoTriggers : AutoTriggers[n] = t

(* Two first writes of one trigger: the unique index rejects the later, as *)
(* an upsert finds the row that is there.                                  *)
UpsertRow(e, t, dto, then) ==
  LET r == IF AutoRows(t) = {} THEN nextResponse ELSE CHOOSE r \in AutoRows(t) : TRUE IN
    /\ writing[e] = Nothing
    /\ r <= MaxResponses
    /\ IF AutoRows(t) = {}
       THEN /\ responses' = Put(responses, r, [trigger |-> t, shelf |-> 0, author |-> e,
                                               trashed |-> FALSE, body |-> dto.body, tr |-> None])
            /\ nextResponse' = nextResponse + 1
       ELSE responses' = [responses EXCEPT ![r].body = dto.body] /\ UNCHANGED nextResponse
    /\ Then(e, IF dto.tr = None THEN then ELSE "translating", r, t, dto.tr)
    /\ UNCHANGED <<shelfTables, messages, behind, latecomers>>

UpsertUncached(e, t, dto) == UpsertRow(e, t, [dto EXCEPT !.tr = None], "idle")
UpsertAutoMessage(e, t, dto) == UpsertRow(e, t, dto, "refreshing")

(* The translation of either kind of row; the row may be gone by now.      *)
UpsertTranslation(e) ==
  LET w == writing[e] IN
    /\ w.at = "translating" /\ w.id \in DOMAIN responses
    /\ responses' = [responses EXCEPT ![w.id].tr = w.tr]
    /\ behind' = IF w.trigger = None THEN behind \cup ({responses[w.id].trigger} \ {None}) ELSE behind
    /\ writing' = [writing EXCEPT ![e] =
         IF w.trigger = None THEN Nothing ELSE [w EXCEPT !.at = "refreshing"]]
    /\ UNCHANGED <<shelfTables, nextResponse, messages, latecomers>>

(* invalidateAutoMessageCache: one message is read, and stored.            *)
ReadMessage(e) ==
  /\ writing[e].at = "refreshing"
  /\ writing' = [writing EXCEPT ![e].at = "read", ![e].read = AutoMessage(AutoTriggers[writing[e].n])]
  /\ UNCHANGED <<shelfTables, responseTables, messages, behind, latecomers>>

StoreMessage(e) ==
  LET w == writing[e]  t == AutoTriggers[w.n] IN
    /\ w.at = "read"
    /\ messages' = [messages EXCEPT ![t] = w.read]
    /\ behind' = IF w.read = AutoMessage(t) THEN behind \ {t} ELSE behind \cup {t}
    /\ writing' = [writing EXCEPT ![e] =
         IF w.n = Len(AutoTriggers) THEN Nothing
         ELSE [w EXCEPT !.at = "refreshing", !.n = @ + 1, !.read = None]]
    /\ UNCHANGED <<shelfTables, responseTables, latecomers>>

(* A command is rejected: the rest of the request is left undone.          *)
Break(e) ==
  LET w == writing[e] IN
    /\ w.at \in {"translating", "refreshing"}
    /\ writing' = [writing EXCEPT ![e] = Nothing]
    /\ behind' = IF w.trigger # None /\ w.n <= Place(w.trigger) THEN behind \cup {w.trigger} ELSE behind
    /\ UNCHANGED <<shelfTables, responseTables, messages, latecomers>>

(* onModuleInit fills the cache before the first request.                  *)
Boot ==
  /\ writing' = [e \in Authors |-> Nothing]
  /\ messages' = [t \in TriggerSet |-> AutoMessage(t)]
  /\ behind' = {}
  /\ UNCHANGED <<shelfTables, responseTables, latecomers>>

CategoryRoutesOfResponses ==
  \/ CreateCategoryOfResponses
  \/ \E k \in DOMAIN shelves : TrashCategory(k)
  \/ \E ids \in (SUBSET DOMAIN shelves) \ {{}} : RestoreCategories(ids) \/ DeleteCategories(ids)

ResponseRoutes(e) ==
  \/ \E dto \in CannedResponseDto :
       CreateCannedResponse(e, dto) \/ \E r \in DOMAIN responses : UpdateCannedResponse(e, r, dto)
  \/ \E t \in TriggerSet, dto \in UpdateAutoMessageDto : UpsertAutoMessage(e, t, dto)

TrashRoutes ==
  \/ \E r \in DOMAIN responses : TrashCannedResponse(r)
  \/ \E ids \in (SUBSET DOMAIN responses) \ {{}} :
       RestoreCannedResponses(ids) \/ DeleteCannedResponses(ids)

LibraryNext ==
  \/ CategoryRoutesOfResponses \/ TrashRoutes \/ Boot
  \/ \E e \in Authors :
       \/ ResponseRoutes(e) \/ DeleteAccount(e)
       \/ UpsertTranslation(e) \/ ReadMessage(e) \/ StoreMessage(e) \/ Break(e)

LibrarySpec == LibraryInit /\ [][LibraryNext]_libraryVars

-----------------------------------------------------------------------------
(* Whoever has changed an automatic message is going to refresh it, or the *)
(* gateway sends what the table has.  What leaves the cache behind for     *)
(* good is a request that breaks off, the other route to the row, a        *)
(* cascade, or a refresh that stores what it has read before a change.     *)
Refreshes(e, t) ==
  LET w == writing[e] IN
    /\ w.trigger # None
    /\ \/ w.at \in {"translating", "refreshing"} /\ w.n <= Place(t)
       \/ w.at = "read" /\ w.n < Place(t)
       \/ w.at = "read" /\ w.n = Place(t) /\ w.read = AutoMessage(t)

AutoMessagesCatchUp ==
  \A t \in TriggerSet \ behind :
    messages[t] = AutoMessage(t) \/ \E e \in Authors : Refreshes(e, t)

(* No operator is offered a response of a trashed category, unless it was  *)
(* made, moved or restored there after the category was trashed.           *)
ResponsesFollowCategory ==
  \A r \in DOMAIN responses \ latecomers :
    ~responses[r].trashed /\ responses[r].shelf \in DOMAIN shelves => ~shelves[responses[r].shelf]
=============================================================================
