----------------------------- MODULE ChatOfficeProofs -----------------------------
(***************************************************************************)
(* Proofs about what the chat keeps besides its conversations, for any     *)
(* number of rows, requests, triggers and sockets: the automatic messages  *)
(* are sent as their table has them, responses follow their category, the  *)
(* history shows how the mail of a contact form went, an export loses      *)
(* nothing, operators are online as their tabs are, and chats are about to *)
(* be closed as their visitors' pages are gone.                            *)
(***************************************************************************)
EXTENDS CannedResponses, ChatArchive, ChatPresence, FiniteSetTheorems, WellFoundedInduction, TLAPS

Text == Texts \cup {None}
ResponseType ==
  [trigger : TriggerSet \cup {None}, shelf : Nat, author : Authors, trashed : BOOLEAN,
   body : Text, tr : Text]
WritingType ==
  [at : {"idle", "translating", "refreshing", "read"}, id : Nat, trigger : TriggerSet \cup {None},
   tr : Text, n : Nat, read : (Text \X Text) \cup {None}]

LibraryTypeOK ==
  /\ shelves \in [DOMAIN shelves -> BOOLEAN] /\ DOMAIN shelves \subseteq 1 .. nextShelf - 1
  /\ responses \in [DOMAIN responses -> ResponseType]
  /\ DOMAIN responses \subseteq 1 .. nextResponse - 1
  /\ nextShelf \in Nat \ {0} /\ nextResponse \in Nat \ {0}
  /\ writing \in [Authors -> WritingType]
  /\ messages \in [TriggerSet -> (Text \X Text) \cup {None}]

(* A refresh is at one of the triggers; a translation is of the row that   *)
(* the request has written, whose id no other row has ever had.            *)
WritersKnow ==
  \A e \in Authors :
    /\ writing[e].at = "translating" => writing[e].n = 1
    /\ writing[e].at \in {"refreshing", "read"} => writing[e].n \in DOMAIN AutoTriggers
    /\ writing[e].at = "translating" /\ writing[e].trigger # None =>
         /\ writing[e].id < nextResponse
         /\ writing[e].id \in DOMAIN responses =>
              responses[writing[e].id].trigger = writing[e].trigger

(* Whoever has changed the message of a trigger is the one who refreshes   *)
(* it; that others on their way pass by that trigger does not count, as    *)
(* they may break off.                                                     *)
Mends(e, t) == writing[e].trigger = t /\ Refreshes(e, t)

CacheMended ==
  \A t \in TriggerSet \ behind : messages[t] = AutoMessage(t) \/ \E e \in Authors : Mends(e, t)

LibraryInv == LibraryTypeOK /\ WritersKnow /\ CacheMended /\ ResponsesFollowCategory

-----------------------------------------------------------------------------
(* Places of triggers and the message of one.                              *)
LEMMA PlaceIsThere ==
  ASSUME NEW t \in TriggerSet
  PROVE  Place(t) \in DOMAIN AutoTriggers /\ AutoTriggers[Place(t)] = t /\ t # None
<1>1. \E n \in DOMAIN AutoTriggers : AutoTriggers[n] = t
  BY DEF TriggerSet
<1> QED
  BY <1>1, TriggersAreListed, Zenon DEF Place

LEMMA TriggerPlaces ==
  /\ DOMAIN AutoTriggers = 1 .. Len(AutoTriggers) /\ Len(AutoTriggers) \in Nat
  /\ \A n \in DOMAIN AutoTriggers : AutoTriggers[n] \in TriggerSet
BY TriggersAreListed DEF TriggerSet

LEMMA MessageTyped ==
  ASSUME LibraryTypeOK, NEW t
  PROVE  AutoMessage(t) \in Text \X Text
<1>1. CASE AutoRows(t) = {}
  BY <1>1 DEF AutoMessage, Text
<1>2. CASE AutoRows(t) # {}
  <2> DEFINE r == CHOOSE r \in AutoRows(t) : TRUE
  <2>1. r \in AutoRows(t)
    BY <1>2, Zenon
  <2>2. AutoMessage(t) = <<responses[r].body, responses[r].tr>>
    BY <1>2 DEF AutoMessage
  <2> HIDE DEF r
  <2>3. responses[r] \in ResponseType
    BY <2>1 DEF AutoRows, LibraryTypeOK
  <2> QED
    BY <2>2, <2>3 DEF ResponseType
<1> QED
  BY <1>1, <1>2

LEMMA MessageStays ==
  ASSUME NEW t, AutoRows(t)' = AutoRows(t),
         \A r \in AutoRows(t) :
           responses'[r].body = responses[r].body /\ responses'[r].tr = responses[r].tr
  PROVE  AutoMessage(t)' = AutoMessage(t)
<1>1. CASE AutoRows(t) = {}
  BY <1>1 DEF AutoMessage
<1>2. CASE AutoRows(t) # {}
  <2> DEFINE r == CHOOSE r \in AutoRows(t) : TRUE
  <2>1. r \in AutoRows(t)
    BY <1>2, Zenon
  <2>2. (CHOOSE x \in AutoRows(t)' : TRUE) = r
    OBVIOUS
  <2>3. AutoMessage(t) = <<responses[r].body, responses[r].tr>>
    BY <1>2 DEF AutoMessage
  <2>4. AutoMessage(t)' = <<responses'[r].body, responses'[r].tr>>
    BY <1>2, <2>2 DEF AutoMessage
  <2> HIDE DEF r
  <2> QED
    BY <2>1, <2>3, <2>4
<1> QED
  BY <1>1, <1>2

(* The cache, when no request that was on its way has done anything.       *)
LEMMA CacheStep ==
  ASSUME CacheMended, UNCHANGED messages, behind \subseteq behind',
         \A e \in Authors : writing'[e] = writing[e] \/ writing[e].trigger = None,
         \A t \in TriggerSet \ behind' :
           AutoMessage(t)' = AutoMessage(t) \/ \E e \in Authors : Mends(e, t)'
  PROVE  CacheMended'
<1>1. ASSUME NEW t \in TriggerSet, t \notin behind', AutoMessage(t)' = AutoMessage(t)
      PROVE  messages'[t] = AutoMessage(t)' \/ \E e \in Authors : Mends(e, t)'
  <2>1. CASE messages[t] = AutoMessage(t)
    BY <1>1, <2>1
  <2>2. ASSUME NEW e \in Authors, Mends(e, t) PROVE Mends(e, t)'
    <3>1. writing'[e] = writing[e]
      BY <2>2 DEF Mends, Refreshes
    <3> QED
      BY <1>1, <2>2, <3>1 DEF Mends, Refreshes
  <2> QED
    BY <1>1, <2>1, <2>2 DEF CacheMended
<1> QED
  BY <1>1 DEF CacheMended

-----------------------------------------------------------------------------
(* What the steps of a library do to it.                                   *)
LEMMA LibraryStart == LibraryInit => LibraryInv
<1> SUFFICES ASSUME LibraryInit PROVE LibraryInv
  OBVIOUS
<1>1. DOMAIN shelves = {} /\ DOMAIN responses = {}
  BY DEF LibraryInit
<1>2. Nothing \in WritingType
  BY DEF Nothing, WritingType, Text
<1>3. LibraryTypeOK
  BY <1>1, <1>2 DEF LibraryInit, LibraryTypeOK, Text
<1>4. WritersKnow
  BY DEF LibraryInit, WritersKnow, Nothing
<1>5. CacheMended
  <2>1. \A t \in TriggerSet : AutoMessage(t) = <<None, None>>
    BY <1>1 DEF AutoMessage, AutoRows
  <2> QED
    BY <2>1 DEF LibraryInit, CacheMended
<1> QED
  BY <1>1, <1>3, <1>4, <1>5 DEF LibraryInv, ResponsesFollowCategory

(* The rows of a trigger, when rows are only changed in what they say.     *)
LEMMA RowsTrashed ==
  ASSUME LibraryInv, NEW ids, NEW trashed \in BOOLEAN, SetTrashed(ids, trashed),
         UNCHANGED <<nextResponse, writing, messages, behind>>
  PROVE  /\ DOMAIN responses' = DOMAIN responses
         /\ \A r \in DOMAIN responses :
              /\ responses'[r].shelf = responses[r].shelf
              /\ responses'[r].trashed = IF r \in ids THEN trashed ELSE responses[r].trashed
         /\ responses' \in [DOMAIN responses' -> ResponseType]
         /\ WritersKnow' /\ CacheMended'
<1>1. DOMAIN responses' = DOMAIN responses
  BY DEF SetTrashed
<1>2. ASSUME NEW r \in DOMAIN responses
      PROVE  /\ responses'[r] \in ResponseType
             /\ responses'[r].trigger = responses[r].trigger
             /\ responses'[r].shelf = responses[r].shelf
             /\ responses'[r].body = responses[r].body /\ responses'[r].tr = responses[r].tr
             /\ responses'[r].trashed = IF r \in ids THEN trashed ELSE responses[r].trashed
  <2>1. responses[r] \in ResponseType
    BY DEF LibraryInv, LibraryTypeOK
  <2>2. responses'[r] =
          IF r \in ids THEN [responses[r] EXCEPT !.trashed = trashed] ELSE responses[r]
    BY DEF SetTrashed
  <2> QED
    BY <2>1, <2>2 DEF ResponseType
<1>3. responses' \in [DOMAIN responses' -> ResponseType]
  BY <1>1, <1>2 DEF SetTrashed
<1>4. ASSUME NEW t PROVE AutoMessage(t)' = AutoMessage(t)
  <2>1. AutoRows(t)' = AutoRows(t)
    BY <1>1, <1>2 DEF AutoRows
  <2> QED
    BY <2>1, <1>2, MessageStays DEF AutoRows
<1>5. CacheMended'
  <2>1. CacheMended
    BY DEF LibraryInv
  <2> QED
    BY <1>4, <2>1, CacheStep
<1>6. WritersKnow'
  BY <1>1, <1>2 DEF LibraryInv, WritersKnow
<1> QED
  BY <1>1, <1>2, <1>3, <1>5, <1>6

LEMMA RowsRemoved ==
  ASSUME LibraryInv, NEW ids, RemoveResponses(ids), UNCHANGED nextShelf,
         DOMAIN shelves' \subseteq DOMAIN shelves, shelves' \in [DOMAIN shelves' -> BOOLEAN],
         \A k \in DOMAIN shelves' : shelves'[k] = shelves[k]
  PROVE  LibraryInv'
<1>1. /\ DOMAIN responses' = DOMAIN responses \ ids
      /\ \A r \in DOMAIN responses' : responses'[r] = responses[r]
  BY DEF RemoveResponses, Only
<1>2. LibraryTypeOK'
  <2>1. responses' \in [DOMAIN responses' -> ResponseType]
    BY <1>1 DEF RemoveResponses, Only, LibraryInv, LibraryTypeOK
  <2> QED
    BY <1>1, <2>1 DEF RemoveResponses, LibraryInv, LibraryTypeOK
<1>3. WritersKnow'
  BY <1>1 DEF RemoveResponses, LibraryInv, WritersKnow
<1>4. CacheMended'
  <2>1. ASSUME NEW t \in TriggerSet \ behind' PROVE AutoMessage(t)' = AutoMessage(t)
    <3>1. AutoRows(t) \cap ids = {}
      BY DEF RemoveResponses
    <3>2. AutoRows(t)' = AutoRows(t)
      BY <1>1, <3>1 DEF AutoRows
    <3> QED
      BY <1>1, <3>1, <3>2, MessageStays DEF AutoRows
  <2>2. CacheMended
    BY DEF LibraryInv
  <2>3. behind \subseteq behind' /\ UNCHANGED <<writing, messages>>
    BY DEF RemoveResponses
  <2> QED
    BY <2>1, <2>2, <2>3, CacheStep
<1>5. ResponsesFollowCategory'
  BY <1>1 DEF RemoveResponses, LibraryInv, ResponsesFollowCategory
<1> QED
  BY <1>2, <1>3, <1>4, <1>5 DEF LibraryInv

LEMMA CategoriesKeep ==
  ASSUME LibraryInv, CategoryRoutesOfResponses
  PROVE  LibraryInv'
<1> USE DEF LibraryInv
<1>1. CASE CreateCategoryOfResponses
  <2>1. nextShelf \notin DOMAIN shelves
    BY DEF LibraryTypeOK
  <2>2. LibraryTypeOK'
    <3>1. /\ DOMAIN shelves' = DOMAIN shelves \cup {nextShelf}
          /\ shelves' \in [DOMAIN shelves' -> BOOLEAN]
      BY <1>1 DEF CreateCategoryOfResponses, Put, LibraryTypeOK
    <3>2. nextShelf' = nextShelf + 1 /\ nextShelf \in Nat \ {0}
      BY <1>1 DEF CreateCategoryOfResponses, LibraryTypeOK
    <3>3. \A k \in DOMAIN shelves : k \in 1 .. nextShelf - 1
      BY DEF LibraryTypeOK
    <3>4. \A k \in DOMAIN shelves' : k \in 1 .. nextShelf' - 1
      BY <3>1, <3>2, <3>3
    <3>5. UNCHANGED <<responses, nextResponse, writing, messages>>
      BY <1>1 DEF CreateCategoryOfResponses, responseTables
    <3> QED
      BY <3>1, <3>2, <3>5, <3>4 DEF LibraryTypeOK
  <2>3. WritersKnow'
    BY <1>1 DEF CreateCategoryOfResponses, responseTables, WritersKnow
  <2>4. CacheMended'
    <3>1. \A t : AutoMessage(t)' = AutoMessage(t)
      BY <1>1, MessageStays DEF CreateCategoryOfResponses, responseTables, AutoRows
    <3> QED
      BY <1>1, <3>1, CacheStep DEF CreateCategoryOfResponses
  <2>5. ResponsesFollowCategory'
    BY <1>1 DEF CreateCategoryOfResponses, responseTables, Put, ResponsesFollowCategory
  <2> QED
    BY <2>2, <2>3, <2>4, <2>5
<1>2. ASSUME NEW k \in DOMAIN shelves, TrashCategory(k) PROVE LibraryInv'
  <2>1. SetTrashed(Under({k}), TRUE) /\ UNCHANGED <<nextResponse, writing, messages, behind>>
    BY <1>2 DEF TrashCategory
  <2>2. /\ DOMAIN shelves' = DOMAIN shelves /\ shelves' \in [DOMAIN shelves' -> BOOLEAN]
        /\ \A j \in DOMAIN shelves : shelves'[j] = IF j = k THEN TRUE ELSE shelves[j]
        /\ nextShelf' = nextShelf
    BY <1>2 DEF TrashCategory, LibraryTypeOK
  <2>3. /\ DOMAIN responses' = DOMAIN responses
        /\ \A r \in DOMAIN responses :
              /\ responses'[r].shelf = responses[r].shelf
              /\ responses'[r].trashed = IF r \in Under({k}) THEN TRUE ELSE responses[r].trashed
        /\ responses' \in [DOMAIN responses' -> ResponseType]
        /\ WritersKnow' /\ CacheMended'
    BY <2>1, RowsTrashed
  <2>4. LibraryTypeOK'
    BY <2>1, <2>2, <2>3 DEF LibraryTypeOK
  <2>5. ResponsesFollowCategory'
    BY <1>2, <2>2, <2>3 DEF TrashCategory, Under, ResponsesFollowCategory
  <2> QED
    BY <2>3, <2>4, <2>5
<1>3. ASSUME NEW ids \in SUBSET DOMAIN shelves, RestoreCategories(ids) PROVE LibraryInv'
  <2>1. SetTrashed(Under(ids), FALSE) /\ UNCHANGED <<nextResponse, writing, messages, behind>>
    BY <1>3 DEF RestoreCategories
  <2>2. /\ DOMAIN shelves' = DOMAIN shelves /\ shelves' \in [DOMAIN shelves' -> BOOLEAN]
        /\ \A j \in DOMAIN shelves : shelves'[j] = (shelves[j] /\ j \notin ids)
        /\ nextShelf' = nextShelf
    BY <1>3 DEF RestoreCategories, LibraryTypeOK
  <2>3. /\ DOMAIN responses' = DOMAIN responses
        /\ \A r \in DOMAIN responses :
              /\ responses'[r].shelf = responses[r].shelf
              /\ responses'[r].trashed = IF r \in Under(ids) THEN FALSE ELSE responses[r].trashed
        /\ responses' \in [DOMAIN responses' -> ResponseType]
        /\ WritersKnow' /\ CacheMended'
    BY <2>1, RowsTrashed
  <2>4. LibraryTypeOK'
    BY <2>1, <2>2, <2>3 DEF LibraryTypeOK
  <2>5. ResponsesFollowCategory'
    BY <1>3, <2>2, <2>3 DEF RestoreCategories, Under, ResponsesFollowCategory
  <2> QED
    BY <2>3, <2>4, <2>5
<1>4. ASSUME NEW ids, DeleteCategories(ids) PROVE LibraryInv'
  <2>1. /\ DOMAIN shelves' = DOMAIN shelves \ ids /\ shelves' \in [DOMAIN shelves' -> BOOLEAN]
        /\ \A k \in DOMAIN shelves' : shelves'[k] = shelves[k]
    BY <1>4 DEF DeleteCategories, Only, LibraryTypeOK
  <2> QED
    BY <1>4, <2>1, RowsRemoved DEF DeleteCategories
<1> QED
  BY <1>1, <1>2, <1>3, <1>4 DEF CategoryRoutesOfResponses

LEMMA TrashKeeps ==
  ASSUME LibraryInv, TrashRoutes
  PROVE  LibraryInv'
<1>1. ASSUME NEW ids \in SUBSET DOMAIN responses, NEW trashed \in BOOLEAN,
             SetTrashed(ids, trashed),
             UNCHANGED <<shelfTables, nextResponse, writing, messages, behind>>,
             \A r \in DOMAIN responses \ latecomers' :
               IF r \in ids
               THEN trashed \/ (responses[r].shelf \in DOMAIN shelves => ~shelves[responses[r].shelf])
               ELSE r \notin latecomers
      PROVE  LibraryInv'
  <2>1. UNCHANGED <<nextResponse, writing, messages, behind>> /\ UNCHANGED <<shelves, nextShelf>>
    BY <1>1 DEF shelfTables
  <2>2. /\ DOMAIN responses' = DOMAIN responses
        /\ \A r \in DOMAIN responses :
              /\ responses'[r].shelf = responses[r].shelf
              /\ responses'[r].trashed = IF r \in ids THEN trashed ELSE responses[r].trashed
        /\ responses' \in [DOMAIN responses' -> ResponseType]
        /\ WritersKnow' /\ CacheMended'
    BY <1>1, <2>1, RowsTrashed
  <2>3. LibraryTypeOK'
    BY <2>1, <2>2 DEF LibraryInv, LibraryTypeOK
  <2>4. ResponsesFollowCategory'
    BY <1>1, <2>1, <2>2 DEF LibraryInv, ResponsesFollowCategory
  <2> QED
    BY <2>2, <2>3, <2>4 DEF LibraryInv
<1>2. ASSUME NEW r \in DOMAIN responses, TrashCannedResponse(r) PROVE LibraryInv'
  BY <1>1, <1>2 DEF TrashCannedResponse
<1>3. ASSUME NEW ids \in SUBSET DOMAIN responses, RestoreCannedResponses(ids) PROVE LibraryInv'
  BY <1>1, <1>3 DEF RestoreCannedResponses
<1>4. ASSUME NEW ids, DeleteCannedResponses(ids) PROVE LibraryInv'
  <2>1. UNCHANGED <<shelves, nextShelf>>
    BY <1>4 DEF DeleteCannedResponses, shelfTables
  <2> QED
    BY <1>4, <2>1, RowsRemoved DEF DeleteCannedResponses, LibraryInv, LibraryTypeOK
<1> QED
  BY <1>2, <1>3, <1>4 DEF TrashRoutes

LEMMA AccountsKeep ==
  ASSUME LibraryInv, NEW e, DeleteAccount(e)
  PROVE  LibraryInv'
<1>1. UNCHANGED <<shelves, nextShelf>>
  BY DEF DeleteAccount, shelfTables
<1> QED
  BY <1>1, RowsRemoved DEF DeleteAccount, LibraryInv, LibraryTypeOK

(* What a request has still to do once it has written its row.             *)
LEMMA ThenStarts ==
  ASSUME LibraryTypeOK, NEW e \in Authors, NEW at \in {"idle", "translating", "refreshing"},
         NEW r \in Nat, NEW t \in TriggerSet \cup {None}, NEW tr \in Text, Then(e, at, r, t, tr)
  PROVE  /\ writing' \in [Authors -> WritingType]
         /\ \A q \in Authors : q # e => writing'[q] = writing[q]
         /\ at = "idle" => writing'[e] = Nothing
         /\ at # "idle" =>
              /\ writing'[e].at = at /\ writing'[e].id = r /\ writing'[e].trigger = t
              /\ writing'[e].n = 1
<1> DEFINE x == [Nothing EXCEPT !.at = at, !.id = r, !.trigger = t, !.tr = tr, !.n = 1]
<1> DEFINE w == IF at = "idle" THEN Nothing ELSE x
<1>1. Nothing \in WritingType
  BY DEF Nothing, WritingType, Text
<1>2. x \in WritingType /\ x.at = at /\ x.id = r /\ x.trigger = t /\ x.n = 1
  BY <1>1 DEF WritingType
<1>3. writing' = [writing EXCEPT ![e] = w]
  BY DEF Then
<1> HIDE DEF x
<1>4. w \in WritingType
  BY <1>1, <1>2
<1> HIDE DEF w
<1>5. writing' \in [Authors -> WritingType] /\ \A q \in Authors : q # e => writing'[q] = writing[q]
  BY <1>3, <1>4 DEF LibraryTypeOK
<1>6. writing'[e] = w
  BY <1>3 DEF LibraryTypeOK
<1> QED
  BY <1>2, <1>5, <1>6 DEF w

(* A row that none has had before, of a trigger or of none.                *)
LEMMA RowMade ==
  ASSUME LibraryTypeOK, NEW row \in ResponseType,
         responses' = Put(responses, nextResponse, row), nextResponse' = nextResponse + 1
  PROVE  /\ nextResponse \notin DOMAIN responses /\ nextResponse' \in Nat \ {0}
         /\ responses' \in [DOMAIN responses' -> ResponseType]
         /\ DOMAIN responses' = DOMAIN responses \cup {nextResponse}
         /\ DOMAIN responses' \subseteq 1 .. nextResponse' - 1
         /\ responses'[nextResponse] = row
         /\ \A r \in DOMAIN responses : responses'[r] = responses[r]
         /\ \A t : t # row.trigger => AutoMessage(t)' = AutoMessage(t)
<1>1. nextResponse \notin DOMAIN responses /\ nextResponse' \in Nat \ {0}
  BY DEF LibraryTypeOK
<1>2. DOMAIN responses' = DOMAIN responses \cup {nextResponse}
  BY DEF Put
<1>3. responses'[nextResponse] = row /\ \A r \in DOMAIN responses : responses'[r] = responses[r]
  BY <1>1 DEF Put
<1>4. DOMAIN responses' \subseteq 1 .. nextResponse' - 1
  BY <1>2 DEF LibraryTypeOK
<1>5. responses' \in [DOMAIN responses' -> ResponseType]
  <2>1. \A r \in DOMAIN responses' : responses'[r] \in ResponseType
    BY <1>2, <1>3 DEF LibraryTypeOK
  <2> QED
    BY <2>1 DEF Put
<1>6. ASSUME NEW t, t # row.trigger PROVE AutoMessage(t)' = AutoMessage(t)
  <2>1. AutoRows(t)' = AutoRows(t)
    BY <1>1, <1>2, <1>3, <1>6 DEF AutoRows
  <2> QED
    BY <1>3, <2>1, MessageStays DEF AutoRows
<1> QED
  BY <1>1, <1>2, <1>3, <1>4, <1>5, <1>6

(* A row that stays of its trigger.                                        *)
LEMMA RowChanged ==
  ASSUME LibraryTypeOK, NEW r \in DOMAIN responses, NEW row \in ResponseType,
         row.trigger = responses[r].trigger, responses' = [responses EXCEPT ![r] = row]
  PROVE  /\ responses' \in [DOMAIN responses' -> ResponseType]
         /\ DOMAIN responses' = DOMAIN responses
         /\ responses'[r] = row
         /\ \A q \in DOMAIN responses : q # r => responses'[q] = responses[q]
         /\ \A q \in DOMAIN responses : responses'[q].trigger = responses[q].trigger
         /\ \A t : t # row.trigger => AutoMessage(t)' = AutoMessage(t)
<1>1. DOMAIN responses' = DOMAIN responses
  OBVIOUS
<1>2. responses'[r] = row /\ \A q \in DOMAIN responses : q # r => responses'[q] = responses[q]
  OBVIOUS
<1>3. responses' \in [DOMAIN responses' -> ResponseType]
  BY <1>1, <1>2 DEF LibraryTypeOK
<1>4. \A q \in DOMAIN responses : responses'[q].trigger = responses[q].trigger
  BY <1>2
<1>5. ASSUME NEW t, t # row.trigger PROVE AutoMessage(t)' = AutoMessage(t)
  <2>1. AutoRows(t)' = AutoRows(t)
    BY <1>1, <1>4 DEF AutoRows
  <2> QED
    BY <1>2, <1>5, <2>1, MessageStays DEF AutoRows
<1> QED
  BY <1>1, <1>2, <1>3, <1>4, <1>5

(* The writers, when one of them has begun a request, or none has, and no  *)
(* row has changed its trigger.                                            *)
LEMMA WritersStep ==
  ASSUME LibraryTypeOK, WritersKnow, NEW e \in Authors,
         nextResponse' \in Nat, nextResponse <= nextResponse',
         DOMAIN responses' \subseteq DOMAIN responses \cup {nextResponse},
         \A r \in DOMAIN responses : r \in DOMAIN responses' =>
           responses'[r].trigger = responses[r].trigger,
         \A q \in Authors : q # e => writing'[q] = writing[q],
         \/ writing'[e] = writing[e]
         \/ writing'[e].at = "idle"
         \/ writing'[e].at = "refreshing" /\ writing'[e].n \in DOMAIN AutoTriggers
         \/ /\ writing'[e].at = "translating" /\ writing'[e].n = 1
            /\ writing'[e].trigger # None =>
                 /\ writing'[e].id < nextResponse'
                 /\ writing'[e].id \in DOMAIN responses' =>
                      responses'[writing'[e].id].trigger = writing'[e].trigger
  PROVE  WritersKnow'
<1>1. ASSUME NEW q \in Authors, writing'[q] = writing[q]
      PROVE  /\ writing'[q].at = "translating" => writing'[q].n = 1
             /\ writing'[q].at \in {"refreshing", "read"} => writing'[q].n \in DOMAIN AutoTriggers
             /\ writing'[q].at = "translating" /\ writing'[q].trigger # None =>
                 /\ writing'[q].id < nextResponse'
                 /\ writing'[q].id \in DOMAIN responses' =>
                      responses'[writing'[q].id].trigger = writing'[q].trigger
  <2>1. writing[q].id \in Nat /\ nextResponse \in Nat
    BY DEF LibraryTypeOK, WritingType
  <2>2. writing[q].id < nextResponse => writing[q].id # nextResponse /\ writing[q].id < nextResponse'
    BY <2>1
  <2> QED
    BY <1>1, <2>2 DEF WritersKnow
<1> QED
  BY <1>1 DEF WritersKnow

LEMMA CreateKeeps ==
  ASSUME LibraryInv, NEW e \in Authors, NEW dto \in CannedResponseDto, CreateCannedResponse(e, dto)
  PROVE  LibraryInv'
<1> USE DEF LibraryInv
<1> DEFINE row == [trigger |-> None, shelf |-> Given(dto.shelf, 0), author |-> e, trashed |-> FALSE,
                   body |-> dto.body, tr |-> None]
<1>1. dto.shelf \in DOMAIN shelves \cup {0, None} /\ dto.body \in Text /\ dto.tr \in Text
  BY DEF CannedResponseDto, Text
<1>2. row \in ResponseType /\ row.trigger = None
  <2>1. DOMAIN shelves \subseteq Nat
    BY DEF LibraryTypeOK
  <2>2. Given(dto.shelf, 0) \in Nat
    BY <1>1, <2>1 DEF Given
  <2> QED
    BY <1>1, <2>2 DEF ResponseType, Text
<1>3. /\ writing[e] = Nothing /\ UNCHANGED <<messages, behind>> /\ UNCHANGED <<shelves, nextShelf>>
      /\ responses' = Put(responses, nextResponse, row) /\ nextResponse' = nextResponse + 1
      /\ Late(nextResponse, row)
      /\ IF dto.tr = None THEN UNCHANGED writing
         ELSE Then(e, "translating", nextResponse, None, dto.tr)
  BY DEF CreateCannedResponse, shelfTables
<1> HIDE DEF row
<1>4. /\ nextResponse \notin DOMAIN responses /\ nextResponse' \in Nat \ {0}
      /\ responses' \in [DOMAIN responses' -> ResponseType]
      /\ DOMAIN responses' = DOMAIN responses \cup {nextResponse}
      /\ DOMAIN responses' \subseteq 1 .. nextResponse' - 1
      /\ responses'[nextResponse] = row
      /\ \A r \in DOMAIN responses : responses'[r] = responses[r]
      /\ \A t : t # row.trigger => AutoMessage(t)' = AutoMessage(t)
  BY <1>2, <1>3, RowMade
<1>5. /\ writing' \in [Authors -> WritingType]
      /\ \A q \in Authors : q # e => writing'[q] = writing[q]
      /\ \/ writing'[e] = writing[e]
         \/ /\ writing'[e].at = "translating" /\ writing'[e].trigger = None
            /\ writing'[e].n = 1
  <2>1. nextResponse \in Nat
    BY DEF LibraryTypeOK
  <2>2. CASE dto.tr = None
    BY <1>3, <2>2 DEF LibraryTypeOK
  <2>3. CASE dto.tr # None
    BY <1>1, <1>3, <2>1, <2>3, ThenStarts
  <2> QED
    BY <2>2, <2>3
<1>6. LibraryTypeOK'
  BY <1>3, <1>4, <1>5 DEF LibraryTypeOK
<1>7. WritersKnow'
  <2>1. nextResponse <= nextResponse' /\ nextResponse' \in Nat
    BY <1>3, <1>4 DEF LibraryTypeOK
  <2> QED
    BY <1>4, <1>5, <2>1, WritersStep
<1>8. CacheMended'
  <2>1. \A t \in TriggerSet : AutoMessage(t)' = AutoMessage(t)
    BY <1>2, <1>4, PlaceIsThere
  <2>2. \A q \in Authors : writing'[q] = writing[q] \/ writing[q].trigger = None
    BY <1>3, <1>5 DEF Nothing
  <2> QED
    BY <1>3, <2>1, <2>2, CacheStep
<1>9. ResponsesFollowCategory'
  BY <1>3, <1>4 DEF Late, ResponsesFollowCategory
<1> QED
  BY <1>6, <1>7, <1>8, <1>9

LEMMA UpdateKeeps ==
  ASSUME LibraryInv, NEW e \in Authors, NEW dto \in CannedResponseDto,
         NEW r \in DOMAIN responses, UpdateCannedResponse(e, r, dto)
  PROVE  LibraryInv'
<1> USE DEF LibraryInv
<1> DEFINE row == [responses[r] EXCEPT !.body = Given(dto.body, @), !.shelf = Given(dto.shelf, @)]
<1>1. dto.shelf \in DOMAIN shelves \cup {0, None} /\ dto.body \in Text /\ dto.tr \in Text
  BY DEF CannedResponseDto, Text
<1>2. row \in ResponseType /\ row.trigger = responses[r].trigger
  <2>1. DOMAIN shelves \subseteq Nat /\ responses[r] \in ResponseType
    BY DEF LibraryTypeOK
  <2>2. Given(dto.shelf, responses[r].shelf) \in Nat /\ Given(dto.body, responses[r].body) \in Text
    BY <1>1, <2>1 DEF Given, ResponseType
  <2> QED
    BY <2>1, <2>2 DEF ResponseType
<1>3. /\ writing[e] = Nothing /\ UNCHANGED messages /\ UNCHANGED <<shelves, nextShelf>>
      /\ responses' = [responses EXCEPT ![r] = row] /\ nextResponse' = nextResponse
      /\ Late(r, row) /\ behind' = behind \cup ({responses[r].trigger} \ {None})
      /\ IF dto.tr = None THEN UNCHANGED writing ELSE Then(e, "translating", r, None, dto.tr)
  BY DEF UpdateCannedResponse, shelfTables
<1> HIDE DEF row
<1>4. /\ responses' \in [DOMAIN responses' -> ResponseType]
      /\ DOMAIN responses' = DOMAIN responses
      /\ responses'[r] = row
      /\ \A q \in DOMAIN responses : q # r => responses'[q] = responses[q]
      /\ \A q \in DOMAIN responses : responses'[q].trigger = responses[q].trigger
      /\ \A t : t # row.trigger => AutoMessage(t)' = AutoMessage(t)
  BY <1>2, <1>3, RowChanged
<1>5. /\ writing' \in [Authors -> WritingType]
      /\ \A q \in Authors : q # e => writing'[q] = writing[q]
      /\ \/ writing'[e] = writing[e]
         \/ /\ writing'[e].at = "translating" /\ writing'[e].trigger = None
            /\ writing'[e].n = 1
  <2>1. r \in Nat
    BY DEF LibraryTypeOK
  <2>2. CASE dto.tr = None
    BY <1>3, <2>2 DEF LibraryTypeOK
  <2>3. CASE dto.tr # None
    BY <1>1, <1>3, <2>1, <2>3, ThenStarts
  <2> QED
    BY <2>2, <2>3
<1>6. LibraryTypeOK'
  BY <1>3, <1>4, <1>5 DEF LibraryTypeOK
<1>7. WritersKnow'
  <2>1. nextResponse <= nextResponse' /\ nextResponse' \in Nat
    BY <1>3, <1>4 DEF LibraryTypeOK
  <2> QED
    BY <1>4, <1>5, <2>1, WritersStep
<1>8. CacheMended'
  <2>1. \A t \in TriggerSet \ behind' : AutoMessage(t)' = AutoMessage(t)
    BY <1>2, <1>3, <1>4, PlaceIsThere
  <2>2. \A q \in Authors : writing'[q] = writing[q] \/ writing[q].trigger = None
    BY <1>3, <1>5 DEF Nothing
  <2> QED
    BY <1>3, <2>1, <2>2, CacheStep
<1>9. ResponsesFollowCategory'
  BY <1>3, <1>4 DEF Late, ResponsesFollowCategory
<1> QED
  BY <1>6, <1>7, <1>8, <1>9

LEMMA MendsStay ==
  ASSUME NEW t \in TriggerSet, NEW q \in Authors, Mends(q, t), writing'[q] = writing[q],
         AutoMessage(t)' = AutoMessage(t)
  PROVE  Mends(q, t)'
BY DEF Mends, Refreshes

LEMMA UpsertKeeps ==
  ASSUME LibraryInv, NEW e \in Authors, NEW t \in TriggerSet, NEW dto \in UpdateAutoMessageDto,
         UpsertAutoMessage(e, t, dto)
  PROVE  LibraryInv'
<1> USE DEF LibraryInv
<1> DEFINE at == IF dto.tr = None THEN "refreshing" ELSE "translating"
           old == CHOOSE r \in AutoRows(t) : TRUE
           id == IF AutoRows(t) = {} THEN nextResponse ELSE old
<1>1. /\ dto.body \in Text /\ dto.tr \in Text /\ t # None
      /\ at \in {"idle", "translating", "refreshing"} /\ at # "idle"
  BY PlaceIsThere DEF UpdateAutoMessageDto, Text
<1>2. /\ writing[e] = Nothing /\ UNCHANGED <<messages, behind, latecomers>>
      /\ UNCHANGED <<shelves, nextShelf>>
      /\ Then(e, at, id, t, dto.tr)
  BY DEF UpsertAutoMessage, UpsertRow, shelfTables
<1> HIDE DEF at
<1>3. /\ id \in Nat /\ id < nextResponse'
      /\ nextResponse' \in Nat \ {0} /\ nextResponse <= nextResponse'
      /\ responses' \in [DOMAIN responses' -> ResponseType]
      /\ DOMAIN responses' \subseteq DOMAIN responses \cup {nextResponse}
      /\ DOMAIN responses' \subseteq 1 .. nextResponse' - 1
      /\ \A r \in DOMAIN responses : r \in DOMAIN responses' =>
           /\ responses'[r].trigger = responses[r].trigger
           /\ responses'[r].shelf = responses[r].shelf
           /\ responses'[r].trashed = responses[r].trashed
      /\ \A r \in DOMAIN responses' \ DOMAIN responses : responses'[r].shelf = 0
      /\ responses'[id].trigger = t
      /\ \A u : u # t => AutoMessage(u)' = AutoMessage(u)
  <2>1. CASE AutoRows(t) = {}
    <3> DEFINE row == [trigger |-> t, shelf |-> 0, author |-> e, trashed |-> FALSE,
                       body |-> dto.body, tr |-> None]
    <3>1. row \in ResponseType /\ row.trigger = t /\ row.shelf = 0
      BY <1>1 DEF ResponseType, Text
    <3>2. responses' = Put(responses, nextResponse, row) /\ nextResponse' = nextResponse + 1
      BY <2>1 DEF UpsertAutoMessage, UpsertRow
    <3> HIDE DEF row
    <3>3. /\ nextResponse \notin DOMAIN responses /\ nextResponse' \in Nat \ {0}
          /\ responses' \in [DOMAIN responses' -> ResponseType]
          /\ DOMAIN responses' = DOMAIN responses \cup {nextResponse}
          /\ DOMAIN responses' \subseteq 1 .. nextResponse' - 1
          /\ responses'[nextResponse] = row
          /\ \A r \in DOMAIN responses : responses'[r] = responses[r]
          /\ \A u : u # row.trigger => AutoMessage(u)' = AutoMessage(u)
      BY <3>1, <3>2, RowMade
    <3>4. id = nextResponse /\ nextResponse \in Nat
      BY <2>1 DEF LibraryTypeOK
    <3> HIDE DEF id, old
    <3> QED
      BY <3>1, <3>2, <3>3, <3>4
  <2>2. CASE AutoRows(t) # {}
    <3> DEFINE row == [responses[old] EXCEPT !.body = dto.body]
    <3>1. old \in AutoRows(t) /\ id = old
      BY <2>2, Zenon
    <3>2. responses' = [responses EXCEPT ![old].body = dto.body] /\ nextResponse' = nextResponse
      BY <2>2 DEF UpsertAutoMessage, UpsertRow
    <3> HIDE DEF old, id
    <3>3. old \in DOMAIN responses /\ responses[old] \in ResponseType /\ responses[old].trigger = t
      BY <3>1 DEF AutoRows, LibraryTypeOK
    <3>4. /\ row \in ResponseType /\ row.trigger = responses[old].trigger
          /\ row.shelf = responses[old].shelf /\ row.trashed = responses[old].trashed
      BY <1>1, <3>3 DEF ResponseType
    <3>5. responses' = [responses EXCEPT ![old] = row]
      BY <3>2
    <3> HIDE DEF row
    <3>6. /\ responses' \in [DOMAIN responses' -> ResponseType]
          /\ DOMAIN responses' = DOMAIN responses
          /\ responses'[old] = row
          /\ \A q \in DOMAIN responses : q # old => responses'[q] = responses[q]
          /\ \A q \in DOMAIN responses : responses'[q].trigger = responses[q].trigger
          /\ \A u : u # row.trigger => AutoMessage(u)' = AutoMessage(u)
      BY <3>3, <3>4, <3>5, RowChanged, ZenonT(60)
    <3>7. \A r \in DOMAIN responses' : responses'[r].shelf = responses[r].shelf
                                       /\ responses'[r].trashed = responses[r].trashed
      BY <3>4, <3>6
    <3>8. old \in Nat /\ old < nextResponse /\ nextResponse \in Nat \ {0}
      BY <3>3 DEF LibraryTypeOK
    <3> QED
      BY <3>1, <3>2, <3>3, <3>4, <3>6, <3>7, <3>8 DEF LibraryTypeOK
  <2> QED
    BY <2>1, <2>2
<1> HIDE DEF id
<1>4. /\ writing' \in [Authors -> WritingType]
      /\ \A q \in Authors : q # e => writing'[q] = writing[q]
      /\ writing'[e].at = at /\ writing'[e].id = id /\ writing'[e].trigger = t
      /\ writing'[e].n = 1
  BY <1>1, <1>2, <1>3, ThenStarts
<1>5. 1 \in DOMAIN AutoTriggers /\ 1 <= Place(t)
  BY PlaceIsThere, TriggerPlaces
<1>6. LibraryTypeOK'
  BY <1>2, <1>3, <1>4 DEF LibraryTypeOK
<1>7. WritersKnow'
  <2>1. \/ writing'[e].at = "refreshing" /\ writing'[e].n \in DOMAIN AutoTriggers
        \/ /\ writing'[e].at = "translating" /\ writing'[e].n = 1
           /\ writing'[e].id < nextResponse'
           /\ responses'[writing'[e].id].trigger = writing'[e].trigger
    BY <1>1, <1>3, <1>4, <1>5
  <2>2. LibraryTypeOK /\ WritersKnow
    OBVIOUS
  <2> QED
    BY <1>3, <1>4, <2>1, <2>2, WritersStep
<1>8. CacheMended'
  <2>1. Mends(e, t)'
    BY <1>1, <1>4, <1>5 DEF Mends, Refreshes
  <2>2. \A q \in Authors : writing'[q] = writing[q] \/ writing[q].trigger = None
    BY <1>2, <1>4 DEF Nothing
  <2>3. \A u \in TriggerSet \ behind' :
          AutoMessage(u)' = AutoMessage(u) \/ \E q \in Authors : Mends(q, u)'
    BY <1>3, <2>1
  <2> QED
    BY <1>2, <2>2, <2>3, CacheStep
<1>9. ResponsesFollowCategory'
  <2>1. 0 \notin DOMAIN shelves
    BY DEF LibraryTypeOK
  <2> QED
    BY <1>2, <1>3, <2>1 DEF ResponsesFollowCategory
<1> QED
  BY <1>6, <1>7, <1>8, <1>9

(* Only what one request has still to do, and the cache, change.           *)
LEMMA RowsStand ==
  ASSUME LibraryInv, UNCHANGED <<shelves, nextShelf, responses, nextResponse, latecomers>>,
         writing' \in [Authors -> WritingType],
         messages' \in [TriggerSet -> (Text \X Text) \cup {None}],
         WritersKnow', CacheMended'
  PROVE  LibraryInv'
BY DEF LibraryInv, LibraryTypeOK, ResponsesFollowCategory

LEMMA MessagesStand ==
  ASSUME UNCHANGED responses, NEW t
  PROVE  AutoMessage(t)' = AutoMessage(t)
BY MessageStays DEF AutoRows

LEMMA TranslationKeeps ==
  ASSUME LibraryInv, NEW e \in Authors, UpsertTranslation(e)
  PROVE  LibraryInv'
<1> USE DEF LibraryInv
<1> DEFINE w == writing[e]
           row == [responses[w.id] EXCEPT !.tr = w.tr]
           next == IF w.trigger = None THEN Nothing ELSE [w EXCEPT !.at = "refreshing"]
<1>1. /\ w.at = "translating" /\ w.id \in DOMAIN responses /\ w \in WritingType
      /\ responses[w.id] \in ResponseType
  BY DEF UpsertTranslation, LibraryTypeOK
<1>2. /\ row \in ResponseType /\ row.trigger = responses[w.id].trigger
      /\ row.shelf = responses[w.id].shelf /\ row.trashed = responses[w.id].trashed
  BY <1>1 DEF ResponseType, WritingType
<1>3. next \in WritingType
  BY <1>1 DEF WritingType, Nothing, Text
<1>4. /\ w.trigger = None => next = Nothing
      /\ w.trigger # None =>
           /\ next.at = "refreshing" /\ next.trigger = w.trigger /\ next.n = w.n
           /\ w.trigger = responses[w.id].trigger /\ w.trigger \in TriggerSet /\ w.n = 1
  BY <1>1 DEF WritingType, WritersKnow
<1>5. /\ responses' = [responses EXCEPT ![w.id] = row] /\ nextResponse' = nextResponse
      /\ writing' = [writing EXCEPT ![e] = next]
      /\ behind' = IF w.trigger = None THEN behind \cup ({row.trigger} \ {None}) ELSE behind
      /\ UNCHANGED <<messages, latecomers>> /\ UNCHANGED <<shelves, nextShelf>>
  BY <1>2 DEF UpsertTranslation, shelfTables
<1> DEFINE id == w.id
<1> HIDE DEF row, next
<1>6. /\ responses' \in [DOMAIN responses' -> ResponseType]
      /\ DOMAIN responses' = DOMAIN responses
      /\ responses'[w.id] = row
      /\ \A q \in DOMAIN responses : q # w.id => responses'[q] = responses[q]
      /\ \A q \in DOMAIN responses : responses'[q].trigger = responses[q].trigger
      /\ \A t : t # row.trigger => AutoMessage(t)' = AutoMessage(t)
  <2>1. /\ id \in DOMAIN responses /\ row.trigger = responses[id].trigger
        /\ responses' = [responses EXCEPT ![id] = row]
    BY <1>1, <1>2, <1>5
  <2> HIDE DEF id
  <2>2. /\ responses' \in [DOMAIN responses' -> ResponseType]
        /\ DOMAIN responses' = DOMAIN responses
        /\ responses'[id] = row
        /\ \A q \in DOMAIN responses : q # id => responses'[q] = responses[q]
        /\ \A q \in DOMAIN responses : responses'[q].trigger = responses[q].trigger
        /\ \A t : t # row.trigger => AutoMessage(t)' = AutoMessage(t)
    BY <1>2, <2>1, RowChanged, ZenonT(60)
  <2> QED
    BY <2>2 DEF id
<1>7. /\ writing' \in [Authors -> WritingType] /\ writing'[e] = next
      /\ \A q \in Authors : q # e => writing'[q] = writing[q]
  BY <1>3, <1>5 DEF LibraryTypeOK
<1>8. LibraryTypeOK'
  BY <1>5, <1>6, <1>7 DEF LibraryTypeOK
<1>9. WritersKnow'
  <2>1. nextResponse' \in Nat /\ nextResponse <= nextResponse'
    BY <1>5 DEF LibraryTypeOK
  <2>2. \/ writing'[e].at = "idle"
        \/ writing'[e].at = "refreshing" /\ writing'[e].n \in DOMAIN AutoTriggers
    BY <1>4, <1>7, PlaceIsThere, TriggerPlaces DEF Nothing
  <2> QED
    BY <1>6, <1>7, <2>1, <2>2, WritersStep
<1>10. CacheMended'
  <2>1. CASE w.trigger = None
    <3>1. \A t \in TriggerSet \ behind' : AutoMessage(t)' = AutoMessage(t)
      BY <1>5, <1>6, <2>1, PlaceIsThere
    <3>2. behind \subseteq behind'
      BY <1>5
    <3>3. \A q \in Authors : writing'[q] = writing[q] \/ writing[q].trigger = None
      BY <1>7, <2>1
    <3> QED
      BY <1>5, <3>1, <3>2, <3>3, CacheStep
  <2>2. CASE w.trigger # None
    <3>1. ASSUME NEW t \in TriggerSet, t = w.trigger PROVE Mends(e, t)'
      BY <1>4, <1>7, <2>2, <3>1, PlaceIsThere, TriggerPlaces DEF Mends, Refreshes
    <3>2. ASSUME NEW t \in TriggerSet, t \notin behind, t # w.trigger
          PROVE  messages'[t] = AutoMessage(t)' \/ \E q \in Authors : Mends(q, t)'
      <4>1. AutoMessage(t)' = AutoMessage(t)
        BY <1>2, <1>4, <1>6, <2>2, <3>2
      <4>2. \A q \in Authors : Mends(q, t) => q # e
        BY <3>2 DEF Mends
      <4>3. \A q \in Authors : Mends(q, t) => Mends(q, t)'
        BY <1>7, <4>1, <4>2, MendsStay
      <4> QED
        BY <1>5, <3>2, <4>1, <4>3 DEF CacheMended
    <3> QED
      BY <1>5, <2>2, <3>1, <3>2 DEF CacheMended
  <2> QED
    BY <2>1, <2>2
<1>11. ResponsesFollowCategory'
  BY <1>1, <1>2, <1>5, <1>6 DEF ResponsesFollowCategory
<1> QED
  BY <1>8, <1>9, <1>10, <1>11

LEMMA ReadKeeps ==
  ASSUME LibraryInv, NEW e \in Authors, ReadMessage(e)
  PROVE  LibraryInv'
<1> USE DEF LibraryInv
<1> DEFINE w == writing[e]
           next == [w EXCEPT !.at = "read", !.read = AutoMessage(AutoTriggers[w.n])]
<1>1. w.at = "refreshing" /\ w \in WritingType /\ w.n \in DOMAIN AutoTriggers
  BY DEF ReadMessage, LibraryTypeOK, WritersKnow
<1>2. /\ next \in WritingType /\ next.at = "read" /\ next.n = w.n /\ next.trigger = w.trigger
      /\ next.read = AutoMessage(AutoTriggers[w.n])
  BY <1>1, MessageTyped DEF WritingType
<1>3. writing' = [writing EXCEPT ![e] = next]
  BY DEF ReadMessage
<1>4. /\ UNCHANGED <<shelves, nextShelf, responses, nextResponse, latecomers>>
      /\ UNCHANGED <<messages, behind>>
  BY DEF ReadMessage, shelfTables, responseTables
<1> HIDE DEF next
<1>5. /\ writing' \in [Authors -> WritingType] /\ writing'[e] = next
      /\ \A q \in Authors : q # e => writing'[q] = writing[q]
  BY <1>2, <1>3 DEF LibraryTypeOK
<1>6. WritersKnow'
  BY <1>1, <1>2, <1>4, <1>5 DEF WritersKnow
<1>7. CacheMended'
  <2>1. \A t : AutoMessage(t)' = AutoMessage(t)
    BY <1>4, MessagesStand
  <2>2. ASSUME NEW t \in TriggerSet, Mends(e, t) PROVE Mends(e, t)'
    <3>1. w.n <= Place(t) /\ w.n \in Nat /\ Place(t) \in Nat
      BY <1>1, <2>2, PlaceIsThere, TriggerPlaces DEF Mends, Refreshes
    <3>2. w.n = Place(t) => next.read = AutoMessage(t)'
      BY <1>2, <2>1, PlaceIsThere
    <3>3. w.trigger = t /\ w.trigger # None
      BY <2>2 DEF Mends, Refreshes
    <3> QED
      BY <1>2, <1>5, <3>1, <3>2, <3>3 DEF Mends, Refreshes
  <2>3. \A t \in TriggerSet, q \in Authors : Mends(q, t) => Mends(q, t)'
    BY <1>5, <2>1, <2>2, MendsStay
  <2> QED
    BY <1>4, <2>1, <2>3 DEF CacheMended
<1> QED
  BY <1>4, <1>5, <1>6, <1>7, RowsStand DEF LibraryTypeOK

LEMMA StoreKeeps ==
  ASSUME LibraryInv, NEW e \in Authors, StoreMessage(e)
  PROVE  LibraryInv'
<1> USE DEF LibraryInv
<1> DEFINE w == writing[e]
           s == AutoTriggers[w.n]
           on == [w EXCEPT !.at = "refreshing", !.n = w.n + 1, !.read = None]
           next == IF w.n = Len(AutoTriggers) THEN Nothing ELSE on
<1>1. /\ w.at = "read" /\ w \in WritingType /\ w.n \in DOMAIN AutoTriggers /\ s \in TriggerSet
      /\ w.n \in Nat
  BY TriggerPlaces DEF StoreMessage, LibraryTypeOK, WritersKnow, WritingType
<1>2. /\ on \in WritingType /\ on.at = "refreshing" /\ on.n = w.n + 1
      /\ on.trigger = w.trigger
  <2> DEFINE v == w
  <2>1. v \in WritingType /\ w.n + 1 \in Nat
    BY <1>1
  <2> HIDE DEF v
  <2>2. \A m \in Nat : LET x == [v EXCEPT !.at = "refreshing", !.n = m, !.read = None]
                      IN  x \in WritingType /\ x.at = "refreshing" /\ x.n = m
                          /\ x.trigger = v.trigger
    BY <2>1 DEF WritingType
  <2> QED
    BY <2>1, <2>2 DEF v
<1>3. Nothing \in WritingType /\ Nothing.at = "idle"
  BY DEF Nothing, WritingType, Text
<1>4. /\ messages' = [messages EXCEPT ![s] = w.read]
      /\ behind' = IF w.read = AutoMessage(s) THEN behind \ {s} ELSE behind \cup {s}
      /\ writing' = [writing EXCEPT ![e] = next]
      /\ UNCHANGED <<shelves, nextShelf, responses, nextResponse, latecomers>>
  BY DEF StoreMessage, shelfTables, responseTables
<1> HIDE DEF on
<1>5. /\ writing' \in [Authors -> WritingType] /\ writing'[e] = next
      /\ \A q \in Authors : q # e => writing'[q] = writing[q]
  BY <1>2, <1>3, <1>4 DEF LibraryTypeOK
<1>6. /\ messages' \in [TriggerSet -> (Text \X Text) \cup {None}] /\ messages'[s] = w.read
      /\ \A t \in TriggerSet : t # s => messages'[t] = messages[t]
  BY <1>1, <1>4 DEF LibraryTypeOK, WritingType
<1>7. WritersKnow'
  <2>1. w.n # Len(AutoTriggers) => w.n + 1 \in DOMAIN AutoTriggers
    BY <1>1, TriggerPlaces
  <2>2. \/ next.at = "idle"
        \/ next.at = "refreshing" /\ next.n \in DOMAIN AutoTriggers
    BY <1>2, <1>3, <2>1
  <2> QED
    BY <1>4, <1>5, <2>2 DEF WritersKnow
<1>8. CacheMended'
  <2>1. \A t : AutoMessage(t)' = AutoMessage(t)
    BY <1>4, MessagesStand
  <2>2. ASSUME NEW t \in TriggerSet, t # s, Mends(e, t) PROVE Mends(e, t)'
    <3>1. /\ w.n <= Place(t) /\ Place(t) \in DOMAIN AutoTriggers /\ AutoTriggers[Place(t)] = t
          /\ w.trigger = t /\ w.trigger # None
      BY <1>1, <2>2, PlaceIsThere, TriggerPlaces DEF Mends, Refreshes
    <3>2. w.n < Place(t) /\ w.n # Len(AutoTriggers) /\ w.n + 1 <= Place(t)
      BY <1>1, <2>2, <3>1, TriggerPlaces
    <3> QED
      BY <1>2, <1>5, <3>1, <3>2 DEF Mends, Refreshes
  <2>3. ASSUME NEW t \in TriggerSet, t \notin behind', t # s
        PROVE  messages'[t] = AutoMessage(t)' \/ \E q \in Authors : Mends(q, t)'
    <3>1. \A q \in Authors : Mends(q, t) => Mends(q, t)'
      BY <1>5, <2>1, <2>2, <2>3, MendsStay
    <3>2. t \notin behind
      BY <1>4, <2>3
    <3> QED
      BY <1>6, <2>1, <2>3, <3>1, <3>2 DEF CacheMended
  <2>4. ASSUME NEW t \in TriggerSet, t \notin behind', t = s PROVE messages'[t] = AutoMessage(t)'
    <3>1. w.read = AutoMessage(t)
      BY <1>4, <2>4
    <3> QED
      BY <1>6, <2>1, <2>4, <3>1
  <2> QED
    BY <2>3, <2>4 DEF CacheMended
<1> QED
  BY <1>4, <1>5, <1>6, <1>7, <1>8, RowsStand

LEMMA BreakKeeps ==
  ASSUME LibraryInv, NEW e \in Authors, Break(e)
  PROVE  LibraryInv'
<1> USE DEF LibraryInv
<1> DEFINE w == writing[e]
<1>1. /\ w.at \in {"translating", "refreshing"} /\ writing' = [writing EXCEPT ![e] = Nothing]
      /\ behind' = IF w.trigger # None /\ w.n <= Place(w.trigger)
                   THEN behind \cup {w.trigger} ELSE behind
      /\ UNCHANGED <<shelves, nextShelf, responses, nextResponse, latecomers>>
      /\ UNCHANGED messages
  BY DEF Break, shelfTables, responseTables
<1>2. Nothing \in WritingType /\ Nothing.at = "idle"
  BY DEF Nothing, WritingType, Text
<1>3. /\ writing' \in [Authors -> WritingType] /\ writing'[e] = Nothing
      /\ \A q \in Authors : q # e => writing'[q] = writing[q]
  BY <1>1, <1>2 DEF LibraryTypeOK
<1>4. WritersKnow'
  BY <1>1, <1>2, <1>3 DEF WritersKnow
<1>5. CacheMended'
  <2>1. ASSUME NEW t \in TriggerSet, t \notin behind'
        PROVE  messages'[t] = AutoMessage(t)' \/ \E q \in Authors : Mends(q, t)'
    <3>1. AutoMessage(t)' = AutoMessage(t)
      BY <1>1, MessagesStand
    <3>2. ~Mends(e, t)
      <4>1. CASE Mends(e, t)
        <5>1. w.trigger = t /\ w.trigger # None /\ w.n <= Place(t)
          BY <1>1, <4>1 DEF Mends, Refreshes
        <5> QED
          BY <1>1, <2>1, <5>1
      <4> QED
        BY <4>1
    <3>3. t \notin behind
      BY <1>1, <2>1
    <3>4. \A q \in Authors : Mends(q, t) => Mends(q, t)'
      BY <1>3, <3>1, <3>2, MendsStay
    <3> QED
      BY <1>1, <2>1, <3>1, <3>3, <3>4 DEF CacheMended
  <2> QED
    BY <2>1 DEF CacheMended
<1>6. messages' \in [TriggerSet -> (Text \X Text) \cup {None}]
  BY <1>1 DEF LibraryTypeOK
<1> QED
  BY <1>1, <1>3, <1>4, <1>5, <1>6, RowsStand

LEMMA BootKeeps ==
  ASSUME LibraryInv, Boot
  PROVE  LibraryInv'
<1> USE DEF LibraryInv
<1>1. /\ writing' = [e \in Authors |-> Nothing]
      /\ messages' = [t \in TriggerSet |-> AutoMessage(t)]
      /\ UNCHANGED <<shelves, nextShelf, responses, nextResponse, latecomers>>
  BY DEF Boot, shelfTables, responseTables
<1>2. Nothing \in WritingType /\ Nothing.at = "idle"
  BY DEF Nothing, WritingType, Text
<1>3. writing' \in [Authors -> WritingType] /\ \A e \in Authors : writing'[e] = Nothing
  BY <1>1, <1>2
<1>4. messages' \in [TriggerSet -> (Text \X Text) \cup {None}]
  BY <1>1, MessageTyped
<1>5. WritersKnow'
  BY <1>2, <1>3 DEF WritersKnow
<1>6. CacheMended'
  <2>1. \A t : AutoMessage(t)' = AutoMessage(t)
    BY <1>1, MessagesStand
  <2> QED
    BY <1>1, <2>1 DEF CacheMended
<1> QED
  BY <1>1, <1>3, <1>4, <1>5, <1>6, RowsStand

LEMMA LibraryStep == LibraryInv /\ [LibraryNext]_libraryVars => LibraryInv'
<1> SUFFICES ASSUME LibraryInv, [LibraryNext]_libraryVars PROVE LibraryInv'
  OBVIOUS
<1>1. CASE UNCHANGED libraryVars
  <2>1. /\ UNCHANGED <<shelves, nextShelf, responses, nextResponse, latecomers>>
        /\ UNCHANGED <<writing, messages, behind>>
    BY <1>1 DEF libraryVars, shelfTables, responseTables
  <2>2. \A t : AutoMessage(t)' = AutoMessage(t)
    BY <2>1, MessagesStand
  <2>3. CacheMended'
    BY <2>1, <2>2, CacheStep DEF LibraryInv
  <2>4. WritersKnow'
    BY <2>1 DEF LibraryInv, WritersKnow
  <2> QED
    BY <2>1, <2>3, <2>4, RowsStand DEF LibraryInv, LibraryTypeOK
<1>2. CASE CategoryRoutesOfResponses
  BY <1>2, CategoriesKeep
<1>3. CASE TrashRoutes
  BY <1>3, TrashKeeps
<1>4. CASE Boot
  BY <1>4, BootKeeps
<1>5. ASSUME NEW e \in Authors, ResponseRoutes(e) PROVE LibraryInv'
  BY <1>5, CreateKeeps, UpdateKeeps, UpsertKeeps DEF ResponseRoutes
<1>6. ASSUME NEW e \in Authors, DeleteAccount(e) PROVE LibraryInv'
  BY <1>6, AccountsKeep
<1>7. ASSUME NEW e \in Authors,
             UpsertTranslation(e) \/ ReadMessage(e) \/ StoreMessage(e) \/ Break(e)
      PROVE  LibraryInv'
  BY <1>7, TranslationKeeps, ReadKeeps, StoreKeeps, BreakKeeps
<1> QED
  BY <1>1, <1>2, <1>3, <1>4, <1>5, <1>6, <1>7 DEF LibraryNext

LEMMA LibraryStays == LibrarySpec => []LibraryInv
BY LibraryStart, LibraryStep, PTL DEF LibrarySpec

(* The gateway sends an automatic message as the table has it, or the one  *)
(* who has written it is going to read it into the cache: nothing else may *)
(* leave the cache behind but a request that breaks off, the other route   *)
(* to the row, a row that goes, and a refresh that stores what it has read *)
(* before a change (invalidateAutoMessageCache).                           *)
THEOREM AutoMessagesRefreshed == LibrarySpec => []AutoMessagesCatchUp
<1>1. LibraryInv => AutoMessagesCatchUp
  BY DEF LibraryInv, CacheMended, Mends, AutoMessagesCatchUp
<1> QED
  BY <1>1, LibraryStays, PTL

(* Of a trashed category no response is offered, but one that was made,    *)
(* moved or restored there after the category was trashed.                 *)
THEOREM ResponsesStayBelow == LibrarySpec => []ResponsesFollowCategory
<1>1. LibraryInv => ResponsesFollowCategory
  BY DEF LibraryInv
<1> QED
  BY <1>1, LibraryStays, PTL

-----------------------------------------------------------------------------
(* The history of chats and the mails of the contact form.                 *)
ChatType == [open : BOOLEAN, trashed : BOOLEAN, sent : BOOLEAN \cup {None}]
FormType == [chat : Nat, full : BOOLEAN, closed : BOOLEAN, mailed : BOOLEAN]

ArchiveTypeOK ==
  /\ chats \in [DOMAIN chats -> ChatType] /\ DOMAIN chats \subseteq 1 .. nextChat - 1
  /\ nextChat \in Nat \ {0}
  /\ forms \in [Forms -> FormType]
  /\ answered \in [DOMAIN answered -> BOOLEAN] /\ DOMAIN answered \subseteq DOMAIN chats

(* Of a chat whose forms have not crossed, one form is in flight at most,  *)
(* its mail has not been answered, and nobody has answered for the chat    *)
(* since it was sent.                                                      *)
FormsAlone ==
  \A f \in Forms :
    InFlight(f) /\ forms[f].chat \notin crossed =>
      /\ ~forms[f].mailed /\ forms[f].chat \notin DOMAIN answered
      /\ \A g \in Forms : g # f /\ InFlight(g) => forms[g].chat # forms[f].chat

AnswersShown == \A c \in DOMAIN answered \ crossed : chats[c].sent = answered[c]

MailInv == ArchiveTypeOK /\ FormsAlone /\ AnswersShown

LEMMA MailStart == ArchiveInit => MailInv
<1> SUFFICES ASSUME ArchiveInit PROVE MailInv
  OBVIOUS
<1>1. DOMAIN chats = {} /\ DOMAIN answered = {}
  BY DEF ArchiveInit
<1>2. NoForm \in FormType /\ NoForm.closed /\ NoForm.mailed
  BY DEF NoForm, FormType
<1>3. \A f \in Forms : ~InFlight(f)
  BY <1>2 DEF ArchiveInit, InFlight
<1>4. ArchiveTypeOK
  BY <1>1, <1>2 DEF ArchiveInit, ArchiveTypeOK
<1> QED
  BY <1>1, <1>3, <1>4 DEF MailInv, FormsAlone, AnswersShown

(* Chats that stay, with the outcome of their mail.                        *)
LEMMA ChatsKeepMails ==
  ASSUME MailInv, UNCHANGED <<forms, answered, crossed>>,
         chats' \in [DOMAIN chats' -> ChatType], DOMAIN chats \subseteq DOMAIN chats',
         DOMAIN chats' \subseteq 1 .. nextChat' - 1, nextChat' \in Nat \ {0},
         \A c \in DOMAIN chats : chats'[c].sent = chats[c].sent
  PROVE  MailInv'
<1>1. ArchiveTypeOK'
  BY DEF MailInv, ArchiveTypeOK
<1>2. FormsAlone'
  BY DEF MailInv, FormsAlone, InFlight
<1>3. AnswersShown'
  BY DEF MailInv, ArchiveTypeOK, AnswersShown
<1> QED
  BY <1>1, <1>2, <1>3 DEF MailInv

LEMMA TableWritten ==
  ASSUME MailInv, NEW table, table \in [DOMAIN chats -> ChatType], WriteChats(table), Rest,
         \A c \in DOMAIN chats : table[c].sent = chats[c].sent
  PROVE  MailInv'
<1>1. chats' = table /\ nextChat' = nextChat /\ UNCHANGED <<forms, answered, crossed>>
  BY DEF WriteChats, Rest, mailHistory
<1>2. DOMAIN chats' = DOMAIN chats /\ chats' \in [DOMAIN chats' -> ChatType]
  BY <1>1
<1> QED
  BY <1>1, <1>2, ChatsKeepMails DEF MailInv, ArchiveTypeOK

LEMMA ChatRoutesKeepMails ==
  ASSUME MailInv, ChatRoutes
  PROVE  MailInv'
<1>0. /\ chats \in [DOMAIN chats -> ChatType] /\ DOMAIN chats \subseteq 1 .. nextChat - 1
      /\ nextChat \in Nat \ {0}
  BY DEF MailInv, ArchiveTypeOK
<1>1. CASE StartSession
  <2> DEFINE row == [open |-> TRUE, trashed |-> FALSE, sent |-> None]
  <2>1. row \in ChatType
    BY DEF ChatType
  <2>2. /\ chats' = Put(chats, nextChat, row) /\ nextChat' = nextChat + 1
        /\ UNCHANGED <<forms, answered, crossed>>
    BY <1>1 DEF StartSession, WriteChats, mailHistory
  <2> HIDE DEF row
  <2>3. nextChat \notin DOMAIN chats
    BY <1>0
  <2>4. /\ DOMAIN chats' = DOMAIN chats \cup {nextChat}
        /\ chats'[nextChat] = row /\ \A c \in DOMAIN chats : chats'[c] = chats[c]
    BY <2>2, <2>3 DEF Put
  <2>5. chats' \in [DOMAIN chats' -> ChatType]
    <3>1. \A c \in DOMAIN chats' : chats'[c] \in ChatType
      BY <1>0, <2>1, <2>4
    <3> QED
      BY <2>2, <3>1 DEF Put
  <2>6. \A c \in DOMAIN chats' : c \in 1 .. nextChat' - 1
    BY <1>0, <2>2, <2>4
  <2> QED
    BY <1>0, <2>2, <2>4, <2>5, <2>6, ChatsKeepMails
<1>2. ASSUME NEW c \in DOMAIN chats, NEW open \in BOOLEAN,
             WriteChats([chats EXCEPT ![c].open = open]) /\ Rest
      PROVE  MailInv'
  <2> DEFINE table == [chats EXCEPT ![c].open = open]
  <2>1. \A d \in DOMAIN chats : table[d] \in ChatType /\ table[d].sent = chats[d].sent
    BY <1>0 DEF ChatType
  <2>2. table \in [DOMAIN chats -> ChatType]
    BY <2>1
  <2> HIDE DEF table
  <2>3. WriteChats(table) /\ Rest
    BY <1>2 DEF table
  <2> QED
    BY <2>1, <2>2, <2>3, TableWritten
<1>3. ASSUME NEW c \in DOMAIN chats, TrashSession(c) PROVE MailInv'
  BY <1>0, <1>3, ChatsKeepMails DEF TrashSession, chatTables, mailHistory
<1>4. ASSUME NEW ids, BulkTrashSessions(ids) PROVE MailInv'
  <2> DEFINE table == [c \in DOMAIN chats |->
                        [chats[c] EXCEPT !.trashed = @ \/ (c \in ids /\ ~chats[c].open)]]
  <2>1. \A d \in DOMAIN chats : table[d] \in ChatType /\ table[d].sent = chats[d].sent
    BY <1>0 DEF ChatType
  <2>2. table \in [DOMAIN chats -> ChatType]
    BY <2>1
  <2>3. WriteChats(table) /\ Rest
    BY <1>4 DEF BulkTrashSessions
  <2> HIDE DEF table
  <2> QED
    BY <2>1, <2>2, <2>3, TableWritten
<1>5. ASSUME NEW ids, RestoreSessions(ids) PROVE MailInv'
  <2> DEFINE table == [c \in DOMAIN chats |-> [chats[c] EXCEPT !.trashed = @ /\ c \notin ids]]
  <2>1. \A d \in DOMAIN chats : table[d] \in ChatType /\ table[d].sent = chats[d].sent
    BY <1>0 DEF ChatType
  <2>2. table \in [DOMAIN chats -> ChatType]
    BY <2>1
  <2>3. WriteChats(table) /\ Rest
    BY <1>5 DEF RestoreSessions
  <2> HIDE DEF table
  <2> QED
    BY <2>1, <2>2, <2>3, TableWritten
<1>6. ASSUME NEW ids, HardDeleteSessions(ids) PROVE MailInv'
  <2>1. /\ chats' = Only(chats, DOMAIN chats \ ids)
        /\ answered' = Only(answered, DOMAIN answered \ ids)
        /\ UNCHANGED <<nextChat, forms, crossed>>
    BY <1>6 DEF HardDeleteSessions, WriteChats
  <2>2. /\ DOMAIN chats' = DOMAIN chats \ ids /\ DOMAIN answered' = DOMAIN answered \ ids
        /\ \A c \in DOMAIN chats' : chats'[c] = chats[c]
        /\ \A c \in DOMAIN answered' : answered'[c] = answered[c]
        /\ chats' \in [DOMAIN chats' -> ChatType] /\ answered' \in [DOMAIN answered' -> BOOLEAN]
    BY <1>0, <2>1 DEF Only, MailInv, ArchiveTypeOK
  <2>3. ArchiveTypeOK'
    BY <2>1, <2>2 DEF MailInv, ArchiveTypeOK
  <2>4. FormsAlone'
    BY <2>1, <2>2 DEF MailInv, FormsAlone, InFlight
  <2>5. AnswersShown'
    BY <2>1, <2>2 DEF MailInv, ArchiveTypeOK, AnswersShown
  <2> QED
    BY <2>3, <2>4, <2>5 DEF MailInv
<1>7. ASSUME NEW sent, ExportChatHistory(sent) PROVE MailInv'
  BY <1>0, <1>7, ChatsKeepMails DEF ExportChatHistory, chatTables, mailHistory
<1> QED
  BY <1>1, <1>2, <1>3, <1>4, <1>5, <1>6, <1>7 DEF ChatRoutes, CloseSession, ReopenSession

LEMMA WriteTrashKeepsMails ==
  ASSUME MailInv, NEW c, WriteTrash(c)
  PROVE  MailInv'
<1>0. /\ chats \in [DOMAIN chats -> ChatType] /\ DOMAIN chats \subseteq 1 .. nextChat - 1
      /\ nextChat \in Nat \ {0}
  BY DEF MailInv, ArchiveTypeOK
<1>1. UNCHANGED <<nextChat, forms, answered, crossed>>
  BY DEF WriteTrash, mailHistory
<1>2. CASE c \in DOMAIN chats
  <2>1. chats' = [chats EXCEPT ![c].trashed = TRUE]
    BY <1>2 DEF WriteTrash, WriteChats
  <2>2. /\ DOMAIN chats' = DOMAIN chats
        /\ \A d \in DOMAIN chats : chats'[d] \in ChatType /\ chats'[d].sent = chats[d].sent
    BY <1>0, <2>1 DEF ChatType
  <2>3. chats' \in [DOMAIN chats' -> ChatType]
    BY <2>1, <2>2
  <2> QED
    BY <1>0, <1>1, <2>2, <2>3, ChatsKeepMails
<1>3. CASE c \notin DOMAIN chats
  BY <1>0, <1>1, <1>3, ChatsKeepMails DEF WriteTrash
<1> QED
  BY <1>2, <1>3

LEMMA FormKeepsMails ==
  ASSUME MailInv, NEW f \in Forms, NEW c \in DOMAIN chats, NEW full \in BOOLEAN,
         LeaveContactInfo(f, c, full)
  PROVE  MailInv'
<1> DEFINE form == [chat |-> c, full |-> full, closed |-> FALSE, mailed |-> FALSE]
<1>1. /\ ~InFlight(f) /\ forms' = [forms EXCEPT ![f] = form]
      /\ crossed' = IF Others(f, c) = {} THEN crossed \ {c} ELSE crossed \cup {c}
      /\ answered' = Only(answered, DOMAIN answered \ {c})
      /\ UNCHANGED <<chats, nextChat>>
  BY DEF LeaveContactInfo, chatTables
<1>2. form \in FormType /\ form.chat = c /\ ~form.closed /\ ~form.mailed
  BY DEF FormType, MailInv, ArchiveTypeOK
<1> HIDE DEF form
<1>3. /\ forms' \in [Forms -> FormType] /\ forms'[f] = form
      /\ \A g \in Forms : g # f => forms'[g] = forms[g]
  BY <1>1, <1>2 DEF MailInv, ArchiveTypeOK
<1>4. /\ DOMAIN answered' = DOMAIN answered \ {c}
      /\ \A d \in DOMAIN answered' : answered'[d] = answered[d]
      /\ answered' \in [DOMAIN answered' -> BOOLEAN]
  BY <1>1 DEF Only, MailInv, ArchiveTypeOK
<1>5. ArchiveTypeOK'
  BY <1>1, <1>3, <1>4 DEF MailInv, ArchiveTypeOK
<1>6. ASSUME NEW g \in Forms, g # f, InFlight(g), forms[g].chat \notin crossed'
      PROVE  forms[g].chat # c /\ forms[g].chat \notin crossed
  <2>1. forms[g].chat # c
    <3>1. CASE forms[g].chat = c
      <4>1. g \in Others(f, c)
        BY <1>6, <3>1 DEF Others
      <4> QED
        BY <1>1, <1>6, <3>1, <4>1
    <3> QED
      BY <3>1
  <2> QED
    BY <1>1, <1>6, <2>1
<1>7. c \notin crossed' => \A g \in Forms : g # f /\ InFlight(g) => forms[g].chat # c
  BY <1>1 DEF Others
<1>8. FormsAlone'
  <2>1. \A g \in Forms : g # f => (InFlight(g)' <=> InFlight(g))
    BY <1>3 DEF InFlight
  <2>2. ASSUME NEW g \in Forms, InFlight(g)', forms'[g].chat \notin crossed'
        PROVE  /\ ~forms'[g].mailed /\ forms'[g].chat \notin DOMAIN answered'
               /\ \A h \in Forms : h # g /\ InFlight(h)' => forms'[h].chat # forms'[g].chat
    <3>1. CASE g = f
      BY <1>2, <1>3, <1>4, <1>7, <2>1, <2>2, <3>1
    <3>2. CASE g # f
      <4>1. InFlight(g) /\ forms'[g] = forms[g]
        BY <1>3, <2>1, <2>2, <3>2
      <4>2. forms[g].chat # c /\ forms[g].chat \notin crossed
        BY <1>6, <2>2, <3>2, <4>1
      <4>3. /\ ~forms[g].mailed /\ forms[g].chat \notin DOMAIN answered
            /\ \A h \in Forms : h # g /\ InFlight(h) => forms[h].chat # forms[g].chat
        BY <4>1, <4>2 DEF MailInv, FormsAlone
      <4>4. \A h \in Forms : h # g /\ InFlight(h)' => forms'[h].chat # forms[g].chat
        BY <1>2, <1>3, <2>1, <4>2, <4>3
      <4> QED
        BY <1>4, <4>1, <4>3, <4>4
    <3> QED
      BY <3>1, <3>2
  <2> QED
    BY <2>2 DEF FormsAlone
<1>9. AnswersShown'
  BY <1>1, <1>4 DEF MailInv, AnswersShown
<1> QED
  BY <1>5, <1>8, <1>9 DEF MailInv

(* The chat of a form that is closed.                                      *)
LEMMA CloseKeepsMails ==
  ASSUME MailInv, NEW f \in Forms, CloseWithContactRequest(f)
  PROVE  MailInv'
<1> DEFINE c == forms[f].chat
<1>1. /\ ~forms[f].closed /\ forms' = [forms EXCEPT ![f].closed = TRUE]
      /\ UNCHANGED <<nextChat, answered, crossed>>
  BY DEF CloseWithContactRequest, mailHistory
<1>2. forms \in [Forms -> FormType]
  BY DEF MailInv, ArchiveTypeOK
<1>3. /\ forms' \in [Forms -> FormType]
      /\ \A g \in Forms : /\ g # f => forms'[g] = forms[g]
                          /\ forms'[g].chat = forms[g].chat /\ forms'[g].mailed = forms[g].mailed
                          /\ InFlight(g)' => InFlight(g)
  BY <1>1, <1>2 DEF FormType, InFlight
<1>4. InFlight(f)
  BY <1>1 DEF InFlight
<1>5. /\ DOMAIN chats' = DOMAIN chats /\ chats' \in [DOMAIN chats' -> ChatType]
      /\ \A d \in DOMAIN chats : d # c => chats'[d] = chats[d]
  <2>1. CASE c \notin DOMAIN chats
    BY <2>1 DEF CloseWithContactRequest, MailInv, ArchiveTypeOK
  <2>2. CASE c \in DOMAIN chats
    <3> DEFINE row == [chats[c] EXCEPT !.open = FALSE,
                                       !.sent = IF forms[f].full THEN FALSE ELSE @]
               d == c
    <3>1. chats[d] \in ChatType /\ d \in DOMAIN chats
      BY <2>2 DEF MailInv, ArchiveTypeOK
    <3>2. row \in ChatType
      BY <3>1 DEF ChatType
    <3>3. chats' = [chats EXCEPT ![d] = row]
      BY <2>2 DEF CloseWithContactRequest, WriteChats
    <3> HIDE DEF row, d
    <3>4. /\ DOMAIN chats' = DOMAIN chats /\ chats' \in [DOMAIN chats' -> ChatType]
          /\ \A k \in DOMAIN chats : k # d => chats'[k] = chats[k]
      BY <3>1, <3>2, <3>3 DEF MailInv, ArchiveTypeOK
    <3> QED
      BY <3>4 DEF d
  <2> QED
    BY <2>1, <2>2
<1>6. ArchiveTypeOK'
  BY <1>1, <1>3, <1>5 DEF MailInv, ArchiveTypeOK
<1>7. FormsAlone'
  BY <1>1, <1>3 DEF MailInv, FormsAlone
<1>8. c \notin crossed => c \notin DOMAIN answered
  BY <1>4 DEF MailInv, FormsAlone
<1>9. AnswersShown'
  BY <1>1, <1>5, <1>8 DEF MailInv, ArchiveTypeOK, AnswersShown
<1> QED
  BY <1>6, <1>7, <1>9 DEF MailInv

LEMMA MarkKeepsMails ==
  ASSUME MailInv, NEW f \in Forms, NEW sent \in BOOLEAN, MarkContactRequestEmailSent(f, sent)
  PROVE  MailInv'
<1> DEFINE c == forms[f].chat
<1>1. /\ ~forms[f].mailed /\ forms' = [forms EXCEPT ![f].mailed = TRUE]
      /\ answered' = IF c \in DOMAIN chats THEN Put(answered, c, sent) ELSE answered
      /\ crossed' = IF forms[f].closed THEN crossed ELSE crossed \cup {c}
      /\ nextChat' = nextChat
      /\ chats' = IF c \in DOMAIN chats THEN [chats EXCEPT ![c].sent = sent] ELSE chats
  BY DEF MarkContactRequestEmailSent, Answers, WriteChats
<1>2. /\ forms \in [Forms -> FormType] /\ chats \in [DOMAIN chats -> ChatType]
      /\ answered \in [DOMAIN answered -> BOOLEAN] /\ DOMAIN answered \subseteq DOMAIN chats
  BY DEF MailInv, ArchiveTypeOK
<1>3. /\ forms' \in [Forms -> FormType] /\ forms'[f].closed = forms[f].closed /\ forms'[f].mailed
      /\ \A g \in Forms : g # f => forms'[g] = forms[g]
      /\ \A g \in Forms : forms'[g].chat = forms[g].chat
  BY <1>1, <1>2 DEF FormType
<1>4. InFlight(f) /\ \A g \in Forms : InFlight(g)' => InFlight(g)
  BY <1>1, <1>3 DEF InFlight
<1>5. /\ DOMAIN chats' = DOMAIN chats /\ chats' \in [DOMAIN chats' -> ChatType]
      /\ \A d \in DOMAIN chats : d # c => chats'[d] = chats[d]
      /\ c \in DOMAIN chats => chats'[c].sent = sent
  BY <1>1, <1>2 DEF ChatType
<1>6. /\ answered' \in [DOMAIN answered' -> BOOLEAN]
      /\ DOMAIN answered' \subseteq DOMAIN answered \cup {c}
      /\ c \notin DOMAIN chats => c \notin DOMAIN answered'
      /\ \A d \in DOMAIN answered' : d # c => answered'[d] = answered[d]
      /\ c \in DOMAIN chats => answered'[c] = sent
  BY <1>1, <1>2 DEF Put
<1>7. ArchiveTypeOK'
  BY <1>1, <1>2, <1>3, <1>5, <1>6 DEF MailInv, ArchiveTypeOK
<1>8. ASSUME NEW g \in Forms, InFlight(g)', forms'[g].chat \notin crossed'
      PROVE  /\ ~forms'[g].mailed /\ forms'[g].chat \notin DOMAIN answered'
             /\ \A h \in Forms : h # g /\ InFlight(h)' => forms'[h].chat # forms'[g].chat
  <2>1. InFlight(g) /\ forms[g].chat \notin crossed /\ forms'[g].chat = forms[g].chat
    BY <1>1, <1>3, <1>4, <1>8
  <2>2. /\ ~forms[g].mailed /\ forms[g].chat \notin DOMAIN answered
        /\ \A h \in Forms : h # g /\ InFlight(h) => forms[h].chat # forms[g].chat
    BY <2>1 DEF MailInv, FormsAlone
  <2>3. g # f
    <3>1. CASE g = f
      <4>1. ~forms[f].closed
        BY <1>3, <1>8, <3>1 DEF InFlight
      <4> QED
        BY <1>1, <1>3, <1>8, <3>1, <4>1
    <3> QED
      BY <3>1
  <2>4. forms[g].chat # c
    BY <1>4, <2>2, <2>3
  <2> QED
    BY <1>3, <1>4, <1>6, <2>1, <2>2, <2>3, <2>4
<1>9. FormsAlone'
  BY <1>8 DEF FormsAlone
<1>10. AnswersShown'
  <2>1. \A d \in DOMAIN answered' \ crossed' : chats'[d].sent = answered'[d]
    <3> TAKE d \in DOMAIN answered' \ crossed'
    <3>1. CASE d = c
      BY <1>5, <1>6, <3>1
    <3>2. CASE d # c
      BY <1>1, <1>2, <1>5, <1>6, <3>2 DEF MailInv, AnswersShown
    <3> QED
      BY <3>1, <3>2
  <2> QED
    BY <2>1 DEF AnswersShown
<1> QED
  BY <1>7, <1>9, <1>10 DEF MailInv

LEMMA MailStep == MailInv /\ [ArchiveNext]_archiveVars => MailInv'
<1> SUFFICES ASSUME MailInv, [ArchiveNext]_archiveVars PROVE MailInv'
  OBVIOUS
<1>0. /\ chats \in [DOMAIN chats -> ChatType] /\ DOMAIN chats \subseteq 1 .. nextChat - 1
      /\ nextChat \in Nat \ {0}
  BY DEF MailInv, ArchiveTypeOK
<1>1. CASE UNCHANGED archiveVars
  BY <1>0, <1>1, ChatsKeepMails DEF archiveVars, chatTables, mailHistory
<1>2. CASE ChatRoutes
  BY <1>2, ChatRoutesKeepMails
<1>3. ASSUME NEW c \in trashing, WriteTrash(c) PROVE MailInv'
  BY <1>3, WriteTrashKeepsMails
<1>4. ASSUME NEW f \in Forms,
             \/ \E c \in DOMAIN chats, full \in BOOLEAN : LeaveContactInfo(f, c, full)
             \/ CloseWithContactRequest(f)
             \/ \E sent \in BOOLEAN : MarkContactRequestEmailSent(f, sent)
      PROVE  MailInv'
  BY <1>4, FormKeepsMails, CloseKeepsMails, MarkKeepsMails
<1>5. CASE NextBatch
  BY <1>0, <1>5, ChatsKeepMails DEF NextBatch, chatTables, mailHistory
<1>6. CASE RestartServer
  <2>1. NoForm \in FormType /\ NoForm.closed /\ NoForm.mailed
    BY DEF NoForm, FormType
  <2>2. /\ forms' = [f \in Forms |-> NoForm] /\ UNCHANGED <<chats, nextChat, answered>>
        /\ crossed \subseteq crossed'
    BY <1>6 DEF RestartServer, chatTables
  <2>3. ArchiveTypeOK'
    BY <2>1, <2>2 DEF MailInv, ArchiveTypeOK
  <2>4. \A f \in Forms : ~InFlight(f)'
    BY <2>1, <2>2 DEF InFlight
  <2>5. AnswersShown'
    BY <2>2 DEF MailInv, AnswersShown
  <2> QED
    BY <2>3, <2>4, <2>5 DEF MailInv, FormsAlone
<1> QED
  BY <1>1, <1>2, <1>3, <1>4, <1>5, <1>6 DEF ArchiveNext

LEMMA MailStays == ArchiveSpec => []MailInv
BY MailStart, MailStep, PTL DEF ArchiveSpec

(* A chat shows how the mail of its last contact form went, whatever is    *)
(* closed, reopened, trashed, restored, deleted or exported meanwhile,     *)
(* unless the answer came before the close was written, two forms of the   *)
(* chat were in flight, or the server restarted.                           *)
THEOREM MailShown == ArchiveSpec => []MailShownAsItWent
<1>1. MailInv => MailShownAsItWent
  BY DEF MailInv, AnswersShown, MailShownAsItWent
<1> QED
  BY <1>1, MailStays, PTL

-----------------------------------------------------------------------------
(* Least and greatest ids, and the newest rows of the history.             *)
LEMMA LeastOf ==
  ASSUME NEW S \in SUBSET Nat, S # {}
  PROVE  \E m \in S : \A n \in S : m <= n
<1> DEFINE R == OpToRel(<, Nat)
<1>1. IsWellFoundedOn(R, Nat)
  BY NatLessThanWellFounded
<1>2. \A x, y \in Nat : y < x => <<y, x>> \in R
  BY DEF OpToRel
<1> HIDE DEF R
<1>3. \E x \in S : \A y \in S : ~ (<<y, x>> \in R)
  BY <1>1, WFMin
<1>4. PICK x \in S : \A y \in S : ~ (<<y, x>> \in R)
  BY <1>3
<1>5. \A y \in S : x <= y
  <2> TAKE y \in S
  <2>1. x \in Nat /\ y \in Nat /\ ~(<<y, x>> \in R)
    BY <1>4
  <2>2. ~(y < x)
    BY <1>2, <2>1
  <2> QED
    BY <2>1, <2>2
<1> QED
  BY <1>5

LEMMA GreatestOf ==
  ASSUME NEW S \in SUBSET Nat, S # {}, NEW b \in Nat, \A n \in S : n <= b
  PROVE  \E m \in S : \A n \in S : n <= m
<1> DEFINE M == {b - n : n \in S}
<1>1. M \in SUBSET Nat /\ M # {}
  <2>1. \A n \in S : n \in Nat /\ b - n \in Nat
    OBVIOUS
  <2> QED
    BY <2>1, Zenon
<1>2. PICK k \in M : \A j \in M : k <= j
  BY <1>1, LeastOf
<1>3. PICK m \in S : k = b - m
  BY <1>2
<1>4. \A n \in S : n <= m
  <2> TAKE n \in S
  <2>1. b - n \in M
    OBVIOUS
  <2>2. b - m <= b - n /\ m \in Nat /\ n \in Nat
    BY <1>2, <1>3, <2>1
  <2> QED
    BY <2>2
<1> QED
  BY <1>4

(* The newest rows are all the rows after one of them, and if they are     *)
(* fewer than were asked for, they are all the rows there are.             *)
LEMMA NewestRows ==
  ASSUME NEW S \in SUBSET Nat, NEW b \in Nat, \A c \in S : c <= b, NEW n \in Nat
  PROVE  /\ Newest(S, n) \subseteq S
         /\ \A c \in Newest(S, n), d \in S : c <= d => d \in Newest(S, n)
         /\ Cardinality(Newest(S, n)) < n => Newest(S, n) = S
<1> DEFINE after(c) == {d \in S : d > c}
<1>1. IsFiniteSet(S)
  BY FS_BoundedSetOfNaturals
<1>2. \A c : IsFiniteSet(after(c)) /\ Cardinality(after(c)) \in Nat
  <2> TAKE c
  <2>1. after(c) \in SUBSET S
    OBVIOUS
  <2> QED
    BY <1>1, <2>1, FS_Subset, FS_CardinalityType
<1>3. Newest(S, n) \subseteq S
  BY DEF Newest
<1>4. ASSUME NEW c \in Newest(S, n), NEW d \in S, c <= d PROVE d \in Newest(S, n)
  <2>1. c \in S /\ Cardinality(after(c)) < n
    BY DEF Newest
  <2>2. after(d) \in SUBSET after(c)
    <3>1. \A k \in S : k > d => k > c
      <4> TAKE k \in S
      <4>1. c \in Nat /\ d \in Nat /\ k \in Nat
        BY <2>1
      <4> QED
        BY <1>4, <4>1
    <3> QED
      BY <3>1
  <2>3. Cardinality(after(d)) <= Cardinality(after(c))
    BY <1>2, <2>2, FS_Subset
  <2>4. Cardinality(after(d)) < n
    BY <1>2, <2>1, <2>3
  <2> QED
    BY <2>4 DEF Newest
<1>5. ASSUME Cardinality(Newest(S, n)) < n PROVE Newest(S, n) = S
  <2> DEFINE out == S \ Newest(S, n)
  <2>1. ASSUME out # {} PROVE FALSE
    <3>1. out \in SUBSET Nat /\ \A c \in out : c <= b
      OBVIOUS
    <3>2. PICK c \in out : \A d \in out : d <= c
      BY <2>1, <3>1, GreatestOf
    <3>3. after(c) \in SUBSET Newest(S, n)
      <4>1. \A d \in after(c) : d \notin out
        BY <3>2
      <4> QED
        BY <4>1
    <3>4. Newest(S, n) \in SUBSET S
      BY <1>3
    <3>5. IsFiniteSet(Newest(S, n)) /\ Cardinality(Newest(S, n)) \in Nat
      BY <1>1, <3>4, FS_Subset, FS_CardinalityType
    <3>6. Cardinality(after(c)) <= Cardinality(Newest(S, n))
      BY <3>3, <3>5, FS_Subset
    <3>7. Cardinality(after(c)) < n
      BY <1>2, <1>5, <3>5, <3>6
    <3>8. c \in Newest(S, n)
      BY <3>7 DEF Newest
    <3> QED
      BY <3>8
  <2> QED
    BY <1>3, <2>1
<1> QED
  BY <1>3, <1>4, <1>5

LEMMA NewestOne ==
  ASSUME NEW S \in SUBSET Nat, NEW b \in S, \A c \in S : c <= b
  PROVE  Newest(S, 1) = {b}
<1> DEFINE after(c) == {d \in S : d > c}
<1>1. \A c : IsFiniteSet(after(c)) /\ Cardinality(after(c)) \in Nat
  <2> TAKE c
  <2>1. after(c) \in SUBSET S /\ b \in Nat /\ IsFiniteSet(S)
    BY FS_BoundedSetOfNaturals
  <2> QED
    BY <2>1, FS_Subset, FS_CardinalityType
<1>2. \A c : Cardinality(after(c)) < 1 <=> after(c) = {}
  <2> TAKE c
  <2>1. Cardinality(after(c)) < 1 <=> Cardinality(after(c)) = 0
    BY <1>1
  <2> QED
    BY <1>1, <2>1, FS_EmptySet
<1>3. ASSUME NEW c \in S PROVE Cardinality(after(c)) < 1 <=> c = b
  <2>1. c \in Nat /\ b \in Nat /\ c <= b
    OBVIOUS
  <2>2. CASE c = b
    <3>1. \A d \in S : ~(d > c)
      <4> TAKE d \in S
      <4>1. d \in Nat /\ d <= b
        OBVIOUS
      <4> QED
        BY <2>1, <2>2, <4>1
    <3>2. after(c) = {}
      BY <3>1
    <3> QED
      BY <1>2, <2>2, <3>2
  <2>3. CASE c # b
    <3>1. b \in after(c)
      BY <2>1, <2>3
    <3> QED
      BY <1>2, <2>3, <3>1
  <2> QED
    BY <2>2, <2>3
<1>4. Newest(S, 1) = {c \in S : Cardinality(after(c)) < 1}
  BY DEF Newest
<1> HIDE DEF after
<1> QED
  BY <1>3, <1>4

-----------------------------------------------------------------------------
(* The export.  What has been in the history all along is in it; unless    *)
(* the export has slipped, its batches hold nothing before the cursor, and *)
(* of what has been there all along they have, once, what is not before    *)
(* the cursor, and in the end everything.                                  *)
ExportType ==
  [at : {"idle", "reading", "done"}, sent : SUBSET BOOLEAN, cursor : Nat \cup {None},
   batches : Seq(SUBSET Nat), throughout : SUBSET Nat, slipped : BOOLEAN]

Taken(c) == {n \in DOMAIN export.batches : c \in export.batches[n]}
Passed(c) == export.at = "done" \/ (export.cursor # None /\ export.cursor <= c)

BatchesOnce ==
  /\ \A n \in DOMAIN export.batches : \A c \in export.batches[n] :
       export.cursor # None /\ export.cursor <= c
  /\ \A c \in export.throughout : Passed(c) => \E n : Taken(c) = {n}

ExportInv ==
  /\ export \in ExportType
  /\ export.throughout \subseteq ChatHistory(chats, export.sent)
  /\ ~export.slipped => BatchesOnce

LEMMA ExportStart ==
  ASSUME export = NoExport
  PROVE  ExportInv
<1>1. << >> \in Seq(SUBSET Nat) /\ DOMAIN << >> = {}
  OBVIOUS
<1>2. NoExport \in ExportType /\ NoExport.throughout = {} /\ NoExport.batches = << >>
  BY <1>1 DEF NoExport, ExportType
<1> QED
  BY <1>1, <1>2 DEF ExportInv, BatchesOnce

LEMMA ExportForgotten ==
  ASSUME export' = NoExport
  PROVE  ExportInv'
<1>1. << >> \in Seq(SUBSET Nat) /\ DOMAIN << >> = {}
  OBVIOUS
<1>2. NoExport \in ExportType /\ NoExport.throughout = {} /\ NoExport.batches = << >>
  BY <1>1 DEF NoExport, ExportType
<1> QED
  BY <1>1, <1>2 DEF ExportInv, BatchesOnce

LEMMA HistoryTyped ==
  ASSUME ArchiveTypeOK, NEW sent
  PROVE  /\ ChatHistory(chats, sent) \in SUBSET DOMAIN chats
         /\ \A c \in ChatHistory(chats, sent) : c \in Nat /\ c <= nextChat
         /\ ChatHistory(chats, sent) \in SUBSET Nat
<1>1. ChatHistory(chats, sent) \in SUBSET DOMAIN chats
  BY DEF ChatHistory
<1>2. \A c \in DOMAIN chats : c \in Nat /\ c <= nextChat
  BY DEF ArchiveTypeOK
<1> QED
  BY <1>1, <1>2

LEMMA ExportWritten ==
  ASSUME ExportInv, NEW table, WriteChats(table)
  PROVE  ExportInv'
<1> DEFINE kept == export.throughout \cap ChatHistory(table, export.sent)
<1>1. chats' = table /\ export' = [export EXCEPT !.throughout = kept]
  BY DEF WriteChats
<1>2. kept \in SUBSET Nat /\ kept \subseteq export.throughout
      /\ kept \subseteq ChatHistory(table, export.sent)
  BY DEF ExportInv, ExportType
<1> HIDE DEF kept
<1>3. /\ export' \in ExportType /\ export'.throughout = kept /\ export'.at = export.at
      /\ export'.sent = export.sent /\ export'.cursor = export.cursor
      /\ export'.batches = export.batches /\ export'.slipped = export.slipped
  BY <1>1, <1>2 DEF ExportInv, ExportType
<1>4. \A c : (Taken(c)' = Taken(c)) /\ (Passed(c)' <=> Passed(c))
  BY <1>3 DEF Taken, Passed
<1>5. BatchesOnce => BatchesOnce'
  BY <1>2, <1>3, <1>4 DEF BatchesOnce
<1> QED
  BY <1>1, <1>2, <1>3, <1>5 DEF ExportInv

LEMMA ExportStands ==
  ASSUME ExportInv, UNCHANGED <<chats, export>>
  PROVE  ExportInv'
BY DEF ExportInv, BatchesOnce, Taken, Passed

LEMMA ExportBegins ==
  ASSUME ArchiveTypeOK, NEW sent \in SUBSET BOOLEAN, ExportChatHistory(sent)
  PROVE  ExportInv'
<1> DEFINE all == ChatHistory(chats, sent)
<1>1. export' = [NoExport EXCEPT !.at = "reading", !.sent = sent, !.throughout = all]
      /\ chats' = chats
  BY DEF ExportChatHistory, chatTables
<1>2. all \in SUBSET Nat
  BY HistoryTyped
<1>3. << >> \in Seq(SUBSET Nat) /\ DOMAIN << >> = {}
  OBVIOUS
<1>4. NoExport \in ExportType /\ NoExport.batches = << >> /\ NoExport.cursor = None
  BY <1>3 DEF NoExport, ExportType
<1> HIDE DEF all
<1>5. /\ export' \in ExportType /\ export'.at = "reading" /\ export'.sent = sent
      /\ export'.throughout = all /\ export'.batches = << >> /\ export'.cursor = None
  BY <1>1, <1>2, <1>4 DEF ExportType
<1>6. BatchesOnce'
  BY <1>3, <1>5 DEF BatchesOnce, Passed
<1> QED
  BY <1>1, <1>5, <1>6 DEF ExportInv, all

(* What a batch holds when the cursor is still in the history.             *)
LEMMA BatchIsNewest ==
  ASSUME ArchiveTypeOK, export \in ExportType,
         export.cursor = None \/ export.cursor \in ChatHistory(chats, export.sent),
         NEW left, left = {c \in ChatHistory(chats, export.sent) :
                             export.cursor # None => c < export.cursor}
  PROVE  Batch(export.cursor) = Newest(left, BatchSize)
<1> DEFINE hist == ChatHistory(chats, export.sent)
           cursor == export.cursor
           from == {c \in hist : cursor # None => c <= cursor}
<1>1. /\ hist \in SUBSET DOMAIN chats /\ hist \in SUBSET Nat
      /\ \A c \in hist : c \in Nat /\ c <= nextChat
  BY HistoryTyped
<1> HIDE DEF hist
<1>2. CASE cursor = None
  <2>1. from = left
    BY <1>2 DEF hist
  <2>2. Batch(cursor) = Newest(from, BatchSize)
    <3>1. None \notin DOMAIN chats
      BY NoneIsNoChat DEF ArchiveTypeOK
    <3> QED
      BY <1>2, <3>1 DEF Batch, hist
  <2> QED
    BY <2>1, <2>2
<1>3. CASE cursor # None
  <2>1. cursor \in hist /\ cursor \in DOMAIN chats /\ cursor \in Nat
    BY <1>1, <1>3 DEF hist
  <2>2. Batch(cursor) = Newest(from \ Newest(from, 1), BatchSize)
    BY <1>3, <2>1 DEF Batch, hist
  <2>3. cursor \in from /\ from \in SUBSET Nat /\ \A c \in from : c <= cursor
    BY <1>1, <1>3, <2>1
  <2>4. Newest(from, 1) = {cursor}
    BY <2>3, NewestOne
  <2>5. from \ {cursor} = left
    <3>1. \A c \in hist : (c <= cursor /\ c # cursor) <=> c < cursor
      BY <1>1, <2>1
    <3> QED
      BY <1>3, <3>1 DEF hist
  <2> QED
    BY <2>2, <2>4, <2>5
<1> QED
  BY <1>2, <1>3

LEMMA BatchWritten ==
  ASSUME ArchiveTypeOK, ExportInv, NextBatch
  PROVE  ExportInv'
<1> DEFINE batch == Batch(export.cursor)
           hist == ChatHistory(chats, export.sent)
           slip == export.cursor # None /\ export.cursor \notin hist
           last == CHOOSE c \in batch : \A d \in batch : c <= d
           at == IF Cardinality(batch) < BatchSize THEN "done" ELSE export.at
           batches == IF batch = {} THEN export.batches ELSE Append(export.batches, batch)
           cursor == IF batch = {} THEN export.cursor ELSE last
           left == {c \in hist : export.cursor # None => c < export.cursor}
<1>1. /\ export' = [export EXCEPT !.at = at, !.batches = batches, !.cursor = cursor,
                                  !.slipped = export.slipped \/ slip]
      /\ export.at = "reading" /\ chats' = chats
  BY DEF NextBatch, chatTables
<1>2. /\ hist \in SUBSET Nat /\ hist \in SUBSET DOMAIN chats
      /\ \A c \in hist : c \in Nat /\ c <= nextChat
      /\ nextChat \in Nat
  BY HistoryTyped DEF ArchiveTypeOK
<1>3. /\ export \in ExportType /\ export.batches \in Seq(SUBSET Nat)
      /\ export.cursor \in Nat \cup {None} /\ export.slipped \in BOOLEAN
      /\ export.throughout \subseteq hist
  BY DEF ExportInv, ExportType
<1>4. batch \in SUBSET hist
  <2>1. \A S, n : Newest(S, n) \subseteq S
    BY DEF Newest
  <2> DEFINE from == {c \in hist : export.cursor # None => c <= export.cursor}
  <2>2. batch \in {Newest(from, BatchSize), Newest(from \ Newest(from, 1), BatchSize), {}}
    BY Zenon DEF Batch
  <2> HIDE DEF batch, hist
  <2> QED
    BY <2>1, <2>2
<1>5. batch # {} => last \in batch /\ \A d \in batch : last <= d
  <2>1. batch \in SUBSET Nat
    BY <1>2, <1>4
  <2> HIDE DEF batch
  <2> QED
    BY <2>1, LeastOf
<1>6. ~slip => batch = Newest(left, BatchSize)
  BY <1>3, BatchIsNewest
<1> HIDE DEF batch, hist, last
<1>7. /\ at \in {"idle", "reading", "done"} /\ cursor \in Nat \cup {None}
      /\ batches \in Seq(SUBSET Nat)
  <2>1. at \in {"idle", "reading", "done"}
    BY <1>1
  <2>2. cursor \in Nat \cup {None}
    BY <1>2, <1>3, <1>4, <1>5
  <2>3. batches \in Seq(SUBSET Nat)
    <3>1. batch \in SUBSET Nat
      BY <1>2, <1>4
    <3>2. Append(export.batches, batch) \in Seq(SUBSET Nat)
      BY <1>3, <3>1
    <3> QED
      BY <1>3, <3>2
  <2> QED
    BY <2>1, <2>2, <2>3
<1> HIDE DEF at, cursor, batches, slip
<1>8. /\ export' \in ExportType /\ export'.at = at /\ export'.sent = export.sent
      /\ export'.throughout = export.throughout /\ export'.batches = batches
      /\ export'.cursor = cursor /\ (export'.slipped <=> export.slipped \/ slip)
  BY <1>1, <1>3, <1>7 DEF ExportType
<1>9. ASSUME ~export.slipped, ~slip PROVE BatchesOnce'
  <2>1. BatchesOnce
    BY <1>9 DEF ExportInv
  <2>2. /\ left \in SUBSET Nat /\ \A c \in left : c <= nextChat
        /\ BatchSize \in Nat \ {0}
    BY <1>2, ArchiveBounds
  <2>3. /\ batch \in SUBSET left
        /\ \A c \in batch, d \in left : c <= d => d \in batch
        /\ Cardinality(batch) < BatchSize => batch = left
    BY <1>2, <1>6, <1>9, <2>2, NewestRows
  <2>4. \A c \in left, n \in DOMAIN export.batches : c \notin export.batches[n]
    <3> SUFFICES ASSUME NEW c \in left, NEW n \in DOMAIN export.batches, c \in export.batches[n]
                 PROVE  FALSE
      OBVIOUS
    <3>1. export.cursor # None /\ export.cursor <= c
      BY <2>1 DEF BatchesOnce
    <3>2. c < export.cursor /\ export.cursor \in Nat /\ c \in Nat
      BY <1>3, <2>2, <3>1
    <3> QED
      BY <3>1, <3>2
  <2>5. \A c \in hist \ left : export.cursor # None /\ export.cursor <= c
    <3> TAKE c \in hist \ left
    <3>1. export.cursor # None /\ ~(c < export.cursor) /\ c \in Nat
      BY <1>2
    <3> QED
      BY <1>3, <3>1
  <2>6. CASE batch = {}
    <3>1. Cardinality(batch) = 0
      BY <2>6, FS_EmptySet
    <3>2. left = {} /\ cursor = export.cursor /\ batches = export.batches
      BY <2>2, <2>3, <2>6, <3>1 DEF cursor, batches
    <3> HIDE DEF left
    <3>3. \A c : Taken(c)' = Taken(c)
      BY <1>8, <3>2 DEF Taken
    <3>4. ASSUME NEW c \in export.throughout PROVE \E n : Taken(c)' = {n}
      <4>1. Passed(c)
        BY <1>3, <2>5, <3>2 DEF Passed
      <4> QED
        BY <2>1, <3>3, <4>1 DEF BatchesOnce
    <3> QED
      BY <1>8, <2>1, <3>2, <3>4 DEF BatchesOnce
  <2>7. CASE batch # {}
    <3> DEFINE k == Len(export.batches) + 1
    <3> HIDE DEF left
    <3>1. /\ cursor = last /\ last \in batch /\ last \in left /\ last \in Nat
          /\ \A d \in batch : last <= d
      BY <1>2, <1>5, <2>2, <2>3, <2>7 DEF cursor
    <3>2. /\ DOMAIN batches = DOMAIN export.batches \cup {k} /\ k \notin DOMAIN export.batches
          /\ batches[k] = batch
          /\ \A n \in DOMAIN export.batches : batches[n] = export.batches[n]
      BY <1>3, <2>7 DEF batches
    <3> HIDE DEF k
    <3>3. cursor # None
      BY <3>1, NoneIsNoChat
    <3>4. ASSUME NEW n \in DOMAIN export.batches, NEW c \in export.batches[n]
          PROVE  cursor <= c
      <4>1. export.cursor # None /\ export.cursor <= c /\ export.cursor \in Nat
        BY <1>3, <2>1 DEF BatchesOnce
      <4>2. last < export.cursor
        BY <3>1, <4>1 DEF left
      <4>3. c \in Nat
        BY <1>3
      <4> QED
        BY <3>1, <4>1, <4>2, <4>3
    <3>5. \A n \in DOMAIN export'.batches : \A c \in export'.batches[n] :
            export'.cursor # None /\ export'.cursor <= c
      BY <1>8, <3>1, <3>2, <3>3, <3>4
    <3>6. ASSUME NEW c \in export.throughout, Passed(c)' PROVE \E n : Taken(c)' = {n}
      <4>1. Taken(c)' = {n \in DOMAIN batches : c \in batches[n]}
        BY <1>8 DEF Taken
      <4>2. CASE c \in left
        <5>1. c \in batch
          <6>1. at = "done" => batch = left
            BY <1>1, <2>3 DEF at
          <6>2. at # "done" => last <= c
            BY <1>8, <3>1, <3>6 DEF Passed
          <6> QED
            BY <2>3, <3>1, <4>2, <6>1, <6>2
        <5>2. Taken(c)' = {k}
          BY <2>4, <3>2, <4>1, <4>2, <5>1
        <5> QED
          BY <5>2
      <4>3. CASE c \notin left
        <5>1. Passed(c)
          BY <1>3, <2>5, <4>3 DEF Passed
        <5>2. PICK n : Taken(c) = {n}
          BY <2>1, <5>1 DEF BatchesOnce
        <5>3. Taken(c)' = {n}
          BY <2>3, <3>2, <4>1, <4>3, <5>2 DEF Taken
        <5> QED
          BY <5>3
      <4> QED
        BY <4>2, <4>3
    <3> QED
      BY <1>8, <3>5, <3>6 DEF BatchesOnce
  <2> QED
    BY <2>6, <2>7
<1>10. export'.throughout \subseteq ChatHistory(chats', export'.sent)
  BY <1>1, <1>3, <1>8 DEF hist
<1> QED
  BY <1>8, <1>9, <1>10 DEF ExportInv

ArchiveInv == MailInv /\ ExportInv

LEMMA ArchiveStep == ArchiveInv /\ [ArchiveNext]_archiveVars => ArchiveInv'
<1> SUFFICES ASSUME ArchiveInv, [ArchiveNext]_archiveVars PROVE ArchiveInv'
  OBVIOUS
<1>0. MailInv /\ ArchiveTypeOK /\ ExportInv /\ MailInv'
  BY MailStep DEF ArchiveInv, MailInv
<1> SUFFICES ExportInv'
  BY <1>0 DEF ArchiveInv
<1>1. \A table : WriteChats(table) => ExportInv'
  BY <1>0, ExportWritten
<1>2. UNCHANGED <<chats, export>> => ExportInv'
  BY <1>0, ExportStands
<1>3. CASE UNCHANGED archiveVars
  BY <1>2, <1>3 DEF archiveVars, chatTables
<1>4. CASE StartSession
  BY <1>1, <1>4 DEF StartSession
<1>5. ASSUME NEW c \in DOMAIN chats, CloseSession(c) \/ ReopenSession(c) \/ TrashSession(c)
      PROVE  ExportInv'
  BY <1>1, <1>2, <1>5 DEF CloseSession, ReopenSession, TrashSession, chatTables
<1>6. ASSUME NEW ids, BulkTrashSessions(ids) \/ RestoreSessions(ids) \/ HardDeleteSessions(ids)
      PROVE  ExportInv'
  BY <1>1, <1>6 DEF BulkTrashSessions, RestoreSessions, HardDeleteSessions
<1>7. ASSUME NEW sent \in SUBSET BOOLEAN, ExportChatHistory(sent) PROVE ExportInv'
  BY <1>0, <1>7, ExportBegins
<1>8. ASSUME NEW c \in trashing, WriteTrash(c) PROVE ExportInv'
  BY <1>1, <1>2, <1>8 DEF WriteTrash
<1>9. ASSUME NEW f \in Forms,
             \/ \E c \in DOMAIN chats, full \in BOOLEAN : LeaveContactInfo(f, c, full)
             \/ CloseWithContactRequest(f)
             \/ \E sent \in BOOLEAN : MarkContactRequestEmailSent(f, sent)
      PROVE  ExportInv'
  BY <1>1, <1>2, <1>9
     DEF LeaveContactInfo, CloseWithContactRequest, MarkContactRequestEmailSent, chatTables
<1>10. CASE NextBatch
  BY <1>0, <1>10, BatchWritten
<1>11. CASE RestartServer
  <2>1. export' = NoExport
    BY <1>11 DEF RestartServer
  <2> QED
    BY <2>1, ExportForgotten
<1> QED
  BY <1>3, <1>4, <1>5, <1>6, <1>7, <1>8, <1>9, <1>10, <1>11
     DEF ArchiveNext, ChatRoutes

LEMMA ArchiveStays == ArchiveSpec => []ArchiveInv
<1>1. ArchiveInit => ArchiveInv
  BY MailStart, ExportStart DEF ArchiveInit, ArchiveInv
<1> QED
  BY <1>1, ArchiveStep, PTL DEF ArchiveSpec

(* An export that nothing slipped under has every chat that was in the     *)
(* filtered history from its first batch to its last, once, however the    *)
(* chats are closed, reopened, trashed, restored and deleted between the   *)
(* batches (iterateChatHistoryForExport).                                  *)
THEOREM ExportComplete == ArchiveSpec => []ExportLosesBySlipOnly
<1>1. ArchiveInv => ExportLosesBySlipOnly
  <2> SUFFICES ASSUME ArchiveInv, export.at = "done", ~export.slipped,
                      NEW c \in export.throughout
               PROVE  Cardinality({n \in DOMAIN export.batches : c \in export.batches[n]}) = 1
    BY DEF ExportLosesBySlipOnly
  <2>1. \E n : Taken(c) = {n}
    BY DEF ArchiveInv, ExportInv, BatchesOnce, Passed
  <2> QED
    BY <2>1, FS_Singleton DEF Taken
<1> QED
  BY <1>1, ArchiveStays, PTL

-----------------------------------------------------------------------------
(***************************************************************************)
(* Sockets and who sits behind them.                                       *)
(***************************************************************************)

WireType == [at : {"open", "lost", "gone"}, user : Operators \cup {None}]
HandlerType == [does : {None, "start", "rejoin", "join"}, chat : Nat]
SlipsType ==
  [overtaken : SUBSET Nat, missed : SUBSET Nat,
   eclipsed : SUBSET Operators, ghosts : SUBSET Operators]

PresenceTypeOK ==
  /\ wire \in [Sockets -> WireType]
  /\ handling \in [Sockets -> HandlerType]
  /\ \E n \in Nat : DOMAIN talks = 1 .. n
  /\ talks \in [DOMAIN talks -> BOOLEAN]
  /\ seat \in [Sockets -> {0} \cup DOMAIN talks]
  /\ vanished \subseteq DOMAIN talks /\ closing \subseteq DOMAIN talks
  /\ online \in [Operators -> Sockets \cup {None}]
  /\ leaving \subseteq Operators
  /\ registered \subseteq Sockets
  /\ slips \in SlipsType

(* What a handler knows of its socket while it awaits: a rejoin its chat,  *)
(* a join that the socket has an operator's identity.                      *)
HandlersKnow ==
  \A k \in Sockets :
    /\ handling[k].does = "rejoin" => handling[k].chat \in DOMAIN talks
    /\ handling[k].does = "join" => wire[k].user \in Operators

(* A tab that counts as joined has an identity and is not known as gone.   *)
TabsAreThere ==
  \A k \in registered : ~Gone(k) /\ wire[k].user \in Operators

(* An operator on the way offline has no tab left, unless a tab that       *)
(* joined later was lost before.                                           *)
LeavingHaveNoTab ==
  \A o \in leaving : TabsOf(o) = {} \/ o \in slips.eclipsed

OperatorsInv == TabsAreThere /\ LeavingHaveNoTab /\ PresenceFollowsTabs

PresenceIInv ==
  PresenceTypeOK /\ HandlersKnow /\ OperatorsInv /\ ChatsFollowPages

LEMMA PresenceStart == PresenceInit => PresenceIInv
<1> SUFFICES ASSUME PresenceInit PROVE PresenceIInv
  OBVIOUS
<1>1. DOMAIN talks = {} /\ talks = << >>
  BY DEF PresenceInit
<1>2. PresenceTypeOK
  <2>1. DOMAIN talks = 1 .. 0
    BY <1>1
  <2>2. talks \in [DOMAIN talks -> BOOLEAN]
    BY <1>1
  <2> QED
    BY <2>1, <2>2 DEF PresenceInit, PresenceTypeOK, WireType, HandlerType, SlipsType, Unhandled, NoSlips
<1>3. HandlersKnow
  BY NoneIsNobody DEF PresenceInit, HandlersKnow, Unhandled
<1>4. OperatorsInv
  BY DEF PresenceInit, OperatorsInv, TabsAreThere, LeavingHaveNoTab, PresenceFollowsTabs, TabsOf
<1> QED
  BY <1>1, <1>2, <1>3, <1>4 DEF PresenceIInv, ChatsFollowPages

-----------------------------------------------------------------------------
(* Steps that leave one of the two sides as it is.                         *)
LEMMA OperatorsUntouched ==
  ASSUME PresenceTypeOK, OperatorsInv, UNCHANGED operatorSide,
         slips'.eclipsed = slips.eclipsed, slips'.ghosts = slips.ghosts,
         \A k \in Sockets :
           k \in registered \/ (\E o \in Operators : online[o] = k) =>
             wire'[k].user = wire[k].user /\ (Gone(k)' <=> Gone(k))
  PROVE  OperatorsInv'
<1>1. /\ registered \subseteq Sockets
      /\ \A o \in Operators : online[o] # None => online[o] \in Sockets
  BY DEF PresenceTypeOK
<1>2. UNCHANGED <<online, leaving, registered>>
  BY DEF operatorSide
<1>3. \A o : TabsOf(o)' = TabsOf(o)
  BY <1>1, <1>2 DEF TabsOf
<1>4. TabsAreThere'
  BY <1>1, <1>2 DEF OperatorsInv, TabsAreThere
<1>5. LeavingHaveNoTab'
  BY <1>2, <1>3 DEF OperatorsInv, LeavingHaveNoTab
<1>6. \A o \in Operators : online[o] # None => (Gone(online[o])' <=> Gone(online[o]))
  BY <1>1, <1>2
<1>7. PresenceFollowsTabs'
  BY <1>2, <1>3, <1>6 DEF OperatorsInv, PresenceFollowsTabs
<1> QED
  BY <1>4, <1>5, <1>7 DEF OperatorsInv

LEMMA VisitorsUntouched ==
  ASSUME ChatsFollowPages, UNCHANGED visitorSide,
         slips'.overtaken = slips.overtaken, slips'.missed = slips.missed,
         \A c \in DOMAIN talks : \A k \in Sitters(c) :
           /\ wire'[k].at = "open" => wire[k].at = "open"
           /\ wire'[k].at = "gone" => wire[k].at = "gone"
  PROVE  ChatsFollowPages'
<1>1. \A c : Sitters(c)' = Sitters(c)
  BY DEF Sitters, visitorSide
<1> QED
  BY <1>1 DEF visitorSide, ChatsFollowPages, Gone

-----------------------------------------------------------------------------
LEMMA ConnectPreserves ==
  ASSUME PresenceIInv, NEW k \in Sockets, Connect(k)
  PROVE  PresenceIInv'
<1>1. /\ wire' = [wire EXCEPT ![k] = [at |-> "open", user |-> None]]
      /\ UNCHANGED <<handling, visitorSide, operatorSide, slips>>
      /\ Gone(k) /\ seat[k] = 0 /\ handling[k] = Unhandled /\ \A o \in Operators : online[o] # k
  BY DEF Connect, Referred
<1>2. PresenceTypeOK'
  BY <1>1 DEF PresenceIInv, PresenceTypeOK, WireType, visitorSide, operatorSide
<1>3. HandlersKnow'
  BY <1>1, NoneIsNobody
     DEF PresenceIInv, PresenceTypeOK, HandlersKnow, Unhandled, visitorSide
<1>4. OperatorsInv'
  <2>1. k \notin registered
    BY <1>1 DEF PresenceIInv, OperatorsInv, TabsAreThere
  <2> QED
    BY <1>1, <2>1, OperatorsUntouched DEF PresenceIInv, PresenceTypeOK, Gone
<1>5. ChatsFollowPages'
  <2>1. \A c \in DOMAIN talks : k \notin Sitters(c)
    BY <1>1 DEF Sitters, PresenceIInv, PresenceTypeOK
  <2> QED
    BY <1>1, <2>1, VisitorsUntouched DEF PresenceIInv, PresenceTypeOK, Sitters
<1> QED
  BY <1>2, <1>3, <1>4, <1>5 DEF PresenceIInv

LEMMA HandleConnectionPreserves ==
  ASSUME PresenceIInv, NEW k \in Sockets, NEW o \in Operators, HandleConnection(k, o)
  PROVE  PresenceIInv'
<1>1. /\ wire' = [wire EXCEPT ![k].user = o]
      /\ UNCHANGED <<handling, visitorSide, operatorSide, slips>>
      /\ wire[k].user = None /\ \A p \in Operators : online[p] # k
  BY DEF HandleConnection, Referred
<1>2. \A q \in Sockets : /\ wire'[q].at = wire[q].at
                         /\ wire'[q].user = IF q = k THEN o ELSE wire[q].user
  BY <1>1 DEF PresenceIInv, PresenceTypeOK, WireType
<1>3. PresenceTypeOK'
  <2> DEFINE w == [wire[k] EXCEPT !.user = o]
  <2>1. wire \in [Sockets -> WireType] /\ wire[k] \in WireType
    BY DEF PresenceIInv, PresenceTypeOK
  <2>2. w \in WireType
    BY <2>1 DEF WireType
  <2>3. wire' = [wire EXCEPT ![k] = w]
    BY <1>1
  <2> HIDE DEF w
  <2>4. wire' \in [Sockets -> WireType]
    BY <2>1, <2>2, <2>3
  <2>5. UNCHANGED <<handling, talks, seat, vanished, closing, online, leaving, registered, slips>>
    BY <1>1 DEF visitorSide, operatorSide
  <2> QED
    BY <2>4, <2>5 DEF PresenceIInv, PresenceTypeOK
<1>4. HandlersKnow'
  <2>1. UNCHANGED <<handling, talks>>
    BY <1>1 DEF visitorSide
  <2> QED
    BY <1>2, <2>1 DEF PresenceIInv, HandlersKnow
<1>5. OperatorsInv'
  <2>1. k \notin registered
    BY <1>1, NoneIsNobody DEF PresenceIInv, OperatorsInv, TabsAreThere
  <2> QED
    BY <1>1, <1>2, <2>1, OperatorsUntouched DEF PresenceIInv, Gone
<1>6. ChatsFollowPages'
  BY <1>1, <1>2, VisitorsUntouched DEF PresenceIInv, Sitters
<1> QED
  BY <1>3, <1>4, <1>5, <1>6 DEF PresenceIInv

LEMMA DropPreserves ==
  ASSUME PresenceIInv, NEW k \in Sockets, Drop(k)
  PROVE  PresenceIInv'
<1>1. /\ wire' = [wire EXCEPT ![k].at = "lost"]
      /\ UNCHANGED <<handling, visitorSide, operatorSide, slips>>
      /\ wire[k].at = "open"
  BY DEF Drop
<1>2. \A q \in Sockets : /\ wire'[q].user = wire[q].user
                         /\ wire'[q].at = IF q = k THEN "lost" ELSE wire[q].at
  BY <1>1 DEF PresenceIInv, PresenceTypeOK, WireType
<1>3. PresenceTypeOK'
  BY <1>1 DEF PresenceIInv, PresenceTypeOK, WireType, visitorSide, operatorSide
<1>4. HandlersKnow'
  BY <1>1, <1>2 DEF PresenceIInv, HandlersKnow, visitorSide
<1>5. OperatorsInv'
  BY <1>1, <1>2, OperatorsUntouched DEF PresenceIInv, Gone
<1>6. ChatsFollowPages'
  BY <1>1, <1>2, VisitorsUntouched DEF PresenceIInv, Sitters
<1> QED
  BY <1>3, <1>4, <1>5, <1>6 DEF PresenceIInv

LEMMA HandleDisconnectPreserves ==
  ASSUME PresenceIInv, NEW k \in Sockets, HandleDisconnect(k)
  PROVE  PresenceIInv'
<1> DEFINE c == seat[k]
           its == {o \in Operators : online[o] = k}
           others == {x \in Sitters(c) \ {k} : wire[x].at = "open"}
<1>1. /\ wire[k].at = "lost"
      /\ wire' = [wire EXCEPT ![k].at = "gone"]
      /\ leaving' = leaving \cup its
      /\ registered' = registered \ {k}
      /\ seat' = [seat EXCEPT ![k] = 0]
      /\ vanished' = IF c = 0 THEN vanished ELSE vanished \cup {c}
      /\ slips' = [slips EXCEPT
           !.overtaken = IF c # 0 /\ others # {} THEN @ \cup {c} ELSE @ \ {c},
           !.eclipsed = @ \cup {o \in its : TabsOf(o) \ {k} # {}}]
      /\ UNCHANGED <<handling, talks, closing, online, restarts>>
  BY DEF HandleDisconnect
<1>2. /\ slips \in SlipsType
      /\ slips'.overtaken = IF c # 0 /\ others # {} THEN slips.overtaken \cup {c}
                                                    ELSE slips.overtaken \ {c}
      /\ slips'.missed = slips.missed /\ slips'.ghosts = slips.ghosts
      /\ slips'.eclipsed = slips.eclipsed \cup {o \in its : TabsOf(o) \ {k} # {}}
  BY <1>1 DEF PresenceIInv, PresenceTypeOK, SlipsType
<1>3. /\ c \in {0} \cup DOMAIN talks /\ DOMAIN talks \subseteq Nat
      /\ 0 \notin DOMAIN talks
  BY DEF PresenceIInv, PresenceTypeOK
<1>4. \A q \in Sockets : /\ wire'[q].user = wire[q].user
                         /\ wire'[q].at = IF q = k THEN "gone" ELSE wire[q].at
  BY <1>1 DEF PresenceIInv, PresenceTypeOK, WireType
<1>5. \A q \in Sockets : seat'[q] = IF q = k THEN 0 ELSE seat[q]
  BY <1>1 DEF PresenceIInv, PresenceTypeOK
<1>6. slips' \in SlipsType
  <2>1. /\ slips.overtaken \cup {c} \in SUBSET Nat /\ slips.overtaken \ {c} \in SUBSET Nat
        /\ slips.eclipsed \cup {o \in its : TabsOf(o) \ {k} # {}} \in SUBSET Operators
    BY <1>2, <1>3 DEF SlipsType
  <2> HIDE DEF c, its, others
  <2> QED
    BY <1>1, <1>2, <2>1 DEF SlipsType
<1>7. PresenceTypeOK'
  <2>1. wire' \in [Sockets -> WireType]
    BY <1>1 DEF PresenceIInv, PresenceTypeOK, WireType
  <2>2. /\ seat' \in [Sockets -> {0} \cup DOMAIN talks'] /\ vanished' \subseteq DOMAIN talks'
        /\ leaving' \subseteq Operators /\ registered' \subseteq Sockets
    BY <1>1, <1>3 DEF PresenceIInv, PresenceTypeOK
  <2> QED
    BY <1>1, <1>6, <2>1, <2>2 DEF PresenceIInv, PresenceTypeOK
<1>8. HandlersKnow'
  BY <1>1, <1>4 DEF PresenceIInv, HandlersKnow
<1>9. OperatorsInv'
  <2>1. /\ registered \subseteq Sockets /\ online \in [Operators -> Sockets \cup {None}]
        /\ leaving \subseteq Operators
    BY DEF PresenceIInv, PresenceTypeOK
  <2>2. ASSUME NEW o PROVE TabsOf(o)' = TabsOf(o) \ {k}
    BY <1>1, <1>4, <2>1 DEF TabsOf
  <2>3. TabsAreThere'
    BY <1>1, <1>4, <2>1 DEF PresenceIInv, OperatorsInv, TabsAreThere, Gone
  <2>4. LeavingHaveNoTab'
    BY <1>1, <1>2, <2>1, <2>2 DEF PresenceIInv, OperatorsInv, LeavingHaveNoTab
  <2>5. \A o \in Operators : online[o] # None =>
          (Gone(online[o])' <=> Gone(online[o]) \/ online[o] = k)
    <3> SUFFICES ASSUME NEW o \in Operators, online[o] # None
                 PROVE  Gone(online[o])' <=> Gone(online[o]) \/ online[o] = k
      OBVIOUS
    <3>1. online[o] \in Sockets /\ online'[o] = online[o]
      BY <1>1, <2>1
    <3> QED
      BY <1>4, <3>1 DEF Gone
  <2>6. PresenceFollowsTabs'
    BY <1>1, <1>2, <2>1, <2>2, <2>5 DEF PresenceIInv, OperatorsInv, PresenceFollowsTabs
  <2> QED
    BY <2>3, <2>4, <2>6 DEF OperatorsInv
<1>10. ChatsFollowPages'
  <2>1. \A d \in DOMAIN talks : Sitters(d)' = Sitters(d) \ {k}
    BY <1>3, <1>5 DEF Sitters
  <2> SUFFICES ASSUME NEW d \in DOMAIN talks
               PROVE  /\ d \in vanished' /\ (\E q \in Sitters(d)' : wire'[q].at = "open") =>
                           d \in slips'.overtaken
                      /\ talks[d] /\ (\A q \in Sitters(d)' : wire'[q].at = "gone") =>
                           d \in vanished' \cup closing \cup slips'.missed
    BY <1>1 DEF ChatsFollowPages, Gone
  <2>2. /\ d \in vanished /\ (\E q \in Sitters(d) : wire[q].at = "open") => d \in slips.overtaken
        /\ talks[d] /\ (\A q \in Sitters(d) : wire[q].at = "gone") =>
             d \in vanished \cup closing \cup slips.missed
    BY DEF PresenceIInv, ChatsFollowPages, Gone
  <2>3. CASE d = c
    <3>1. d \in vanished' /\ (others # {} => d \in slips'.overtaken)
      BY <1>1, <1>2, <1>3, <2>3
    <3>2. (\E q \in Sitters(d)' : wire'[q].at = "open") => others # {}
      BY <1>4, <2>1, <2>3 DEF Sitters
    <3> QED
      BY <3>1, <3>2
  <2>4. CASE d # c
    <3>1. k \notin Sitters(d) /\ Sitters(d)' = Sitters(d)
      BY <2>1, <2>4 DEF Sitters
    <3>2. /\ d \in vanished' <=> d \in vanished
          /\ d \in slips.overtaken <=> d \in slips'.overtaken
      BY <1>1, <1>2, <2>4
    <3>3. \A q \in Sitters(d) : wire'[q].at = wire[q].at
      BY <1>4, <3>1 DEF Sitters
    <3> QED
      BY <1>2, <2>2, <3>1, <3>2, <3>3
  <2> QED
    BY <2>3, <2>4
<1> QED
  BY <1>7, <1>8, <1>9, <1>10 DEF PresenceIInv

-----------------------------------------------------------------------------
(* A handler of a visitor begins or is rejected.                           *)
LEMMA HandlingPreserves ==
  ASSUME PresenceIInv, NEW k \in Sockets, NEW h \in HandlerType,
         handling' = [handling EXCEPT ![k] = h],
         UNCHANGED <<wire, visitorSide, operatorSide, restarts, slips>>,
         h.does = "rejoin" => h.chat \in DOMAIN talks,
         h.does = "join" => wire[k].user \in Operators
  PROVE  PresenceIInv'
<1>1. PresenceTypeOK'
  BY DEF PresenceIInv, PresenceTypeOK, visitorSide, operatorSide
<1>2. HandlersKnow'
  <2>1. UNCHANGED <<wire, talks>>
    BY DEF visitorSide
  <2> QED
    BY <2>1 DEF PresenceIInv, PresenceTypeOK, HandlersKnow
<1>3. OperatorsInv'
  BY OperatorsUntouched DEF PresenceIInv, Gone
<1>4. ChatsFollowPages'
  BY VisitorsUntouched DEF PresenceIInv
<1> QED
  BY <1>1, <1>2, <1>3, <1>4 DEF PresenceIInv

LEMMA BeginsPreserves ==
  ASSUME PresenceIInv, NEW k \in Sockets,
         \/ VisitorStart(k) \/ OperatorJoin(k) \/ Rejected(k)
         \/ \E c \in DOMAIN talks : VisitorRejoin(k, c)
  PROVE  PresenceIInv'
<1>1. DOMAIN talks \subseteq Nat
  BY DEF PresenceIInv, PresenceTypeOK
<1>2. ASSUME NEW does \in {"start", "rejoin", "join"}, NEW c \in Nat, Begins(k, does, c),
             does = "rejoin" => c \in DOMAIN talks, does = "join" => wire[k].user \in Operators
      PROVE  PresenceIInv'
  <2> DEFINE h == [does |-> does, chat |-> c]
  <2>1. h \in HandlerType /\ h.does = does /\ h.chat = c
    BY DEF HandlerType
  <2>2. /\ handling' = [handling EXCEPT ![k] = h]
        /\ UNCHANGED <<wire, visitorSide, operatorSide, restarts, slips>>
    BY <1>2 DEF Begins
  <2> HIDE DEF h
  <2> QED
    BY <1>2, <2>1, <2>2, HandlingPreserves
<1>3. CASE VisitorStart(k)
  BY <1>2, <1>3 DEF VisitorStart
<1>4. CASE OperatorJoin(k)
  <2>1. wire[k].user \in Operators
    BY <1>4 DEF OperatorJoin, PresenceIInv, PresenceTypeOK, WireType
  <2> QED
    BY <1>2, <1>4, <2>1 DEF OperatorJoin
<1>5. CASE Rejected(k)
  <2>1. Unhandled \in HandlerType /\ Unhandled.does = None
    BY DEF Unhandled, HandlerType
  <2> QED
    BY <1>5, <2>1, NoneIsNobody, HandlingPreserves DEF Rejected
<1>6. ASSUME NEW c \in DOMAIN talks, VisitorRejoin(k, c) PROVE PresenceIInv'
  BY <1>1, <1>2, <1>6 DEF VisitorRejoin
<1> QED
  BY <1>3, <1>4, <1>5, <1>6

-----------------------------------------------------------------------------
(* A socket is seated in chat c, which is open already or is new, and c is *)
(* not about to be closed afterwards.                                      *)
LEMMA SeatsPreserves ==
  ASSUME PresenceIInv, NEW k \in Sockets, NEW c \in Nat \ {0}, Seats(k, c),
         DOMAIN talks' = DOMAIN talks \cup {c}, \E n \in Nat : DOMAIN talks' = 1 .. n,
         talks' \in [DOMAIN talks' -> BOOLEAN],
         \A d \in DOMAIN talks : d # c => talks'[d] = talks[d],
         vanished' = vanished \ {c}
  PROVE  PresenceIInv'
<1> DEFINE left == {seat[k]} \ {0, c}
           unwatched == IF Gone(k) /\ {x \in Sitters(c) \ {k} : ~Gone(x)} = {} THEN {c} ELSE {}
           missed == (IF Gone(k) THEN slips.missed ELSE slips.missed \ {c}) \cup left \cup unwatched
<1>1. /\ seat' = [seat EXCEPT ![k] = c]
      /\ handling' = [handling EXCEPT ![k] = Unhandled]
      /\ slips' = [slips EXCEPT !.overtaken = slips.overtaken \ {c}, !.missed = missed]
      /\ UNCHANGED <<wire, closing, operatorSide, restarts>>
  BY DEF Seats
<1>2. /\ slips \in SlipsType /\ seat[k] \in {0} \cup DOMAIN talks /\ DOMAIN talks \subseteq Nat
      /\ 0 \notin DOMAIN talks /\ vanished \subseteq DOMAIN talks
  BY DEF PresenceIInv, PresenceTypeOK
<1>3. missed \subseteq Nat /\ slips.overtaken \ {c} \subseteq Nat
  BY <1>2 DEF SlipsType
<1>4. /\ left = {seat[k]} \ {0, c}
      /\ Gone(k) /\ (\A x \in Sitters(c) \ {k} : Gone(x)) => c \in missed
      /\ \A d : d # c /\ d \in slips.missed => d \in missed
      /\ \A d : d \in left => d \in missed
  OBVIOUS
<1> HIDE DEF missed, left
<1>5. /\ slips' \in SlipsType
      /\ slips'.overtaken = slips.overtaken \ {c} /\ slips'.missed = missed
      /\ slips'.eclipsed = slips.eclipsed /\ slips'.ghosts = slips.ghosts
  BY <1>1, <1>2, <1>3 DEF SlipsType
<1>6. \A q \in Sockets : seat'[q] = IF q = k THEN c ELSE seat[q]
  BY <1>1 DEF PresenceIInv, PresenceTypeOK
<1>7. Unhandled \in HandlerType /\ Unhandled.does = None
  BY DEF Unhandled, HandlerType
<1>8. PresenceTypeOK'
  <2>1. UNCHANGED <<wire, closing, online, leaving, registered>>
    BY <1>1 DEF operatorSide
  <2>2. seat' \in [Sockets -> {0} \cup DOMAIN talks'] /\ handling' \in [Sockets -> HandlerType]
    BY <1>1, <1>7 DEF PresenceIInv, PresenceTypeOK
  <2>3. vanished' \subseteq DOMAIN talks' /\ closing' \subseteq DOMAIN talks'
    BY <1>1 DEF PresenceIInv, PresenceTypeOK
  <2> QED
    BY <1>5, <2>1, <2>2, <2>3 DEF PresenceIInv, PresenceTypeOK
<1>9. HandlersKnow'
  <2>1. \A q \in Sockets : handling'[q] = IF q = k THEN Unhandled ELSE handling[q]
    BY <1>1 DEF PresenceIInv, PresenceTypeOK
  <2> QED
    BY <1>1, <1>7, <2>1, NoneIsNobody DEF PresenceIInv, HandlersKnow
<1>10. OperatorsInv'
  BY <1>1, <1>5, OperatorsUntouched DEF PresenceIInv, Gone
<1>11. ChatsFollowPages'
  <2>1. \A q \in Sockets : Gone(q)' <=> Gone(q)
    BY <1>1 DEF Gone
  <2> SUFFICES ASSUME NEW d \in DOMAIN talks'
               PROVE  /\ d \in vanished' /\ (\E q \in Sitters(d)' : wire[q].at = "open") =>
                           d \in slips'.overtaken
                      /\ talks'[d] /\ (\A q \in Sitters(d)' : Gone(q)) =>
                           d \in vanished' \cup closing \cup slips'.missed
    BY <1>1 DEF ChatsFollowPages, Gone
  <2>2. CASE d = c
    <3>1. Sitters(d)' = Sitters(c) \cup {k}
      BY <1>6, <2>2 DEF Sitters
    <3>2. d \notin vanished' /\ ((\A q \in Sitters(d)' : Gone(q)) => d \in missed)
      BY <1>4, <2>2, <3>1
    <3> QED
      BY <1>5, <3>2
  <2>3. CASE d # c
    <3>1. d \in DOMAIN talks /\ d # 0 /\ talks'[d] = talks[d] /\ (d \in vanished' <=> d \in vanished)
      BY <1>2, <2>3
    <3>2. Sitters(d)' = Sitters(d) \ {k}
      BY <1>6, <2>3 DEF Sitters
    <3>3. /\ d \in vanished /\ (\E q \in Sitters(d) : wire[q].at = "open") => d \in slips.overtaken
          /\ talks[d] /\ (\A q \in Sitters(d) : Gone(q)) =>
               d \in vanished \cup closing \cup slips.missed
      BY <3>1 DEF PresenceIInv, ChatsFollowPages
    <3>4. d \in slips.overtaken => d \in slips'.overtaken
      BY <1>5, <2>3
    <3>5. d \in slips.missed => d \in slips'.missed
      BY <1>4, <1>5, <2>3
    <3>6. k \in Sitters(d) => d \in slips'.missed
      BY <1>4, <1>5, <2>3, <3>1 DEF Sitters
    <3> QED
      BY <3>1, <3>2, <3>3, <3>4, <3>5, <3>6
  <2> QED
    BY <2>2, <2>3
<1> QED
  BY <1>8, <1>9, <1>10, <1>11 DEF PresenceIInv

LEMMA StartedPreserves ==
  ASSUME PresenceIInv, NEW k \in Sockets, Started(k)
  PROVE  PresenceIInv'
<1> DEFINE c == Cardinality(DOMAIN talks) + 1
<1>1. PICK n \in Nat : DOMAIN talks = 1 .. n
  BY DEF PresenceIInv, PresenceTypeOK
<1>2. c = n + 1
  <2>1. Cardinality(1 .. n) = n
    BY FS_Interval
  <2> QED
    BY <1>1, <2>1
<1>3. /\ talks' = Put(talks, c, TRUE)
      /\ Seats(k, c)
      /\ vanished' = vanished
  BY Zenon DEF Started
<1> HIDE DEF c
<1>4. /\ DOMAIN talks' = DOMAIN talks \cup {c} /\ c \in Nat \ {0} /\ c \notin DOMAIN talks
      /\ DOMAIN talks' = 1 .. n + 1 /\ n + 1 \in Nat
  BY <1>1, <1>2, <1>3 DEF Put
<1>5. /\ talks' \in [DOMAIN talks' -> BOOLEAN]
      /\ \A d \in DOMAIN talks : d # c => talks'[d] = talks[d]
  BY <1>3 DEF Put, PresenceIInv, PresenceTypeOK
<1>6. vanished' = vanished \ {c}
  BY <1>3, <1>4 DEF PresenceIInv, PresenceTypeOK
<1> QED
  BY <1>3, <1>4, <1>5, <1>6, SeatsPreserves

LEMMA RejoinedPreserves ==
  ASSUME PresenceIInv, NEW k \in Sockets, Rejoined(k)
  PROVE  PresenceIInv'
<1> DEFINE c == handling[k].chat
<1>1. /\ c \in DOMAIN talks /\ Seats(k, c) /\ vanished' = vanished \ {c} /\ UNCHANGED talks
  BY DEF Rejoined, PresenceIInv, HandlersKnow
<1>2. /\ c \in Nat \ {0} /\ \E n \in Nat : DOMAIN talks = 1 .. n
      /\ talks \in [DOMAIN talks -> BOOLEAN]
  BY <1>1 DEF PresenceIInv, PresenceTypeOK
<1> QED
  BY <1>1, <1>2, SeatsPreserves

-----------------------------------------------------------------------------
(* Steps about one chat, after which its seats are as before.              *)
LEMMA TalkStepPreserves ==
  ASSUME PresenceIInv, NEW c \in DOMAIN talks,
         UNCHANGED <<wire, handling, seat, operatorSide>>,
         DOMAIN talks' = DOMAIN talks, talks' \in [DOMAIN talks -> BOOLEAN],
         slips' \in SlipsType,
         vanished' \subseteq vanished, closing' \subseteq closing \cup {c},
         slips'.eclipsed = slips.eclipsed, slips'.ghosts = slips.ghosts,
         slips'.overtaken = slips.overtaken, slips.missed \subseteq slips'.missed,
         \A d \in DOMAIN talks : d # c =>
           /\ talks'[d] = talks[d]
           /\ d \in vanished => d \in vanished'
           /\ d \in closing => d \in closing',
         talks'[c] /\ (\A k \in Sitters(c) : Gone(k)) =>
           c \in vanished' \cup closing' \cup slips'.missed
  PROVE  PresenceIInv'
<1>1. PresenceTypeOK'
  <2>1. UNCHANGED <<online, leaving, registered>>
    BY DEF operatorSide
  <2>2. vanished' \subseteq DOMAIN talks /\ closing' \subseteq DOMAIN talks
    BY DEF PresenceIInv, PresenceTypeOK
  <2> QED
    BY <2>1, <2>2 DEF PresenceIInv, PresenceTypeOK
<1>2. HandlersKnow'
  BY DEF PresenceIInv, HandlersKnow
<1>3. OperatorsInv'
  BY OperatorsUntouched DEF PresenceIInv, Gone
<1>4. ChatsFollowPages'
  <2> SUFFICES ASSUME NEW d \in DOMAIN talks
               PROVE  /\ d \in vanished' /\ (\E q \in Sitters(d) : wire[q].at = "open") =>
                           d \in slips'.overtaken
                      /\ talks'[d] /\ (\A q \in Sitters(d) : Gone(q)) =>
                           d \in vanished' \cup closing' \cup slips'.missed
    BY DEF ChatsFollowPages, Gone, Sitters
  <2>1. /\ d \in vanished /\ (\E q \in Sitters(d) : wire[q].at = "open") => d \in slips.overtaken
        /\ talks[d] /\ (\A q \in Sitters(d) : Gone(q)) =>
             d \in vanished \cup closing \cup slips.missed
    BY DEF PresenceIInv, ChatsFollowPages
  <2> QED
    BY <2>1
<1> QED
  BY <1>1, <1>2, <1>3, <1>4 DEF PresenceIInv

LEMMA TalksTyped ==
  ASSUME PresenceTypeOK
  PROVE  talks \in [DOMAIN talks -> BOOLEAN] /\ slips \in SlipsType /\ DOMAIN talks \subseteq Nat
BY DEF PresenceTypeOK

LEMMA ClosedSoFar ==
  ASSUME PresenceIInv, NEW c \in DOMAIN talks, Closes(c)
  PROVE  /\ DOMAIN talks' = DOMAIN talks /\ talks' \in [DOMAIN talks -> BOOLEAN]
         /\ vanished' \subseteq vanished /\ talks'[c] = FALSE
         /\ \A d \in DOMAIN talks : d # c =>
              talks'[d] = talks[d] /\ (d \in vanished => d \in vanished')
<1>1. talks \in [DOMAIN talks -> BOOLEAN]
  BY TalksTyped DEF PresenceIInv
<1>2. talks' = [talks EXCEPT ![c] = FALSE] /\ vanished' = vanished \ {c}
  BY DEF Closes
<1> QED
  BY <1>1, <1>2

LEMMA CloseTalkPreserves ==
  ASSUME PresenceIInv, NEW c \in DOMAIN talks, CloseTalk(c)
  PROVE  PresenceIInv'
<1>1. Closes(c) /\ UNCHANGED <<wire, handling, seat, closing, operatorSide, restarts, slips>>
  BY DEF CloseTalk
<1>2. slips' \in SlipsType
  BY <1>1, TalksTyped DEF PresenceIInv
<1> QED
  BY <1>1, <1>2, ClosedSoFar, TalkStepPreserves

LEMMA ReopenTalkPreserves ==
  ASSUME PresenceIInv, NEW c \in DOMAIN talks, ReopenTalk(c)
  PROVE  PresenceIInv'
<1> DEFINE missed == IF {k \in Sitters(c) : ~Gone(k)} = {} THEN slips.missed \cup {c}
                                                           ELSE slips.missed
<1>1. /\ talks' = [talks EXCEPT ![c] = TRUE]
      /\ slips' = [slips EXCEPT !.missed = missed]
      /\ UNCHANGED <<wire, handling, seat, vanished, closing, operatorSide, restarts>>
  BY DEF ReopenTalk
<1>2. /\ (\A k \in Sitters(c) : Gone(k)) => c \in missed
      /\ slips.missed \subseteq missed /\ missed \subseteq slips.missed \cup {c}
  OBVIOUS
<1> HIDE DEF missed
<1>3. /\ slips' \in SlipsType
      /\ slips'.eclipsed = slips.eclipsed /\ slips'.ghosts = slips.ghosts
      /\ slips'.overtaken = slips.overtaken /\ slips'.missed = missed
  BY <1>1, <1>2, TalksTyped DEF SlipsType, PresenceIInv
<1>4. /\ DOMAIN talks' = DOMAIN talks /\ talks' \in [DOMAIN talks -> BOOLEAN]
      /\ \A d \in DOMAIN talks : d # c => talks'[d] = talks[d]
  BY <1>1, TalksTyped DEF PresenceIInv
<1> QED
  BY <1>1, <1>2, <1>3, <1>4, TalkStepPreserves

LEMMA GraceOverPreserves ==
  ASSUME PresenceIInv, NEW c \in DOMAIN talks, GraceOver(c)
  PROVE  PresenceIInv'
<1>1. /\ vanished' = vanished \ {c} /\ closing' = closing \cup {c}
      /\ UNCHANGED <<wire, handling, talks, seat, operatorSide, restarts, slips>>
  BY DEF GraceOver
<1>2. talks' \in [DOMAIN talks -> BOOLEAN] /\ slips' \in SlipsType
  BY <1>1, TalksTyped DEF PresenceIInv
<1> QED
  BY <1>1, <1>2, TalkStepPreserves

LEMMA CloseAbandonedPreserves ==
  ASSUME PresenceIInv, NEW c \in DOMAIN talks, CloseAbandoned(c)
  PROVE  PresenceIInv'
<1>1. closing' = closing \ {c} /\ UNCHANGED <<wire, handling, seat, operatorSide, restarts>>
  BY DEF CloseAbandoned
<1>2. talks \in [DOMAIN talks -> BOOLEAN] /\ slips \in SlipsType /\ c \in Nat
  BY TalksTyped DEF PresenceIInv
<1>3. CASE talks[c] /\ Closes(c) /\ UNCHANGED slips
  BY <1>1, <1>2, <1>3, ClosedSoFar, TalkStepPreserves
<1>4. CASE ~talks[c] /\ UNCHANGED <<talks, vanished, slips>>
  BY <1>1, <1>2, <1>4, TalkStepPreserves
<1>5. CASE slips' = [slips EXCEPT !.missed = slips.missed \cup {c}] /\ UNCHANGED <<talks, vanished>>
  <2>1. /\ slips' \in SlipsType /\ slips'.missed = slips.missed \cup {c}
        /\ slips'.eclipsed = slips.eclipsed /\ slips'.ghosts = slips.ghosts
        /\ slips'.overtaken = slips.overtaken
    BY <1>2, <1>5 DEF SlipsType
  <2> QED
    BY <1>1, <1>2, <1>5, <2>1, TalkStepPreserves
<1> QED
  BY <1>3, <1>4, <1>5 DEF CloseAbandoned

-----------------------------------------------------------------------------
LEMMA JoinedPreserves ==
  ASSUME PresenceIInv, NEW k \in Sockets, Joined(k)
  PROVE  PresenceIInv'
<1> DEFINE o == wire[k].user
           ghosts == IF Gone(k) THEN slips.ghosts \cup {o} ELSE slips.ghosts \ {o}
<1>1. /\ handling' = [handling EXCEPT ![k] = Unhandled]
      /\ online' = [online EXCEPT ![o] = k]
      /\ leaving' = leaving \ {o}
      /\ registered' = IF Gone(k) THEN registered ELSE registered \cup {k}
      /\ slips' = [slips EXCEPT !.eclipsed = slips.eclipsed \ {o}, !.ghosts = ghosts]
      /\ UNCHANGED <<wire, visitorSide, restarts>>
  BY DEF Joined, Registers
<1>2. o \in Operators
  BY DEF Joined, Registers, PresenceIInv, HandlersKnow
<1>3. /\ Gone(k) => o \in ghosts
      /\ \A p : p # o => (p \in ghosts <=> p \in slips.ghosts)
      /\ ghosts \subseteq slips.ghosts \cup {o}
  OBVIOUS
<1> HIDE DEF ghosts
<1>4. /\ slips \in SlipsType /\ online \in [Operators -> Sockets \cup {None}]
      /\ registered \subseteq Sockets /\ leaving \subseteq Operators /\ None \notin Sockets
  BY NoneIsNobody DEF PresenceIInv, PresenceTypeOK
<1>5. /\ slips' \in SlipsType
      /\ slips'.overtaken = slips.overtaken /\ slips'.missed = slips.missed
      /\ slips'.eclipsed = slips.eclipsed \ {o} /\ slips'.ghosts = ghosts
  BY <1>1, <1>2, <1>3, <1>4 DEF SlipsType
<1>6. UNCHANGED <<talks, seat, vanished, closing>>
  BY <1>1 DEF visitorSide
<1>7. Unhandled \in HandlerType /\ Unhandled.does = None
  BY DEF Unhandled, HandlerType
<1>8. PresenceTypeOK'
  <2>1. handling' \in [Sockets -> HandlerType]
    BY <1>1, <1>7 DEF PresenceIInv, PresenceTypeOK
  <2>2. /\ online' \in [Operators -> Sockets \cup {None}]
        /\ leaving' \subseteq Operators /\ registered' \subseteq Sockets
    BY <1>1, <1>2, <1>4
  <2> QED
    BY <1>1, <1>5, <1>6, <2>1, <2>2 DEF PresenceIInv, PresenceTypeOK
<1>9. HandlersKnow'
  <2>1. \A q \in Sockets : handling'[q] = IF q = k THEN Unhandled ELSE handling[q]
    BY <1>1 DEF PresenceIInv, PresenceTypeOK
  <2> QED
    BY <1>1, <1>6, <1>7, <2>1, NoneIsNobody DEF PresenceIInv, HandlersKnow
<1>10. OperatorsInv'
  <2>1. \A q : Gone(q)' <=> Gone(q)
    BY <1>1 DEF Gone
  <2>2. TabsAreThere'
    BY <1>1, <1>2, <2>1 DEF PresenceIInv, OperatorsInv, TabsAreThere
  <2>3. \A p : p # o => TabsOf(p)' = TabsOf(p)
    BY <1>1 DEF TabsOf
  <2>4. LeavingHaveNoTab'
    BY <1>1, <1>5, <2>3 DEF PresenceIInv, OperatorsInv, LeavingHaveNoTab
  <2>5. /\ online'[o] = k /\ \A p \in Operators : p # o => online'[p] = online[p]
    BY <1>1, <1>2, <1>4
  <2> HIDE DEF o
  <2>6. ASSUME NEW p \in Operators
        PROVE  /\ online'[p] # None => (p \in leaving' => Gone(online'[p]))
               /\ online'[p] # None => (Gone(online'[p]) => p \in leaving' \cup ghosts)
               /\ TabsOf(p)' # {} => online'[p] # None \/ p \in slips'.eclipsed
    <3>1. CASE p = o
      BY <1>1, <1>3, <1>4, <2>5, <3>1
    <3>2. CASE p # o
      BY <1>1, <1>3, <1>5, <2>3, <2>5, <3>2 DEF PresenceIInv, OperatorsInv, PresenceFollowsTabs
    <3> QED
      BY <3>1, <3>2
  <2>7. PresenceFollowsTabs'
    BY <1>1, <1>5, <2>6 DEF PresenceFollowsTabs, Gone
  <2> QED
    BY <2>2, <2>4, <2>7 DEF OperatorsInv
<1>11. ChatsFollowPages'
  BY <1>1, <1>5, VisitorsUntouched DEF PresenceIInv
<1> QED
  BY <1>8, <1>9, <1>10, <1>11 DEF PresenceIInv

(* The operator goes offline, with the tabs that it had or without.        *)
LEMMA OfflinePreserves ==
  ASSUME PresenceIInv, NEW o \in Operators, MarkOperatorOffline(o),
         UNCHANGED <<wire, handling, visitorSide, slips>>,
         \/ registered' = registered /\ o \in leaving
         \/ registered' = registered \ TabsOf(o)
  PROVE  PresenceIInv'
<1>1. online' = [online EXCEPT ![o] = None] /\ leaving' = leaving \ {o}
  BY DEF MarkOperatorOffline
<1>2. /\ online \in [Operators -> Sockets \cup {None}] /\ registered' \subseteq registered
      /\ UNCHANGED <<talks, seat, vanished, closing>>
  BY DEF PresenceIInv, PresenceTypeOK, visitorSide
<1>3. PresenceTypeOK'
  <2>1. /\ online' \in [Operators -> Sockets \cup {None}]
        /\ leaving' \subseteq Operators /\ registered' \subseteq Sockets
    BY <1>1, <1>2 DEF PresenceIInv, PresenceTypeOK
  <2> QED
    BY <1>2, <2>1 DEF PresenceIInv, PresenceTypeOK
<1>4. HandlersKnow'
  BY <1>2 DEF PresenceIInv, HandlersKnow
<1>5. OperatorsInv'
  <2>1. \A p : TabsOf(p)' \subseteq TabsOf(p)
    BY <1>2 DEF TabsOf
  <2>2. TabsOf(o)' = {} \/ o \in slips'.eclipsed
    BY DEF TabsOf, PresenceIInv, OperatorsInv, LeavingHaveNoTab
  <2>3. TabsAreThere'
    BY <1>2 DEF PresenceIInv, OperatorsInv, TabsAreThere, Gone
  <2>4. LeavingHaveNoTab'
    BY <1>1, <2>1 DEF PresenceIInv, OperatorsInv, LeavingHaveNoTab
  <2>5. online'[o] = None /\ \A p \in Operators : p # o => online'[p] = online[p]
    BY <1>1, <1>2
  <2>6. \A q : Gone(q)' <=> Gone(q)
    BY DEF Gone
  <2>7. ASSUME NEW p \in Operators
        PROVE  /\ online'[p] # None => (p \in leaving' => Gone(online'[p]))
               /\ online'[p] # None => (Gone(online'[p]) => p \in leaving' \cup slips.ghosts)
               /\ TabsOf(p)' # {} => online'[p] # None \/ p \in slips'.eclipsed
    BY <1>1, <2>1, <2>2, <2>5 DEF PresenceIInv, OperatorsInv, PresenceFollowsTabs
  <2>8. PresenceFollowsTabs'
    BY <2>7 DEF PresenceFollowsTabs, Gone
  <2> QED
    BY <2>3, <2>4, <2>8 DEF OperatorsInv
<1>6. ChatsFollowPages'
  BY VisitorsUntouched DEF PresenceIInv
<1> QED
  BY <1>3, <1>4, <1>5, <1>6 DEF PresenceIInv

LEMMA RestartPreserves ==
  ASSUME PresenceIInv, RestartGateway
  PROVE  PresenceIInv'
<1>1. /\ wire' = [k \in Sockets |-> [at |-> "gone", user |-> None]]
      /\ handling' = [k \in Sockets |-> Unhandled]
      /\ seat' = [k \in Sockets |-> 0] /\ vanished' = {} /\ closing' = {}
      /\ online' = [o \in Operators |-> None] /\ leaving' = {} /\ registered' = {}
      /\ slips' = [NoSlips EXCEPT !.missed = {c \in DOMAIN talks : talks[c]}]
      /\ talks' = talks
  BY DEF RestartGateway
<1>2. /\ talks \in [DOMAIN talks -> BOOLEAN] /\ DOMAIN talks \subseteq Nat
      /\ \E n \in Nat : DOMAIN talks = 1 .. n
  BY DEF PresenceIInv, PresenceTypeOK
<1>3. slips' \in SlipsType /\ slips'.missed = {c \in DOMAIN talks : talks[c]}
  BY <1>1, <1>2 DEF NoSlips, SlipsType
<1>4. [at |-> "gone", user |-> None] \in WireType /\ Unhandled \in HandlerType
      /\ Unhandled.does = None
  BY DEF WireType, HandlerType, Unhandled
<1>5. PresenceTypeOK'
  BY <1>1, <1>2, <1>3, <1>4 DEF PresenceTypeOK
<1>6. HandlersKnow'
  BY <1>1, <1>4, NoneIsNobody DEF HandlersKnow
<1>7. OperatorsInv'
  BY <1>1 DEF OperatorsInv, TabsAreThere, LeavingHaveNoTab, PresenceFollowsTabs, TabsOf
<1>8. ChatsFollowPages'
  BY <1>1, <1>3 DEF ChatsFollowPages
<1> QED
  BY <1>5, <1>6, <1>7, <1>8 DEF PresenceIInv

-----------------------------------------------------------------------------
LEMMA PresenceKept ==
  ASSUME PresenceIInv, [PresenceNext]_presenceVars
  PROVE  PresenceIInv'
<1>1. CASE UNCHANGED presenceVars
  <2>1. UNCHANGED <<wire, handling, talks, seat, vanished, closing, online, leaving, registered, slips>>
    BY <1>1 DEF presenceVars, visitorSide, operatorSide
  <2>2. PresenceTypeOK'
    BY <2>1 DEF PresenceIInv, PresenceTypeOK
  <2>3. HandlersKnow'
    BY <2>1 DEF PresenceIInv, HandlersKnow
  <2>4. OperatorsInv'
    BY <2>1, OperatorsUntouched DEF PresenceIInv, operatorSide, Gone
  <2>5. ChatsFollowPages'
    BY <2>1, VisitorsUntouched DEF PresenceIInv, visitorSide
  <2> QED
    BY <2>2, <2>3, <2>4, <2>5 DEF PresenceIInv
<1>2. ASSUME NEW k \in Sockets,
             \/ Connect(k) \/ Drop(k) \/ HandleDisconnect(k)
             \/ VisitorStart(k) \/ Started(k) \/ Rejoined(k) \/ Rejected(k)
             \/ OperatorJoin(k) \/ Joined(k)
             \/ \E o \in Operators : HandleConnection(k, o)
             \/ \E c \in DOMAIN talks : VisitorRejoin(k, c)
      PROVE  PresenceIInv'
  BY <1>2, ConnectPreserves, DropPreserves, HandleDisconnectPreserves, BeginsPreserves,
     StartedPreserves, RejoinedPreserves, JoinedPreserves, HandleConnectionPreserves
<1>3. ASSUME NEW c \in DOMAIN talks,
             CloseTalk(c) \/ ReopenTalk(c) \/ GraceOver(c) \/ CloseAbandoned(c)
      PROVE  PresenceIInv'
  BY <1>3, CloseTalkPreserves, ReopenTalkPreserves, GraceOverPreserves, CloseAbandonedPreserves
<1>4. ASSUME NEW o \in Operators, OperatorGraceOver(o) \/ ForceOperatorOffline(o)
      PROVE  PresenceIInv'
  BY <1>4, OfflinePreserves DEF OperatorGraceOver, ForceOperatorOffline
<1>5. CASE RestartGateway
  BY <1>5, RestartPreserves
<1> QED
  BY <1>1, <1>2, <1>3, <1>4, <1>5 DEF PresenceNext

LEMMA PresenceInvariant == PresenceSpec => []PresenceIInv
<1>1. PresenceInit => PresenceIInv
  BY PresenceStart
<1>2. PresenceIInv /\ [PresenceNext]_presenceVars => PresenceIInv'
  BY PresenceKept
<1> QED
  BY <1>1, <1>2, PTL DEF PresenceSpec

(* Operators are online as their tabs are: the gateway's map of operators  *)
(* to sockets, its timers and the sockets it heard of agree after any mix  *)
(* of joins, losses, late answers, logouts and restarts, apart from the    *)
(* two cases of handleDisconnect and operator:join that the property names.*)
THEOREM OperatorsFollowTheirTabs == PresenceSpec => []PresenceFollowsTabs
<1>1. PresenceIInv => PresenceFollowsTabs
  BY DEF PresenceIInv, OperatorsInv
<1> QED
  BY <1>1, PresenceInvariant, PTL

(* An open chat is about to be closed as abandoned exactly while its       *)
(* visitor's pages are lost, whichever way the losses and the handlers of  *)
(* visitor:start and visitor:rejoin cross, apart from the cases named.     *)
THEOREM AbandonedFollowsPages == PresenceSpec => []ChatsFollowPages
<1>1. PresenceIInv => ChatsFollowPages
  BY DEF PresenceIInv
<1> QED
  BY <1>1, PresenceInvariant, PTL
=============================================================================
