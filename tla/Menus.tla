--------------------------------- MODULE Menus ---------------------------------
(***************************************************************************)
(* The menus of the site: MenusService over its repository, as the back    *)
(* office calls them, and the tree that the public site builds from the    *)
(* rows.  Ids count up and are never given twice; 0 stands for null.  A    *)
(* request reads, decides, and writes in one transaction; other requests   *)
(* run between its reads and its write.                                    *)
(*                                                                         *)
(* Titles, links, texts, the order of siblings and whether an item is      *)
(* switched on are left out.  The route                                    *)
(* that reorders items is left out too: PATCH :menuId/items/:itemId comes  *)
(* before it and refuses its path.                                         *)
(***************************************************************************)
EXTENDS Naturals, FiniteSets

CONSTANTS
  Editors,     \* requests of the back office that can be in flight
  MaxMenus,    \* bound: menus ever made
  MaxItems,    \* bound: items ever made
  MaxListed    \* bound: items that a request to save a menu lists

ASSUME MenuBounds == MaxMenus \in Nat /\ MaxItems \in Nat /\ MaxListed \in Nat

VARIABLES
  menus,       \* table menus: the ids in it
  items,       \* table menu_items: id -> menu, parent
  nextMenu, nextItem,
  edit         \* what each request has read

menuVars == <<menus, items, nextMenu, nextItem, edit>>

NoEdit == [at |-> "idle", menu |-> 0, id |-> 0, parent |-> 0, known |-> {},
           sent |-> << >>, titleOnly |-> FALSE]

MenusInit ==
  /\ menus = {} /\ items = << >> /\ nextMenu = 1 /\ nextItem = 1
  /\ edit = [e \in Editors |-> NoEdit]

-----------------------------------------------------------------------------
(* Rows that a walk over the parents of i meets, i first; in a circle the  *)
(* walk ends where it began.                                               *)
Lineage(rows, i) ==
  LET up[n \in 0 .. MaxItems] ==
        IF n = 0 THEN {i} \cap DOMAIN rows
        ELSE up[n - 1] \cup ({rows[k].parent : k \in up[n - 1]} \cap DOMAIN rows)
  IN  up[MaxItems]

(* Rows that go when gone are deleted: the key of parent cascades. *)
Cascade(rows, gone) == {i \in DOMAIN rows : Lineage(rows, i) \cap gone # {}}

Keep(rows, ids) == [i \in ids |-> rows[i]]
Drop(rows, gone) == Keep(rows, DOMAIN rows \ Cascade(rows, gone))

Roots(m) == {i \in DOMAIN items : items[i].menu = m /\ items[i].parent = 0}

(* buildMenuTree, from the roots down over the items of the menu.          *)
Shown ==
  LET grow[n \in 0 .. MaxItems] ==
        IF n = 0 THEN {i \in DOMAIN items : items[i].parent = 0}
        ELSE LET found == grow[n - 1]
             IN  found \cup {i \in DOMAIN items : /\ items[i].parent \in found
                                                 /\ items[items[i].parent].menu = items[i].menu}
  IN  grow[MaxItems]

Begin(e, r) == edit[e].at = "idle" /\ edit' = [edit EXCEPT ![e] = r]
End(e) == edit' = [edit EXCEPT ![e] = NoEdit]

(* A parent that a request names: it exists and is of the menu. *)
ParentOf(m, p) == p = 0 \/ (p \in DOMAIN items /\ items[p].menu = m)

(* The key of parent, when a row is written. *)
KeyHolds(p) == p = 0 \/ p \in DOMAIN items

(* createMenuItemInTransaction: a new row at the end of the table. *)
WithItem(m, p) ==
  [i \in DOMAIN items \cup {nextItem} |->
     IF i = nextItem THEN [menu |-> m, parent |-> p] ELSE items[i]]

-----------------------------------------------------------------------------
(* A menu is sent with one item or none, below some other one or not. *)
CreateMenuAggregateDto ==
  {dto \in [withItem : BOOLEAN, parentId : DOMAIN items \cup {0}] :
     ~dto.withItem => dto.parentId = 0}

(* createAggregate: the menu and its items in one transaction.  Only one   *)
(* item is sent here, and its parent is not looked at: the key is enough.  *)
CreateMenu(withItem, p) ==
  /\ nextMenu <= MaxMenus
  /\ withItem => nextItem <= MaxItems
  /\ KeyHolds(p)
  /\ menus' = menus \cup {nextMenu} /\ nextMenu' = nextMenu + 1
  /\ items' = IF withItem THEN WithItem(nextMenu, p) ELSE items
  /\ nextItem' = IF withItem THEN nextItem + 1 ELSE nextItem
  /\ UNCHANGED edit

(* delete, with the items and what hangs below them.  (The menu is looked  *)
(* up first; that decides nothing that the deletion does not.)             *)
DropMenu(m) ==
  /\ m \in menus
  /\ menus' = menus \ {m}
  /\ items' = Drop(items, {i \in DOMAIN items : items[i].menu = m})
  /\ UNCHANGED <<nextMenu, nextItem, edit>>

-----------------------------------------------------------------------------
(* PATCH :id.  The controller reads the menu: its root items, with their   *)
(* children nested, of which the mapper looks at the roots only.  Without  *)
(* items in the request the roots are saved as they were read; ...         *)
StartTitle(e, m) ==
  /\ m \in menus
  /\ Begin(e, [NoEdit EXCEPT !.at = "saving", !.menu = m, !.known = Roots(m),
                             !.sent = Keep(items, Roots(m)), !.titleOnly = TRUE])
  /\ UNCHANGED <<menus, items, nextMenu, nextItem>>

(* ... with items, those of the request: an editor sends back a list that  *)
(* it loaded at some time, with one of its items under another parent; 0   *)
(* is an item it adds.                                                     *)
StartSave(e, m, listed, c, p) ==
  /\ m \in menus
  /\ c \in listed
  /\ Begin(e, [NoEdit EXCEPT !.at = "saving", !.menu = m,
        !.known = Roots(m) \cap listed,
        !.sent = [i \in listed |->
          IF i = c THEN [menu |-> m, parent |-> p]
          ELSE IF i \in DOMAIN items THEN [items[i] EXCEPT !.menu = m]
          ELSE [menu |-> m, parent |-> 0]]])
  /\ UNCHANGED <<menus, items, nextMenu, nextItem>>

(* The items of a request: ids that were given out at some time, and 0. *)
UpdateMenuAggregateDto ==
  {listed \in SUBSET (0 .. nextItem - 1) : Cardinality(listed) <= MaxListed}

(* mergeItems: an item that is not a root of the menu as it was read       *)
(* becomes a new one.                                                      *)
NewId(renewed, i) == nextItem + Cardinality({k \in renewed : k < i})

(* saveAggregate: every item of the menu that is not among those to update *)
(* is deleted, with what hangs below it; the others are written.  One that *)
(* has gone, or a parent that has, undoes it all.                          *)
RowsOfAllMenus(m, kept) == {i \in DOMAIN items : i \notin kept}
RowsToDelete(m, kept) == {i \in DOMAIN items : items[i].menu = m /\ i \notin kept}

SaveMenu(e) ==
  LET m == edit[e].menu
      sent == edit[e].sent
      kept == DOMAIN sent \cap edit[e].known
      renewed == DOMAIN sent \ kept
      left == DOMAIN items \ Cascade(items, RowsToDelete(m, kept))
      new == {NewId(renewed, i) : i \in renewed}
      Source(n) == CHOOSE i \in renewed : NewId(renewed, i) = n
  IN
    /\ edit[e].at = "saving"
    /\ m \in menus
    /\ kept \subseteq left
    /\ \A i \in DOMAIN sent : sent[i].parent \in left \cup {0}
    /\ nextItem + Cardinality(renewed) <= MaxItems + 1
    /\ items' = [i \in left \cup new |->
                   IF i \in new THEN sent[Source(i)]
                   ELSE IF i \in kept THEN [sent[i] EXCEPT !.menu = items[i].menu]
                   ELSE items[i]]
    /\ nextItem' = nextItem + Cardinality(renewed)
    /\ End(e)
    /\ UNCHANGED <<menus, nextMenu>>

-----------------------------------------------------------------------------
(* createMenuItem: the menu and the parent are looked up, ... *)
StartAddItem(e, m, p) ==
  /\ m \in menus /\ ParentOf(m, p)
  /\ Begin(e, [NoEdit EXCEPT !.at = "adding", !.menu = m, !.parent = p])
  /\ UNCHANGED <<menus, items, nextMenu, nextItem>>

(* ... and the item is written, if they are still there for its keys. *)
AddItem(e) ==
  LET m == edit[e].menu  p == edit[e].parent IN
    /\ edit[e].at = "adding"
    /\ m \in menus /\ KeyHolds(p)
    /\ nextItem <= MaxItems
    /\ items' = WithItem(m, p)
    /\ nextItem' = nextItem + 1
    /\ End(e)
    /\ UNCHANGED <<menus, nextMenu>>

(* updateMenuItem with another parent: not the item itself, and nothing is *)
(* said of what hangs below it.                                            *)
StartMoveItem(e, i, p) ==
  /\ i \in DOMAIN items
  /\ p # i /\ ParentOf(items[i].menu, p)
  /\ Begin(e, [NoEdit EXCEPT !.at = "moving", !.id = i, !.parent = p])
  /\ UNCHANGED <<menus, items, nextMenu, nextItem>>

MoveItem(e) ==
  LET i == edit[e].id IN
    /\ edit[e].at = "moving"
    /\ i \in DOMAIN items /\ KeyHolds(edit[e].parent)
    /\ items' = [items EXCEPT ![i].parent = edit[e].parent]
    /\ End(e)
    /\ UNCHANGED <<menus, nextMenu, nextItem>>

(* deleteMenuItem, and what hangs below it. *)
RemoveItem(i) ==
  /\ i \in DOMAIN items
  /\ items' = Drop(items, {i})
  /\ UNCHANGED <<menus, nextMenu, nextItem, edit>>

(* A write that finds its row or its key gone ends the request. *)
EditFails(e) ==
  /\ \/ edit[e].at = "adding" /\ edit[e].menu \notin menus
     \/ edit[e].at = "moving" /\ edit[e].id \notin DOMAIN items
     \/ edit[e].at \in {"adding", "moving"} /\ ~KeyHolds(edit[e].parent)
     \/ edit[e].at = "saving"
  /\ End(e)
  /\ UNCHANGED <<menus, items, nextMenu, nextItem>>

MenuRoutes(e) ==
  \/ \E m \in menus : StartTitle(e, m)
  \/ \E m \in menus, dto \in UpdateMenuAggregateDto : \E c \in dto, p \in DOMAIN items \cup {0} :
       StartSave(e, m, dto, c, p)
  \/ SaveMenu(e) \/ EditFails(e)

MenuItemRoutes(e) ==
  \/ \E m \in menus, p \in DOMAIN items \cup {0} : StartAddItem(e, m, p)
  \/ \E i \in DOMAIN items, p \in DOMAIN items \cup {0} : StartMoveItem(e, i, p)
  \/ AddItem(e) \/ MoveItem(e)

MenusNext ==
  \/ \E dto \in CreateMenuAggregateDto : CreateMenu(dto.withItem, dto.parentId)
  \/ \E m \in menus : DropMenu(m)
  \/ \E i \in DOMAIN items : RemoveItem(i)
  \/ \E e \in Editors : MenuRoutes(e) \/ MenuItemRoutes(e)

MenusSpec == MenusInit /\ [][MenusNext]_menuVars

-----------------------------------------------------------------------------
(* An item that visitors see in a menu stays in it through every request  *)
(* that is not about it or an item above it, nor about its whole menu:      *)
(* deleteMany, the cascade and the writes of saveAggregate touch no more.   *)
ShownUntilTouched ==
  [][\A i \in Shown \ Shown' :
       \/ items[i].menu \notin menus'
       \/ \E k \in Lineage(items, i) \ DOMAIN items' :
            \A l \in DOMAIN items \ DOMAIN items' : k \in Lineage(items, l)
       \/ \E e \in Editors :
            /\ edit[e].at # "idle" /\ edit'[e].at = "idle"
            /\ \/ edit[e].at = "saving" /\ edit[e].menu = items[i].menu
               \/ edit[e].at = "moving" /\ edit[e].id \in Lineage(items, i)]_menuVars

(* "Updates menu title, slug, or active status": a PATCH with only these   *)
(* takes no item away.                                                     *)
TitleKeepsItems ==
  [][\A e \in Editors : edit[e].titleOnly /\ ~edit'[e].titleOnly
        => DOMAIN items \subseteq DOMAIN items']_menuVars

=============================================================================
