--------------------------------- MODULE Restore ---------------------------------
(***************************************************************************)
(* The database put into a file and back: export-to-json.ts draws every    *)
(* table, db-truncate.ts empties the database, seed-json-data.ts and the   *)
(* two chat scripts write the file's rows again.  A script is a sequence   *)
(* of commands, nothing holds them together, and it may end at any of      *)
(* them, by a crash or because the database refuses one; meanwhile the     *)
(* back office may be in use (here: the tree of categories).               *)
(* A row is the rows that it points to: parent, in a table that is a tree, *)
(* in, the references that an update writes again, and of, those that only *)
(* the creation writes (owner, author, language).  Other columns are left  *)
(* out; so are unique keys, which no two rows of one file share.  A row    *)
(* that joins two others has a number made of theirs, and ids grow in the  *)
(* order in which the export lists the rows.                               *)
(* A command has a place: the section of the script and, within it, the    *)
(* rows that its loops have come to.  The script takes the commands in the *)
(* order of their places.                                                  *)
(***************************************************************************)
EXTENDS Tables

CONSTANTS
  Contents,     \* what the database may begin with: the rows per table
  MaxRows,      \* bound: the greatest id of a category
  MaxMade,      \* bound: categories made in the back office
  MaxMoved,     \* bound: categories moved or deleted there
  MaxCrashes,   \* bound: scripts that end early
  MaxUndrawn    \* bound: tables that an export fails to read

Scripts == {"clean", "seed", "seed chat", "seed chats"}

ASSUME RestoreBounds == {MaxRows, MaxMade, MaxMoved, MaxCrashes, MaxUndrawn} \subseteq Nat
ASSUME NoScript == None \notin Scripts \cup {"export"}

VARIABLES
  db,        \* table -> id -> row
  serial,    \* table -> the id that its sequence hands out next
  file,      \* seed_data.json: table -> id -> row; None: there is none
  script,    \* the script that runs, what it has still to do, and the data it has
             \* drawn; one that a refusal has ended is left with the command refused
  finished,  \* the scripts that ended well since the last export began
  spent,     \* what the bounds count
  before     \* history: the database at the last export; None once it or the
             \* file is no longer the whole truth

restoreVars == <<db, serial, file, script, finished, spent, before>>

-----------------------------------------------------------------------------
(* The schema.  What the export draws with one read each, tables with what *)
(* hangs below their rows.                                                 *)
Dumps ==
  <<{"languages"}, {"permissions"}, {"roles"}, {"role_permissions"}, {"role_management"},
    {"users"}, {"user_roles"}, {"user_permissions"}, {"block_type_definitions"},
    {"media_folders"}, {"media"}, {"page_templates", "page_template_translations"},
    {"pages", "page_translations", "page_content_blocks", "page_slug_aliases"},
    {"page_versions"}, {"post_categories", "post_category_translations"},
    {"posts", "post_translations", "post_content_blocks", "post_slug_aliases"},
    {"post_category_posts"}, {"_PostPages"}, {"post_versions"},
    {"menus", "menu_items", "menu_item_translations"},
    {"settings", "setting_global_contents", "setting_localized_contents"}, {"notifications"},
    {"user_notification_states"}, {"canned_response_categories"}, {"canned_responses"},
    {"canned_response_translations"}, {"chat_programs"}, {"chat_regions"}, {"chat_config"},
    {"chat_sessions", "chat_messages"}, {"operator_threads", "operator_messages"},
    {"audit_logs"}, {"activity_logs"}>>

AllTables == UNION {Dumps[n] : n \in DOMAIN Dumps}
Trees == {"media_folders", "pages", "post_categories", "menu_items"}

(* The tables whose rows point to rows of t for good, ...                  *)
Owned(t) ==
  CASE t = "languages" ->
         {"page_template_translations", "page_translations", "page_slug_aliases", "page_versions",
          "post_category_translations", "post_translations", "post_slug_aliases", "post_versions",
          "menu_item_translations", "setting_localized_contents", "canned_response_translations"}
    [] t = "users" ->
         {"user_roles", "user_permissions", "posts", "user_notification_states",
          "canned_responses", "chat_messages", "operator_threads", "operator_messages"}
    [] t = "roles" -> {"role_permissions", "role_management", "user_roles"}
    [] t = "permissions" -> {"role_permissions", "user_permissions"}
    [] t = "page_templates" -> {"page_template_translations"}
    [] t = "pages" -> {"page_translations", "page_slug_aliases", "page_versions", "_PostPages"}
    [] t = "page_translations" -> {"page_content_blocks"}
    [] t = "post_categories" -> {"post_category_translations", "post_category_posts"}
    [] t = "posts" -> {"post_translations", "post_slug_aliases", "post_versions",
                       "post_category_posts", "_PostPages"}
    [] t = "post_translations" -> {"post_content_blocks"}
    [] t = "menus" -> {"menu_items"}
    [] t = "menu_items" -> {"menu_item_translations"}
    [] t = "settings" -> {"setting_global_contents", "setting_localized_contents"}
    [] t = "canned_responses" -> {"canned_response_translations"}
    [] t = "chat_sessions" -> {"chat_messages"}
    [] t = "operator_threads" -> {"operator_messages"}
    [] OTHER -> {}

(* ... and those whose rows may point to one, and another later. *)
Pointing(t) ==
  CASE t = "users" -> {"page_templates", "pages", "notifications", "chat_sessions", "audit_logs"}
    [] t = "media" -> {"users", "pages", "posts"}
    [] t = "media_folders" -> {"media"}
    [] t = "page_templates" -> {"pages"}
    [] t = "canned_response_categories" -> {"canned_responses"}
    [] t \in {"chat_programs", "chat_regions"} -> {"chat_sessions"}
    [] OTHER -> {}

(* A row of these belongs to exactly one row of the other table. *)
PartOf ==
  [role_permissions |-> "permissions",
   page_template_translations |-> "page_templates",
   page_translations |-> "pages", page_slug_aliases |-> "pages",
   page_content_blocks |-> "page_translations",
   post_category_translations |-> "post_categories",
   post_translations |-> "posts", post_slug_aliases |-> "posts",
   post_content_blocks |-> "post_translations",
   menu_items |-> "menus", menu_item_translations |-> "menu_items",
   setting_global_contents |-> "settings", setting_localized_contents |-> "settings",
   chat_messages |-> "chat_sessions", operator_messages |-> "operator_threads"]

Refs == AllTables \X Nat
TableRow == [parent : SUBSET Refs, in : SUBSET Refs, of : SUBSET Refs]
PointsTo(row) == row.parent \cup row.in \cup row.of

(* A row of table t with id x, as the columns of the table allow it. *)
RowFits(t, x, row) ==
  /\ row \in TableRow
  /\ \A to \in row.parent : to[1] = t /\ t \in Trees
  /\ t = "post_categories" => <<t, x>> \notin row.parent
  /\ \A to \in row.in : t \in Pointing(to[1])
  /\ \A to \in row.of : t \in Owned(to[1])
  /\ t \in DOMAIN PartOf =>
       \E own \in row.of : \A to \in row.of : to[1] = PartOf[t] <=> to = own

RowsFit(data) ==
  /\ DOMAIN data = AllTables
  /\ \A t \in AllTables :
       /\ IsFiniteSet(DOMAIN data[t]) /\ DOMAIN data[t] \subseteq Nat
       /\ data[t] = [x \in DOMAIN data[t] |-> data[t][x]]
       /\ \A x \in DOMAIN data[t] : RowFits(t, x, data[t][x])

(* Every foreign key leads to a row. *)
KeysLead(data) ==
  \A t \in AllTables : \A x \in DOMAIN data[t] :
    \A to \in PointsTo(data[t][x]) : to[2] \in DOMAIN data[to[1]]

ASSUME ContentsFit == \A data \in Contents : RowsFit(data) /\ KeysLead(data)

-----------------------------------------------------------------------------
Idle == [run |-> None, todo |-> {}, data |-> None]
Nothing == [t \in AllTables |-> << >>]

(* Commands.  Each acts on rows of one table at once.                      *)
Command(do, t, rows, columns) == [do |-> do, table |-> t, rows |-> rows, columns |-> columns]
Single(x, row) == [y \in {x} |-> row]

Without(row, columns) ==
  [c \in DOMAIN row |-> IF c \in columns THEN {} ELSE row[c]]

(* Where a script stands is read from left to right.                       *)
Before(a, b) ==
  \/ a[1] < b[1]
  \/ a[1] = b[1] /\ \/ a[2] < b[2]
                    \/ a[2] = b[2] /\ \/ a[3] < b[3]
                                      \/ a[3] = b[3] /\ \/ a[4] < b[4]
                                                        \/ a[4] = b[4] /\ a[5] < b[5]

(* for (r of rows) upsert: a new row comes without the columns of later,   *)
(* an old one has the given columns written.                               *)
UpsertAt(place, t, x, columns, later) ==
  <<place, Command("upsert", t, Single(x, Without(file[t][x], later)), columns)>>
Upsert(n, t, columns, later) ==
  {UpsertAt(<<n, x, 0, 0, 0>>, t, x, columns, later) : x \in DOMAIN file[t]}

(* The second pass over them writes the column that was left for later,    *)
(* where the file has something for it.                                    *)
UpdateAt(place, t, x, column) ==
  <<place, Command("update", t, Single(x, file[t][x]), {column})>>
Having(t, column) == {x \in DOMAIN file[t] : file[t][x][column] # {}}
SecondPass(n, t, column) == {UpdateAt(<<n, x, 0, 0, 0>>, t, x, column) : x \in Having(t, column)}

Fill(n, t, ids) ==
  IF ids = {} THEN {} ELSE {<< <<n, 0, 0, 0, 0>>, Command("fill", t, Only(file[t], ids), {})>>}
FillAll(n, t) == Fill(n, t, DOMAIN file[t])
Wipe(n, k, t) == << <<n, k, 0, 0, 0>>, Command("wipe", t, << >>, {})>>

(* Within the loop over a table's rows, a loop over what is below each.    *)
Under(t, owner, x) == {y \in DOMAIN file[t] : <<owner, x>> \in file[t][y].of}
UpsertUnder(n, k, t, owner, later) ==
  UNION {{UpsertAt(<<n, x, k, y, 0>>, t, y, {}, later) : y \in Under(t, owner, x)} :
           x \in DOMAIN file[owner]}

-----------------------------------------------------------------------------
(* seed-json-data.ts, section by section.                                  *)
Languages == Upsert(1, "languages", {}, {})

Permissions ==
  IF DOMAIN file["permissions"] = {} THEN {}
  ELSE {Wipe(2, 1, "user_permissions"), Wipe(2, 2, "role_permissions"), Wipe(2, 3, "permissions")}
       \cup {<< <<3, x, 0, 0, 0>>,
                Command("create", "permissions", Single(x, file["permissions"][x]), {})>> :
               x \in DOMAIN file["permissions"]}

Roles == Upsert(4, "roles", {}, {})

(* Grants of permissions that the file does not have are passed over.      *)
RolePermissions ==
  Fill(5, "role_permissions",
       {x \in DOMAIN file["role_permissions"] :
          \E p \in DOMAIN file["permissions"] :
            <<"permissions", p>> \in file["role_permissions"][x].of})

RoleManagement == Upsert(6, "role_management", {}, {})

(* The avatar waits for the media.                                         *)
Users == Upsert(7, "users", {}, {"in"})
UserRoles == Upsert(8, "user_roles", {}, {})
UserPermissions == FillAll(9, "user_permissions")
BlockTypes == Upsert(10, "block_type_definitions", {}, {})

PageTemplates ==
  Upsert(11, "page_templates", {"in"}, {}) \cup
  UpsertUnder(11, 1, "page_template_translations", "page_templates", {})

(* Mutant of MediaFolders: the second pass forgotten.                      *)
FoldersInOnePass == Upsert(12, "media_folders", {}, {"parent"})
MediaFolders ==
  Upsert(12, "media_folders", {}, {"parent"}) \cup SecondPass(13, "media_folders", "parent")

Media == Upsert(14, "media", {"in"}, {})
Avatars == SecondPass(15, "users", "in")

Pages == Upsert(16, "pages", {"in"}, {"parent"}) \cup SecondPass(17, "pages", "parent")

(* Each translation, and if it has blocks in the file, all of its blocks   *)
(* anew; then the aliases of the page or post.                             *)
Blocks(n, translations, blocks, x, y) ==
  IF Under(blocks, translations, y) = {} THEN {}
  ELSE {<< <<n, x, 1, y, 1>>, Command("wipe under", blocks, Single(y, translations), {})>>,
        << <<n, x, 1, y, 2>>,
           Command("create", blocks, Only(file[blocks], Under(blocks, translations, y)), {})>>}

Texts(n, t, translations, blocks, aliases) ==
  UpsertUnder(n, 1, translations, t, {}) \cup UpsertUnder(n, 2, aliases, t, {}) \cup
  UNION {UNION {Blocks(n, translations, blocks, x, y) : y \in Under(translations, t, x)} :
           x \in DOMAIN file[t]}

PageTexts == Texts(18, "pages", "page_translations", "page_content_blocks", "page_slug_aliases")

(* A category is made under its parent at once, which must be there.       *)
PostCategories ==
  Upsert(19, "post_categories", {}, {}) \cup
  UpsertUnder(19, 1, "post_category_translations", "post_categories", {})

Posts == Upsert(20, "posts", {"in"}, {})
PostTexts == Texts(21, "posts", "post_translations", "post_content_blocks", "post_slug_aliases")

PostCategoryPosts == FillAll(22, "post_category_posts")
PostPages ==
  {<< <<23, x, 0, 0, 0>>, Command("connect", "_PostPages", Single(x, file["_PostPages"][x]), {})>> :
     x \in DOMAIN file["_PostPages"]}

(* Menu by menu: its items, their parents, their translations.             *)
ItemTexts(x, y) ==
  {UpsertAt(<<24, x, 3, y, z>>, "menu_item_translations", z, {}, {}) :
     z \in Under("menu_item_translations", "menu_items", y)}
Items(x) ==
  {UpdateAt(<<24, x, 2, y, 0>>, "menu_items", y, "parent") :
     y \in Under("menu_items", "menus", x) \cap Having("menu_items", "parent")} \cup
  UNION {ItemTexts(x, y) : y \in Under("menu_items", "menus", x)}
Menus ==
  Upsert(24, "menus", {}, {}) \cup
  UpsertUnder(24, 1, "menu_items", "menus", {"parent"}) \cup
  UNION {Items(x) : x \in DOMAIN file["menus"]}

Versions == Upsert(25, "page_versions", {}, {}) \cup Upsert(26, "post_versions", {}, {})

Settings ==
  Upsert(27, "settings", {}, {}) \cup
  UpsertUnder(27, 1, "setting_global_contents", "settings", {}) \cup
  UpsertUnder(27, 2, "setting_localized_contents", "settings", {})

Logs == FillAll(28, "audit_logs") \cup FillAll(29, "activity_logs")

(* The tables whose ids are numbers from a sequence.                       *)
SequenceTables ==
  <<"languages", "permissions", "roles", "users", "block_type_definitions", "page_templates",
    "page_template_translations", "pages", "page_translations", "page_content_blocks",
    "page_versions", "page_slug_aliases", "post_categories", "post_category_translations",
    "posts", "post_translations", "post_content_blocks", "post_versions", "post_slug_aliases",
    "menus", "menu_items", "menu_item_translations", "media_folders", "media", "settings",
    "setting_global_contents", "setting_localized_contents", "notifications",
    "user_notification_states", "audit_logs", "activity_logs">>
Numbers == {SequenceTables[n] : n \in DOMAIN SequenceTables}

(* Mutant of ResetSequences: a table forgotten.                            *)
ResetSome ==
  {<< <<30, n, 0, 0, 0>>, Command("setval max", SequenceTables[n], << >>, {})>> :
     n \in {m \in DOMAIN SequenceTables : SequenceTables[m] # "post_categories"}}
ResetSequences ==
  {<< <<30, n, 0, 0, 0>>, Command("setval max", SequenceTables[n], << >>, {})>> :
     n \in DOMAIN SequenceTables}

SeedJsonData ==
  UNION {Languages, Permissions, Roles, RolePermissions, RoleManagement, Users, UserRoles,
         UserPermissions, BlockTypes, PageTemplates, MediaFolders, Media, Avatars, Pages,
         PageTexts, PostCategories, Posts, PostTexts, PostCategoryPosts, PostPages, Menus,
         Versions, Settings, Logs, ResetSequences}

-----------------------------------------------------------------------------
(* seed-chat-data.ts: texts, programs, regions and the configuration.      *)
CannedTexts ==
  Upsert(1, "canned_response_categories", {}, {}) \cup
  Upsert(2, "canned_responses", {"in"}, {}) \cup
  Upsert(3, "canned_response_translations", {}, {})

Taxonomy ==
  Upsert(4, "chat_programs", {}, {}) \cup Upsert(5, "chat_regions", {}, {}) \cup
  Upsert(6, "chat_config", {}, {})

SeedChatData == CannedTexts \cup Taxonomy

(* seed-chat-dev-data.ts: notifications, chats and operators' messages.    *)
Notifications ==
  Upsert(1, "notifications", {"in"}, {}) \cup Upsert(2, "user_notification_states", {}, {})

ChatSessions ==
  Upsert(3, "chat_sessions", {"in"}, {}) \cup
  UpsertUnder(3, 1, "chat_messages", "chat_sessions", {})

OperatorThreads ==
  Upsert(4, "operator_threads", {}, {}) \cup
  UpsertUnder(4, 1, "operator_messages", "operator_threads", {})

SeedChatDevData == Notifications \cup ChatSessions \cup OperatorThreads

-----------------------------------------------------------------------------
(* db-truncate.ts: children before parents, then the sequences.            *)
TruncateOrder ==
  <<"audit_logs", "activity_logs", "operator_messages", "operator_threads", "chat_messages",
    "chat_sessions", "canned_responses", "user_notification_states", "notifications",
    "setting_localized_contents", "setting_global_contents", "settings", "page_versions",
    "post_versions", "page_content_blocks", "post_content_blocks", "page_translations",
    "post_translations", "page_template_translations", "post_category_translations",
    "menu_item_translations", "page_slug_aliases", "post_slug_aliases", "post_category_posts",
    "user_permissions", "user_roles", "role_permissions", "menu_items", "menus",
    "post_categories", "posts", "pages", "page_templates", "block_type_definitions", "media",
    "media_folders", "permissions", "roles", "users", "languages">>

Truncate ==
  {Wipe(1, n, TruncateOrder[n]) : n \in DOMAIN TruncateOrder} \cup
  {<< <<2, n, 0, 0, 0>>, Command("setval first", TruncateOrder[n], << >>, {})>> :
     n \in {m \in DOMAIN TruncateOrder : TruncateOrder[m] \in Numbers}}

CommandsOf(name) ==
  CASE name = "seed" -> SeedJsonData
    [] name = "seed chat" -> SeedChatData
    [] name = "seed chats" -> SeedChatDevData
    [] name = "clean" -> Truncate

(* export-to-json.ts: one read after the other. *)
Reads == {<< <<n, 0, 0, 0, 0>>, Dumps[n]>> : n \in DOMAIN Dumps}

-----------------------------------------------------------------------------
(* What the database makes of a command.                                   *)
Written(c, x) ==
  IF x \notin DOMAIN db[c.table] THEN c.rows[x]
  ELSE IF c.do = "fill" THEN db[c.table][x]
  ELSE [k \in DOMAIN c.rows[x] |-> IF k \in c.columns THEN c.rows[x][k] ELSE db[c.table][x][k]]

Writes == {"upsert", "update", "create", "fill", "connect"}

(* Foreign keys, ids taken, and rows to update that are not there.         *)
Refused(c) ==
  /\ c.do \in Writes
  /\ \E x \in DOMAIN c.rows :
       \/ \E to \in PointsTo(Written(c, x)) : to[2] \notin DOMAIN db[to[1]]
       \/ c.do = "create" /\ x \in DOMAIN db[c.table]
       \/ c.do = "update" /\ x \notin DOMAIN db[c.table]

(* Rows go, with those that belong to them; other references become null.  *)
Deleted(t, ids) ==
  LET gone == {<<t, x>> : x \in ids}
      kept(u) == {y \in DOMAIN db[u] : <<u, y>> \notin gone /\ db[u][y].of \cap gone = {}}
      freed(row) == [row EXCEPT !.in = @ \ gone, !.parent = @ \ gone]
  IN  [u \in DOMAIN db |-> [y \in kept(u) |-> freed(db[u][y])]]

After(c) ==
  CASE c.do \in Writes ->
         [db EXCEPT ![c.table] =
            [x \in DOMAIN @ \cup DOMAIN c.rows |-> IF x \in DOMAIN c.rows THEN Written(c, x) ELSE @[x]]]
    [] c.do = "wipe" -> Deleted(c.table, DOMAIN db[c.table])
    [] c.do = "wipe under" ->
         Deleted(c.table, {y \in DOMAIN db[c.table] :
                             \E x \in DOMAIN c.rows : <<c.rows[x], x>> \in db[c.table][y].of})
    [] OTHER -> db

Greatest(ids) == CHOOSE x \in ids : \A y \in ids : y <= x

Numbered(c) ==
  CASE c.do = "setval first" -> [serial EXCEPT ![c.table] = 1]
    [] c.do = "setval max" -> [serial EXCEPT ![c.table] =
         IF DOMAIN db[c.table] = {} THEN 2 ELSE Greatest(DOMAIN db[c.table]) + 1]
    [] OTHER -> serial

-----------------------------------------------------------------------------
RestoreInit ==
  /\ db \in Contents
  /\ serial = [t \in Numbers |-> IF DOMAIN db[t] = {} THEN 1 ELSE Greatest(DOMAIN db[t]) + 1]
  /\ file = None /\ script = Idle /\ finished = {} /\ before = None
  /\ spent = [made |-> 0, moved |-> 0, crashes |-> 0, undrawn |-> 0]

(* What the script does next. *)
IsNext(p) == \A q \in script.todo : q = p \/ Before(p[1], q[1])

Export ==
  /\ script.run = None
  /\ script' = [run |-> "export", todo |-> Reads, data |-> Nothing]
  /\ before' = db /\ finished' = {}
  /\ UNCHANGED <<db, serial, file, spent>>

(* dump: a read that fails is passed over.                                 *)
Dump ==
  /\ script.run = "export"
  /\ \E p \in script.todo :
       /\ IsNext(p)
       /\ \/ /\ script' = [script EXCEPT !.todo = @ \ {p},
                  !.data = [t \in DOMAIN @ |-> IF t \in p[2] THEN db[t] ELSE @[t]]]
             /\ UNCHANGED <<before, spent>>
          \/ /\ spent.undrawn < MaxUndrawn
             /\ script' = [script EXCEPT !.todo = @ \ {p}]
             /\ spent' = [spent EXCEPT !.undrawn = @ + 1] /\ before' = None
  /\ UNCHANGED <<db, serial, file, finished>>

WriteFile ==
  /\ script.run = "export" /\ script.todo = {}
  /\ file' = script.data /\ script' = Idle
  /\ UNCHANGED <<db, serial, finished, spent, before>>

(* The database is emptied only once there is a file (without one the      *)
(* seed scripts do nothing at all); the chat scripts come after the first, *)
(* to whose rows theirs point.                                             *)
Begin(name) ==
  /\ script.run = None
  /\ CASE name = "clean" -> file # None
       [] name = "seed" -> file # None
       [] OTHER -> "seed" \in finished
  /\ script' = [run |-> name, todo |-> CommandsOf(name), data |-> None]
  /\ finished' = IF name = "clean" THEN {} ELSE finished \ {name}
  /\ UNCHANGED <<db, serial, file, spent, before>>

(* The next command.  One that is refused ends the script, but for those   *)
(* that connect posts to pages, whose errors are caught.                   *)
Proceed ==
  /\ script.run \notin {None, "export"}
  /\ \E p \in script.todo :
       /\ IsNext(p)
       /\ IF Refused(p[2]) /\ p[2].do # "connect"
          THEN script' = [Idle EXCEPT !.todo = {p}] /\ UNCHANGED <<db, serial>>
          ELSE /\ script' = [script EXCEPT !.todo = @ \ {p}]
               /\ IF Refused(p[2]) THEN UNCHANGED <<db, serial>>
                  ELSE db' = After(p[2]) /\ serial' = Numbered(p[2])
  /\ UNCHANGED <<file, finished, spent, before>>

Finish ==
  /\ script.run \notin {None, "export"} /\ script.todo = {}
  /\ finished' = finished \cup ({script.run} \ {"clean"}) /\ script' = Idle
  /\ UNCHANGED <<db, serial, file, spent, before>>

Crash ==
  /\ script.run # None /\ spent.crashes < MaxCrashes
  /\ script' = Idle /\ spent' = [spent EXCEPT !.crashes = @ + 1]
  /\ before' = IF script.run = "export" THEN None ELSE before
  /\ UNCHANGED <<db, serial, file, finished>>

-----------------------------------------------------------------------------
(* The back office meanwhile: a category takes the next id of the sequence *)
(* (which is used up even if a row has it), moves, or goes.                *)
Edited == before' = None /\ UNCHANGED <<file, script, finished>>
Moved == Edited /\ spent.moved < MaxMoved /\ spent' = [spent EXCEPT !.moved = @ + 1]

NewCategory ==
  /\ serial["post_categories"] <= MaxRows
  /\ Edited /\ spent.made < MaxMade /\ spent' = [spent EXCEPT !.made = @ + 1]
  /\ LET x == serial["post_categories"] IN
       /\ serial' = [serial EXCEPT !["post_categories"] = x + 1]
       /\ IF x \in DOMAIN db["post_categories"] THEN UNCHANGED db
          ELSE db' = [db EXCEPT !["post_categories"] =
                        Put(@, x, [parent |-> {}, in |-> {}, of |-> {}])]

Category(x) == <<"post_categories", x>>

(* Those from which a walk up the parents comes to x. *)
Descendants(x) ==
  LET table == db["post_categories"] IN
    {y \in DOMAIN table :
       \A S \in SUBSET DOMAIN table :
         (x \in S /\ \A z \in DOMAIN table : (\E up \in S : Category(up) \in table[z].parent) => z \in S)
           => y \in S}

MoveCategory(x, to) ==
  /\ Moved /\ to \notin Descendants(x)
  /\ db' = [db EXCEPT !["post_categories"][x].parent = {Category(to)}]
  /\ UNCHANGED serial

RemoveCategory(x) ==
  /\ Moved /\ db' = Deleted("post_categories", {x}) /\ UNCHANGED serial

RestoreNext ==
  \/ Export \/ Dump \/ WriteFile
  \/ \E name \in Scripts : Begin(name)
  \/ Proceed \/ Finish \/ Crash
  \/ NewCategory
  \/ \E x \in DOMAIN db["post_categories"] :
       \/ RemoveCategory(x)
       \/ \E to \in DOMAIN db["post_categories"] : MoveCategory(x, to)

RestoreSpec == RestoreInit /\ [][RestoreNext]_restoreVars

-----------------------------------------------------------------------------
ChatTexts == {"canned_response_categories", "canned_responses", "canned_response_translations",
              "chat_programs", "chat_regions", "chat_config"}
ChatRows == {"notifications", "user_notification_states", "chat_sessions", "chat_messages",
             "operator_threads", "operator_messages"}
RestoredBy(name) ==
  CASE name = "seed chat" -> ChatTexts
    [] name = "seed chats" -> ChatRows
    [] OTHER -> DOMAIN db \ (ChatTexts \cup ChatRows)

(* A category is made after the ones with smaller ids, and a menu after    *)
(* the menus with smaller ones: what a row points to may come later.       *)
ParentComesLater ==
  \/ \E x \in DOMAIN file["post_categories"] :
       \E up \in file["post_categories"][x].parent : up[2] > x
  \/ \E item \in DOMAIN file["menu_items"] : \E up \in file["menu_items"][item].parent :
       \E m, n \in DOMAIN file["menus"] :
         item \in Under("menu_items", "menus", m) /\ up[2] \in Under("menu_items", "menus", n) /\ n > m

(* An export restores what it was taken from, however often the database   *)
(* was emptied in between, and wherever earlier runs broke off, when the   *)
(* back office rests: a script that ends well leaves its tables as they    *)
(* were, and all that a script can stumble on for good is a category that  *)
(* comes before its parent or a menu item whose parent is of a later menu  *)
(* (seed-json-data.ts:3, "Safe to re-run", and :344-375 and :489-528, the  *)
(* trees that are not written in two passes over all of their rows).       *)
RestoredAsExported ==
  before # None =>
    /\ \A name \in finished : \A t \in RestoredBy(name) : db[t] = before[t]
    /\ script.run = None /\ script.todo # {} => ParentComesLater

(* After a run of seed-json-data.ts that ends well the ids that the        *)
(* sequences hand out are free, whatever has been made meanwhile and by    *)
(* whichever sequence (:667, "Must run last").  The notifications, which a *)
(* later script restores with their ids, are not among them.               *)
FreshIds ==
  "seed" \in finished =>
    \A t \in DOMAIN serial \ ChatRows : \A x \in DOMAIN db[t] : x < serial[t]
=================================================================================
