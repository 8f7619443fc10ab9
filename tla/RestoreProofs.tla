----------------------------- MODULE RestoreProofs -----------------------------
(***************************************************************************)
(* Proofs about the export and the restoring of the database, for any      *)
(* content of any number of rows that its foreign keys allow, and any      *)
(* number of crashes, refusals and requests of the back office: what a     *)
(* script has done comes before what it has still to do, the ids that the  *)
(* sequences hand out are free, and the database is as it was exported     *)
(* once the scripts have ended well.                                       *)
(*                                                                         *)
(* What the scripts consist of comes first: which commands make the rows   *)
(* of a table, in which section, and which make room for them.  Then what  *)
(* commands make of the database, and three invariants, of what scripts    *)
(* have still to do, of the sequences, and of what is back.                *)
(***************************************************************************)
EXTENDS Restore, FiniteSetTheorems, WellFoundedInduction, TLAPS

Place == Nat \X Nat \X Nat \X Nat \X Nat

LEMMA BeforeOneWay ==
  ASSUME NEW a \in Place, NEW b \in Place, Before(a, b)
  PROVE  ~Before(b, a) /\ a # b
BY DEF Before, Place

SeedTables ==
  {"languages", "permissions", "roles", "role_permissions", "role_management", "users", "user_roles",
   "user_permissions", "block_type_definitions", "media_folders", "media", "page_templates",
   "page_template_translations", "pages", "page_translations", "page_content_blocks",
   "page_slug_aliases", "page_versions", "post_categories", "post_category_translations", "posts",
   "post_translations", "post_content_blocks", "post_slug_aliases", "post_category_posts",
   "_PostPages", "post_versions", "menus", "menu_items", "menu_item_translations", "settings",
   "setting_global_contents", "setting_localized_contents", "audit_logs", "activity_logs"}

LEMMA TablesAre == AllTables = SeedTables \cup ChatTexts \cup ChatRows
<1>1. DOMAIN Dumps = 1 .. 33
  BY DEF Dumps
<1>2. AllTables \subseteq SeedTables \cup ChatTexts \cup ChatRows
  <2> SUFFICES ASSUME NEW n \in 1 .. 33 PROVE Dumps[n] \subseteq SeedTables \cup ChatTexts \cup ChatRows
    BY <1>1 DEF AllTables
  <2> QED BY DEF Dumps, SeedTables, ChatTexts, ChatRows
<1> QED
  BY <1>1, <1>2 DEF AllTables, Dumps, SeedTables, ChatTexts, ChatRows

-----------------------------------------------------------------------------
(* The section in which a script makes the rows of a table. *)
Section(t) ==
  CASE t = "languages" -> 1 [] t = "permissions" -> 3 [] t = "roles" -> 4
    [] t = "role_permissions" -> 5 [] t = "role_management" -> 6 [] t = "users" -> 7
    [] t = "user_roles" -> 8 [] t = "user_permissions" -> 9 [] t = "block_type_definitions" -> 10
    [] t \in {"page_templates", "page_template_translations"} -> 11
    [] t = "media_folders" -> 12 [] t = "media" -> 14 [] t = "pages" -> 16
    [] t \in {"page_translations", "page_content_blocks", "page_slug_aliases"} -> 18
    [] t \in {"post_categories", "post_category_translations"} -> 19 [] t = "posts" -> 20
    [] t \in {"post_translations", "post_content_blocks", "post_slug_aliases"} -> 21
    [] t = "post_category_posts" -> 22 [] t = "_PostPages" -> 23
    [] t \in {"menus", "menu_items", "menu_item_translations"} -> 24
    [] t = "page_versions" -> 25 [] t = "post_versions" -> 26
    [] t \in {"settings", "setting_global_contents", "setting_localized_contents"} -> 27
    [] t = "audit_logs" -> 28 [] t = "activity_logs" -> 29
    [] t = "canned_response_categories" -> 1 [] t = "canned_responses" -> 2
    [] t = "canned_response_translations" -> 3 [] t = "chat_programs" -> 4
    [] t = "chat_regions" -> 5 [] t = "chat_config" -> 6
    [] t = "notifications" -> 1 [] t = "user_notification_states" -> 2
    [] t \in {"chat_sessions", "chat_messages"} -> 3
    [] t \in {"operator_threads", "operator_messages"} -> 4

InTwoPasses == {"media_folders", "pages", "menu_items"}

(* What waits for a second pass over the rows of a table. *)
Later(t) == IF t = "users" THEN {"in"} ELSE IF t \in InTwoPasses THEN {"parent"} ELSE {}

(* Command p makes rows of table t, or brings the columns of the second pass. *)
Makes(p, t) ==
  /\ p[1] \in Place /\ p[1][1] = Section(t)
  /\ p[2].do \in {"upsert", "create", "fill", "connect"} /\ p[2].table = t
  /\ DOMAIN p[2].rows \subseteq DOMAIN file[t]
  /\ \A x \in DOMAIN p[2].rows : p[2].rows[x] = Without(file[t][x], Later(t))
  /\ p[2].columns \in {{}, {"in"}} /\ p[2].columns \cap Later(t) = {}

Updates(p, t) ==
  /\ p[1] \in Place
  /\ <<p[1][1], t>> \in {<<13, "media_folders">>, <<15, "users">>, <<17, "pages">>, <<24, "menu_items">>}
  /\ p[2].do = "update" /\ p[2].table = t
  /\ DOMAIN p[2].rows \subseteq DOMAIN file[t]
  /\ \A x \in DOMAIN p[2].rows : p[2].rows[x] = file[t][x]
  /\ p[2].columns = Later(t)

LEMMA WithoutRow ==
  ASSUME NEW row \in TableRow
  PROVE  /\ Without(row, {}) = row
         /\ Without(row, {"in"}) = [row EXCEPT !.in = {}]
         /\ Without(row, {"parent"}) = [row EXCEPT !.parent = {}]
BY DEF TableRow, Without

LEMMA FileRows ==
  ASSUME RowsFit(file), NEW t \in AllTables
  PROVE  /\ DOMAIN file[t] \subseteq Nat
         /\ \A x \in DOMAIN file[t] : file[t][x] \in TableRow /\ RowFits(t, x, file[t][x])
BY DEF RowsFit, RowFits

LEMMA UpsertMakes ==
  ASSUME RowsFit(file), NEW t \in AllTables, NEW place \in Place, place[1] = Section(t),
         NEW x \in DOMAIN file[t], NEW columns, columns \in {{}, {"in"}}, columns \cap Later(t) = {},
         NEW later, later = Later(t)
  PROVE  Makes(UpsertAt(place, t, x, columns, later), t)
BY DEF UpsertAt, Makes, Command, Single

LEMMA UpsertsMake ==
  ASSUME RowsFit(file), NEW t \in AllTables, NEW n \in Nat, n = Section(t),
         NEW columns, columns \in {{}, {"in"}}, columns \cap Later(t) = {}, NEW later, later = Later(t),
         NEW p \in Upsert(n, t, columns, later)
  PROVE  Makes(p, t)
<1>1. PICK x \in DOMAIN file[t] : p = UpsertAt(<<n, x, 0, 0, 0>>, t, x, columns, later)
  BY DEF Upsert
<1>2. <<n, x, 0, 0, 0>> \in Place
  BY FileRows DEF Place
<1> QED
  BY <1>1, <1>2, UpsertMakes

LEMMA UpsertsUnderMake ==
  ASSUME RowsFit(file), NEW t \in AllTables, NEW owner \in AllTables, NEW n \in Nat, NEW k \in Nat,
         n = Section(t), NEW later, later = Later(t), NEW p \in UpsertUnder(n, k, t, owner, later)
  PROVE  Makes(p, t)
<1>1. PICK x \in DOMAIN file[owner] : \E y \in Under(t, owner, x) :
        p = UpsertAt(<<n, x, k, y, 0>>, t, y, {}, later)
  BY DEF UpsertUnder
<1>2. PICK y \in Under(t, owner, x) : p = UpsertAt(<<n, x, k, y, 0>>, t, y, {}, later)
  BY <1>1
<1>3. y \in DOMAIN file[t]
  BY DEF Under
<1>4. <<n, x, k, y, 0>> \in Place
  BY <1>3, FileRows DEF Place
<1> QED
  BY <1>2, <1>3, <1>4, UpsertMakes

LEMMA FillMakes ==
  ASSUME RowsFit(file), NEW t \in AllTables, NEW n \in Nat, n = Section(t), Later(t) = {},
         NEW ids, NEW p \in Fill(n, t, ids)
  PROVE  Makes(p, t)
<1>1. p = << <<n, 0, 0, 0, 0>>, Command("fill", t, Only(file[t], ids), {})>>
  BY DEF Fill
<1>2. <<n, 0, 0, 0, 0>> \in Place
  BY DEF Place
<1>3. \A x \in DOMAIN file[t] : Without(file[t][x], {}) = file[t][x]
  BY FileRows, WithoutRow
<1> QED
  BY <1>1, <1>2, <1>3 DEF Makes, Command, Only

LEMMA SecondPassUpdates ==
  ASSUME RowsFit(file), NEW t, NEW n, NEW column,
         <<n, t, column>> \in {<<13, "media_folders", "parent">>, <<15, "users", "in">>,
                               <<17, "pages", "parent">>},
         NEW p \in SecondPass(n, t, column)
  PROVE  Updates(p, t)
<1>1. t \in AllTables /\ n \in Nat
  BY TablesAre DEF SeedTables
<1>2. PICK x \in Having(t, column) : p = UpdateAt(<<n, x, 0, 0, 0>>, t, x, column)
  BY DEF SecondPass
<1>3. x \in DOMAIN file[t] /\ x \in Nat
  BY <1>1, FileRows DEF Having
<1>4. Later(t) = {column}
  BY DEF Later, InTwoPasses
<1>5. <<n, x, 0, 0, 0>> \in Place
  BY <1>1, <1>3 DEF Place
<1> QED
  BY <1>2, <1>3, <1>4, <1>5 DEF UpdateAt, Updates, Command, Single
-----------------------------------------------------------------------------
(* Commands that make row x of table t, one of them before command p. *)
Has(C, t, x) == \E s \in C : Makes(s, t) /\ x \in DOMAIN s[2].rows
MadeFirst(C, p, t, x) ==
  \E s \in C : Makes(s, t) /\ x \in DOMAIN s[2].rows /\ Before(s[1], p[1])

(* The tables whose rows a script makes in the section of the rows that    *)
(* they belong to: each after its owner.                                   *)
Nested ==
  {"page_template_translations", "page_content_blocks", "post_category_translations",
   "post_content_blocks", "menu_items", "menu_item_translations", "setting_global_contents",
   "setting_localized_contents", "chat_messages", "operator_messages"}

AfterOwner(C, p, t) ==
  \A y \in DOMAIN p[2].rows :
    \E x \in Nat : <<PartOf[t], x>> \in file[t][y].of /\ MadeFirst(C, p, PartOf[t], x)

(* What the making commands of a script are like. *)
Orderly(C, p, t) ==
  /\ Makes(p, t)
  /\ t \in Nested => AfterOwner(C, p, t)
  /\ t = "post_categories" => p[1] = <<19, p[1][2], 0, 0, 0>> /\ DOMAIN p[2].rows = {p[1][2]}

(* Commands of section n that make the rows of t one by one. *)
OneByOne(C, n, t) ==
  \A x \in DOMAIN file[t] :
    \E s \in C : Makes(s, t) /\ s[1] = <<n, x, 0, 0, 0>> /\ DOMAIN s[2].rows = {x}

LEMMA UpsertsAll ==
  ASSUME RowsFit(file), NEW t \in AllTables, NEW n \in Nat, n = Section(t),
         NEW columns, columns \in {{}, {"in"}}, columns \cap Later(t) = {}, NEW later, later = Later(t),
         NEW C, Upsert(n, t, columns, later) \subseteq C
  PROVE  OneByOne(C, n, t)
<1> SUFFICES ASSUME NEW x \in DOMAIN file[t]
             PROVE  \E s \in C : Makes(s, t) /\ s[1] = <<n, x, 0, 0, 0>> /\ DOMAIN s[2].rows = {x}
  BY DEF OneByOne
<1> DEFINE s == UpsertAt(<<n, x, 0, 0, 0>>, t, x, columns, later)
<1>1. s \in Upsert(n, t, columns, later)
  BY DEF Upsert
<1>2. s[1] = <<n, x, 0, 0, 0>> /\ DOMAIN s[2].rows = {x}
  BY DEF UpsertAt, Command, Single
<1> QED
  BY <1>1, <1>2, UpsertsMake

LEMMA OneByOneHas ==
  ASSUME NEW C, NEW n, NEW t, OneByOne(C, n, t), NEW x \in DOMAIN file[t]
  PROVE  Has(C, t, x)
BY DEF OneByOne, Has

LEMMA UpsertsOrderly ==
  ASSUME RowsFit(file), NEW t \in AllTables \ Nested, NEW n \in Nat, n = Section(t),
         NEW columns, columns \in {{}, {"in"}}, columns \cap Later(t) = {}, NEW later, later = Later(t),
         NEW C, NEW p \in Upsert(n, t, columns, later)
  PROVE  Orderly(C, p, t)
<1>1. PICK x \in DOMAIN file[t] : p = UpsertAt(<<n, x, 0, 0, 0>>, t, x, columns, later)
  BY DEF Upsert
<1>2. Makes(p, t)
  BY UpsertsMake
<1>3. t = "post_categories" => n = 19
  BY DEF Section
<1>4. p[1] = <<n, x, 0, 0, 0>> /\ DOMAIN p[2].rows = {x}
  BY <1>1 DEF UpsertAt, Command, Single
<1> QED
  BY <1>2, <1>3, <1>4 DEF Orderly

LEMMA FillOrderly ==
  ASSUME RowsFit(file), NEW t \in AllTables \ Nested, NEW n \in Nat, n = Section(t), Later(t) = {},
         t # "post_categories", NEW C, NEW ids, NEW p \in Fill(n, t, ids)
  PROVE  Orderly(C, p, t)
BY FillMakes DEF Orderly

LEMMA FillHas ==
  ASSUME RowsFit(file), NEW t \in AllTables, NEW n \in Nat, n = Section(t), Later(t) = {},
         NEW C, NEW ids, Fill(n, t, ids) \subseteq C, NEW x \in ids \cap DOMAIN file[t]
  PROVE  Has(C, t, x)
<1>1. PICK p \in Fill(n, t, ids) : p = << <<n, 0, 0, 0, 0>>, Command("fill", t, Only(file[t], ids), {})>>
  BY DEF Fill
<1>2. x \in DOMAIN p[2].rows
  BY <1>1 DEF Command, Only
<1> QED
  BY <1>1, <1>2, FillMakes DEF Has

(* Those under the rows of a table of the same section. *)
LEMMA UnderOrderly ==
  ASSUME RowsFit(file), NEW t \in DOMAIN PartOf, NEW n \in Nat, n = Section(t),
         t \in AllTables, PartOf[t] \in AllTables,
         NEW k \in Nat \ {0}, NEW later, later = Later(t), NEW C, OneByOne(C, n, PartOf[t]),
         NEW p \in UpsertUnder(n, k, t, PartOf[t], later)
  PROVE  Orderly(C, p, t)
<1>1. PICK x \in DOMAIN file[PartOf[t]] : \E y \in Under(t, PartOf[t], x) :
        p = UpsertAt(<<n, x, k, y, 0>>, t, y, {}, later)
  BY DEF UpsertUnder
<1>2. PICK y \in Under(t, PartOf[t], x) : p = UpsertAt(<<n, x, k, y, 0>>, t, y, {}, later)
  BY <1>1
<1>3. p[1] = <<n, x, k, y, 0>> /\ DOMAIN p[2].rows = {y}
  BY <1>2 DEF UpsertAt, Command, Single
<1>4. PICK s \in C : Makes(s, PartOf[t]) /\ s[1] = <<n, x, 0, 0, 0>> /\ DOMAIN s[2].rows = {x}
  BY DEF OneByOne
<1>5. x \in Nat /\ y \in Nat
  BY FileRows DEF Under
<1>6. Before(s[1], p[1])
  BY <1>3, <1>4, <1>5 DEF Before
<1>7. AfterOwner(C, p, t)
  BY <1>3, <1>4, <1>5, <1>6 DEF AfterOwner, MadeFirst, Under
<1>8. t # "post_categories"
  BY DEF PartOf
<1> QED
  BY <1>7, <1>8, UpsertsUnderMake DEF Orderly

LEMMA UnderHas ==
  ASSUME RowsFit(file), KeysLead(file), NEW t \in DOMAIN PartOf, NEW n \in Nat, n = Section(t),
         t \in AllTables, PartOf[t] \in AllTables, NEW k \in Nat,
         NEW later, later = Later(t), NEW C, UpsertUnder(n, k, t, PartOf[t], later) \subseteq C,
         NEW y \in DOMAIN file[t]
  PROVE  Has(C, t, y)
<1>1. PICK own \in file[t][y].of : own[1] = PartOf[t]
  <2>1. RowFits(t, y, file[t][y])
    BY FileRows
  <2> QED
    BY <2>1 DEF RowFits
<1>2. own = <<PartOf[t], own[2]>> /\ own[2] \in DOMAIN file[PartOf[t]]
  BY <1>1, FileRows DEF KeysLead, PointsTo, TableRow, Refs
<1> DEFINE s == UpsertAt(<<n, own[2], k, y, 0>>, t, y, {}, later)
<1>3. y \in Under(t, PartOf[t], own[2])
  BY <1>2, <1>1 DEF Under
<1>4. s \in UpsertUnder(n, k, t, PartOf[t], later)
  BY <1>2, <1>3 DEF UpsertUnder
<1>5. DOMAIN s[2].rows = {y}
  BY DEF UpsertAt, Command, Single
<1> QED
  BY <1>4, <1>5, UpsertsUnderMake DEF Has

-----------------------------------------------------------------------------
(* Blocks: those of a translation are cut out and pasted in again. *)
BlockTables == {"page_content_blocks", "post_content_blocks"}

Texted(x, y, b) ==
  /\ x \in DOMAIN file[PartOf[PartOf[b]]] /\ y \in Under(PartOf[b], PartOf[PartOf[b]], x)
  /\ Under(b, PartOf[b], y) # {}
Cut(x, y, b) ==
  << <<Section(b), x, 1, y, 1>>, Command("wipe under", b, Single(y, PartOf[b]), {})>>
Paste(x, y, b) ==
  << <<Section(b), x, 1, y, 2>>,
     Command("create", b, Only(file[b], Under(b, PartOf[b], y)), {})>>
Cuts(p, b) == \E x, y \in Nat : Texted(x, y, b) /\ p = Cut(x, y, b)
Pastes(p, b) == \E x, y \in Nat : Texted(x, y, b) /\ p = Paste(x, y, b)

LEMMA BlockTablesAre ==
  ASSUME NEW b \in BlockTables
  PROVE  LET translations == PartOf[b] t == PartOf[translations] IN
         /\ b \in SeedTables \cap DOMAIN PartOf \cap Nested
         /\ translations \in (SeedTables \cap DOMAIN PartOf) \ Nested
         /\ t \in SeedTables
         /\ Section(b) \in Nat /\ Section(translations) = Section(b)
         /\ Later(b) = {} /\ Later(translations) = {} /\ translations # "post_categories"
<1>1. CASE b = "page_content_blocks"
  BY <1>1 DEF PartOf, SeedTables, Nested, Section, Later, InTwoPasses
<1>2. CASE b = "post_content_blocks"
  BY <1>2 DEF PartOf, SeedTables, Nested, Section, Later, InTwoPasses
<1> QED
  BY <1>1, <1>2 DEF BlockTables

LEMMA NatRows ==
  ASSUME RowsFit(file), NEW t \in AllTables, NEW x \in DOMAIN file[t]
  PROVE  x \in Nat /\ file[t][x] \in TableRow /\ RowFits(t, x, file[t][x])
BY FileRows

(* Each row below has one owner. *)
LEMMA OneOwner ==
  ASSUME RowsFit(file), NEW t \in AllTables \cap DOMAIN PartOf, NEW y \in DOMAIN file[t],
         NEW x1, NEW x2, <<PartOf[t], x1>> \in file[t][y].of, <<PartOf[t], x2>> \in file[t][y].of
  PROVE  x1 = x2
<1>1. RowFits(t, y, file[t][y])
  BY NatRows
<1>2. PICK own \in file[t][y].of : \A to \in file[t][y].of : to[1] = PartOf[t] <=> to = own
  BY <1>1 DEF RowFits
<1>3. <<PartOf[t], x1>> = own /\ <<PartOf[t], x2>> = own
  BY <1>2
<1> QED
  BY <1>3

LEMMA AnOwner ==
  ASSUME RowsFit(file), KeysLead(file), NEW t \in AllTables \cap DOMAIN PartOf,
         PartOf[t] \in AllTables, NEW y \in DOMAIN file[t]
  PROVE  \E x \in DOMAIN file[PartOf[t]] : y \in Under(t, PartOf[t], x)
<1>1. PICK own \in file[t][y].of : own[1] = PartOf[t]
  <2>1. RowFits(t, y, file[t][y])
    BY NatRows
  <2> QED
    BY <2>1 DEF RowFits
<1>2. own = <<PartOf[t], own[2]>> /\ own[2] \in DOMAIN file[PartOf[t]]
  BY <1>1, NatRows DEF KeysLead, PointsTo, TableRow, Refs
<1> QED
  BY <1>1, <1>2 DEF Under

LEMMA PasteOrderly ==
  ASSUME RowsFit(file), NEW b \in BlockTables, NEW C,
         UpsertUnder(Section(b), 1, PartOf[b], PartOf[PartOf[b]], {}) \subseteq C,
         NEW p, Pastes(p, b)
  PROVE  Orderly(C, p, b)
<1> DEFINE translations == PartOf[b]
           t == PartOf[translations]
<1>1. /\ b \in AllTables /\ translations \in AllTables /\ t \in AllTables
      /\ Section(b) \in Nat /\ Section(translations) = Section(b)
      /\ Later(b) = {} /\ Later(translations) = {}
  BY BlockTablesAre, TablesAre
<1>2. PICK x, y \in Nat : Texted(x, y, b) /\ p = Paste(x, y, b)
  BY DEF Pastes
<1>3. /\ p[1] = <<Section(b), x, 1, y, 2>> /\ p[1] \in Place
      /\ p[2].do = "create" /\ p[2].table = b /\ p[2].columns = {}
      /\ DOMAIN p[2].rows = Under(b, translations, y)
      /\ \A z \in DOMAIN p[2].rows : p[2].rows[z] = file[b][z]
  BY <1>2, BlockTablesAre DEF Paste, Command, Only, Place, Under
<1>4. \A z \in DOMAIN file[b] : Without(file[b][z], {}) = file[b][z]
  BY <1>1, NatRows, WithoutRow
<1>5. Makes(p, b)
  BY <1>1, <1>3, <1>4 DEF Makes, Under
<1> DEFINE s == UpsertAt(<<Section(b), x, 1, y, 0>>, translations, y, {}, {})
<1>6. s \in UpsertUnder(Section(b), 1, translations, t, {})
  BY <1>2 DEF UpsertUnder, Texted
<1>7. s[1] = <<Section(b), x, 1, y, 0>> /\ DOMAIN s[2].rows = {y}
  BY DEF UpsertAt, Command, Single
<1> HIDE DEF s
<1>8. Makes(s, translations)
  BY <1>1, <1>6, UpsertsUnderMake
<1>9. Before(s[1], p[1])
  BY <1>1, <1>3, <1>7 DEF Before
<1>10. AfterOwner(C, p, b)
  BY <1>2, <1>3, <1>6, <1>7, <1>8, <1>9 DEF AfterOwner, MadeFirst, Under
<1>11. b # "post_categories"
  BY DEF BlockTables
<1> QED
  BY <1>5, <1>10, <1>11 DEF Orderly

LEMMA TextsOrderly ==
  ASSUME RowsFit(file), NEW b \in BlockTables, NEW aliases,
         <<b, aliases>> \in {<<"page_content_blocks", "page_slug_aliases">>,
                             <<"post_content_blocks", "post_slug_aliases">>},
         NEW C, Texts(Section(b), PartOf[PartOf[b]], PartOf[b], b, aliases) \subseteq C,
         NEW p \in Texts(Section(b), PartOf[PartOf[b]], PartOf[b], b, aliases)
  PROVE  \/ Orderly(C, p, PartOf[b]) /\ p[2].do = "upsert"
         \/ Orderly(C, p, aliases) /\ p[2].do = "upsert"
         \/ Cuts(p, b)
         \/ Pastes(p, b) /\ Orderly(C, p, b)
<1> DEFINE translations == PartOf[b]
           t == PartOf[translations]
           n == Section(b)
<1>1. /\ aliases \in AllTables \ Nested /\ Later(aliases) = {} /\ Section(aliases) = n
      /\ aliases # "post_categories" /\ n \in Nat
      /\ translations \in AllTables \ Nested /\ t \in AllTables /\ b \in AllTables
  <2>1. /\ n \in Nat /\ SeedTables \subseteq AllTables
        /\ translations \in SeedTables \ Nested /\ t \in SeedTables /\ b \in SeedTables
    BY BlockTablesAre, TablesAre
  <2>2. /\ aliases \in SeedTables \ Nested /\ Later(aliases) = {} /\ Section(aliases) = Section(b)
        /\ aliases # "post_categories"
    <3>1. CASE b = "page_content_blocks" /\ aliases = "page_slug_aliases"
      BY <3>1 DEF SeedTables, Nested, Later, InTwoPasses, Section
    <3>2. CASE b = "post_content_blocks" /\ aliases = "post_slug_aliases"
      BY <3>2 DEF SeedTables, Nested, Later, InTwoPasses, Section
    <3> QED
      BY <3>1, <3>2
  <2> QED
    BY <2>1, <2>2
<1>2. CASE p \in UpsertUnder(n, 1, translations, t, {})
  <2>1. Makes(p, translations)
    BY <1>1, <1>2, UpsertsUnderMake, BlockTablesAre
  <2>2. p[2].do = "upsert"
    BY <1>2 DEF UpsertUnder, UpsertAt, Command
  <2> QED
    BY <2>1, <2>2, BlockTablesAre DEF Orderly
<1>3. CASE p \in UpsertUnder(n, 2, aliases, t, {})
  <2>1. Makes(p, aliases)
    BY <1>1, <1>3, UpsertsUnderMake
  <2>2. p[2].do = "upsert"
    BY <1>3 DEF UpsertUnder, UpsertAt, Command
  <2> QED
    BY <2>1, <2>2, <1>1 DEF Orderly
<1>4. CASE \E x \in DOMAIN file[t] :
              \E y \in Under(translations, t, x) : p \in Blocks(n, translations, b, x, y)
  <2>1. PICK x \in DOMAIN file[t] :
               \E y \in Under(translations, t, x) : p \in Blocks(n, translations, b, x, y)
    BY <1>4
  <2>2. PICK y \in Under(translations, t, x) : p \in Blocks(n, translations, b, x, y)
    BY <2>1
  <2>3. x \in Nat /\ y \in Nat
    BY <1>1, NatRows DEF Under
  <2>4. Texted(x, y, b)
    BY <2>2 DEF Blocks, Texted
  <2>5. p = Cut(x, y, b) \/ p = Paste(x, y, b)
    BY <2>2 DEF Blocks, Cut, Paste
  <2>6. Cuts(p, b) \/ Pastes(p, b)
    BY <2>3, <2>4, <2>5 DEF Cuts, Pastes
  <2>7. UpsertUnder(n, 1, translations, t, {}) \subseteq C
    BY DEF Texts
  <2> QED
    BY <2>6, <2>7, PasteOrderly
<1> QED
  BY <1>2, <1>3, <1>4 DEF Texts

LEMMA BlocksHave ==
  ASSUME RowsFit(file), KeysLead(file), NEW b \in BlockTables, NEW aliases,
         NEW C, Texts(Section(b), PartOf[PartOf[b]], PartOf[b], b, aliases) \subseteq C,
         NEW z \in DOMAIN file[b]
  PROVE  Has(C, b, z)
<1> DEFINE translations == PartOf[b]
           t == PartOf[translations]
           n == Section(b)
<1>1. /\ translations \in AllTables \cap DOMAIN PartOf /\ t \in AllTables
      /\ b \in AllTables \cap DOMAIN PartOf
  BY BlockTablesAre, TablesAre
<1>2. PICK y \in DOMAIN file[translations] : z \in Under(b, translations, y)
  BY <1>1, AnOwner
<1>3. PICK x \in DOMAIN file[t] : y \in Under(translations, t, x)
  BY <1>1, AnOwner
<1>4. x \in Nat /\ y \in Nat
  BY <1>1, NatRows
<1>5. Texted(x, y, b)
  BY <1>2, <1>3 DEF Texted
<1> DEFINE p == Paste(x, y, b)
<1>6. p \in Blocks(n, translations, b, x, y)
  BY <1>2 DEF Blocks, Paste
<1>7. p \in Texts(n, t, translations, b, aliases)
  BY <1>3, <1>6 DEF Texts
<1>8. z \in DOMAIN p[2].rows
  BY <1>2 DEF Paste, Command, Only, Under
<1>9. UpsertUnder(n, 1, translations, t, {}) \subseteq C
  BY DEF Texts
<1>10. Orderly(C, p, b)
  BY <1>4, <1>5, <1>9, PasteOrderly DEF Pastes
<1> QED
  BY <1>7, <1>8, <1>10 DEF Has, Orderly

-----------------------------------------------------------------------------
(* Menus: an item is moved when it and its menu's other items are there. *)
Moves(p) ==
  \E x \in DOMAIN file["menus"] : \E y \in Under("menu_items", "menus", x) :
    p = UpdateAt(<<24, x, 2, y, 0>>, "menu_items", y, "parent")

LEMMA MenuItemsMade ==
  ASSUME RowsFit(file), Menus \subseteq SeedJsonData,
         NEW x \in DOMAIN file["menus"], NEW y \in Under("menu_items", "menus", x)
  PROVE  \E s \in SeedJsonData : /\ Makes(s, "menu_items") /\ DOMAIN s[2].rows = {y}
                                 /\ s[1] = <<24, x, 1, y, 0>>
<1> DEFINE s == UpsertAt(<<24, x, 1, y, 0>>, "menu_items", y, {}, {"parent"})
<1>1. s \in UpsertUnder(24, 1, "menu_items", "menus", {"parent"})
  BY DEF UpsertUnder
<1>2. s \in SeedJsonData
  BY <1>1 DEF Menus
<1>3. DOMAIN s[2].rows = {y} /\ s[1] = <<24, x, 1, y, 0>>
  BY DEF UpsertAt, Command, Single
<1> HIDE DEF s
<1>4. /\ "menu_items" \in AllTables /\ "menus" \in AllTables
      /\ Section("menu_items") = 24 /\ {"parent"} = Later("menu_items")
  BY TablesAre DEF SeedTables, Section, Later, InTwoPasses
<1>5. Makes(s, "menu_items")
  BY <1>1, <1>4, UpsertsUnderMake
<1> QED
  BY <1>2, <1>3, <1>5

LEMMA MovesUpdate ==
  ASSUME RowsFit(file), Menus \subseteq SeedJsonData, NEW p, Moves(p)
  PROVE  /\ Updates(p, "menu_items")
         /\ \A y \in DOMAIN p[2].rows : MadeFirst(SeedJsonData, p, "menu_items", y)
<1>1. PICK x \in DOMAIN file["menus"] : \E y \in Under("menu_items", "menus", x) :
        p = UpdateAt(<<24, x, 2, y, 0>>, "menu_items", y, "parent")
  BY DEF Moves
<1>2. PICK y \in Under("menu_items", "menus", x) :
        p = UpdateAt(<<24, x, 2, y, 0>>, "menu_items", y, "parent")
  BY <1>1
<1>3. "menu_items" \in AllTables /\ "menus" \in AllTables /\ Later("menu_items") = {"parent"}
  BY TablesAre DEF SeedTables, Later, InTwoPasses
<1>4. x \in Nat /\ y \in Nat /\ y \in DOMAIN file["menu_items"]
  BY <1>3, NatRows DEF Under
<1>5. <<24, x, 2, y, 0>> \in Place
  BY <1>4 DEF Place
<1>6. Updates(p, "menu_items")
  BY <1>2, <1>3, <1>4, <1>5 DEF UpdateAt, Updates, Command, Single
<1>7. PICK s \in SeedJsonData : /\ Makes(s, "menu_items") /\ DOMAIN s[2].rows = {y}
                                /\ s[1] = <<24, x, 1, y, 0>>
  BY MenuItemsMade
<1>8. p[1] = <<24, x, 2, y, 0>> /\ DOMAIN p[2].rows = {y}
  BY <1>2 DEF UpdateAt, Command, Single
<1>9. Before(s[1], p[1])
  BY <1>4, <1>7, <1>8 DEF Before
<1> QED
  BY <1>6, <1>7, <1>8, <1>9 DEF MadeFirst

LEMMA ItemTextsOrderly ==
  ASSUME RowsFit(file), Menus \subseteq SeedJsonData, NEW x \in DOMAIN file["menus"],
         NEW y \in Under("menu_items", "menus", x), NEW p \in ItemTexts(x, y)
  PROVE  Orderly(SeedJsonData, p, "menu_item_translations") /\ p[2].do = "upsert"
<1> DEFINE t == "menu_item_translations"
<1>1. PICK z \in Under(t, "menu_items", y) : p = UpsertAt(<<24, x, 3, y, z>>, t, z, {}, {})
  BY DEF ItemTexts
<1>2. /\ t \in AllTables /\ "menu_items" \in AllTables /\ "menus" \in AllTables
      /\ Later(t) = {} /\ Section(t) = 24 /\ PartOf[t] = "menu_items"
      /\ t # "post_categories"
  BY TablesAre DEF SeedTables, Later, InTwoPasses, Section, PartOf
<1>3. /\ x \in Nat /\ y \in Nat /\ z \in Nat /\ z \in DOMAIN file[t]
      /\ <<"menu_items", y>> \in file[t][z].of
  BY <1>2, NatRows DEF Under
<1>4. <<24, x, 3, y, z>> \in Place
  BY <1>3 DEF Place
<1>5. Makes(p, t)
  BY <1>1, <1>2, <1>3, <1>4 DEF Makes, UpsertAt, Command, Single
<1>6. p[1] = <<24, x, 3, y, z>> /\ DOMAIN p[2].rows = {z} /\ p[2].do = "upsert"
  BY <1>1 DEF UpsertAt, Command, Single
<1>7. PICK s \in SeedJsonData : /\ Makes(s, "menu_items") /\ DOMAIN s[2].rows = {y}
                                /\ s[1] = <<24, x, 1, y, 0>>
  BY MenuItemsMade
<1>8. Before(s[1], p[1])
  BY <1>3, <1>6, <1>7 DEF Before
<1>9. MadeFirst(SeedJsonData, p, "menu_items", y)
  BY <1>7, <1>8 DEF MadeFirst
<1>10. AfterOwner(SeedJsonData, p, t)
  BY <1>2, <1>3, <1>6, <1>9 DEF AfterOwner
<1> QED
  BY <1>2, <1>5, <1>6, <1>10 DEF Orderly

LEMMA MenusOrderly ==
  ASSUME RowsFit(file), Menus \subseteq SeedJsonData, NEW p \in Menus
  PROVE  \/ \E t \in {"menus", "menu_items", "menu_item_translations"} :
              Orderly(SeedJsonData, p, t) /\ p[2].do = "upsert"
         \/ Moves(p)
<1>1. /\ "menus" \in AllTables \ Nested /\ Section("menus") = 24 /\ Later("menus") = {}
      /\ "menu_items" \in AllTables \cap DOMAIN PartOf /\ Section("menu_items") = 24
      /\ {"parent"} = Later("menu_items") /\ PartOf["menu_items"] = "menus"
  BY TablesAre DEF SeedTables, Nested, Section, Later, InTwoPasses, PartOf
<1>2. CASE p \in Upsert(24, "menus", {}, {})
  <2>1. Orderly(SeedJsonData, p, "menus")
    BY <1>1, <1>2, UpsertsOrderly
  <2> QED
    BY <2>1, <1>2 DEF Upsert, UpsertAt, Command
<1>3. CASE p \in UpsertUnder(24, 1, "menu_items", "menus", {"parent"})
  <2>1. Upsert(24, "menus", {}, {}) \subseteq SeedJsonData
    BY DEF Menus
  <2>2. OneByOne(SeedJsonData, 24, "menus")
    BY <1>1, <2>1, UpsertsAll
  <2>3. Orderly(SeedJsonData, p, "menu_items")
    BY <1>1, <1>3, <2>2, UnderOrderly
  <2> QED
    BY <2>3, <1>3 DEF UpsertUnder, UpsertAt, Command
<1>4. CASE \E x \in DOMAIN file["menus"] : p \in Items(x)
  <2>1. PICK x \in DOMAIN file["menus"] : p \in Items(x)
    BY <1>4
  <2>2. CASE \E y \in Under("menu_items", "menus", x) :
                p = UpdateAt(<<24, x, 2, y, 0>>, "menu_items", y, "parent")
    BY <2>2 DEF Moves
  <2>3. CASE \E y \in Under("menu_items", "menus", x) : p \in ItemTexts(x, y)
    BY <2>3, ItemTextsOrderly
  <2> QED
    BY <2>1, <2>2, <2>3 DEF Items
<1> QED
  BY <1>2, <1>3, <1>4 DEF Menus

-----------------------------------------------------------------------------
(* seed-json-data.ts: the kinds of its commands *)
Grants(p) ==
  /\ p \in {Wipe(2, 1, "user_permissions"), Wipe(2, 2, "role_permissions"), Wipe(2, 3, "permissions")}
  /\ DOMAIN file["permissions"] # {}
MakesPermission(p) ==
  \E x \in DOMAIN file["permissions"] :
    p =
            << <<3, x, 0, 0, 0>>, Command("create", "permissions", Single(x, file["permissions"][x]), {})>>

UpdateTables == {"media_folders", "pages", "users", "menu_items"}

(* The tables whose rows are put beside those that are there. *)
Plain == SeedTables \ (BlockTables \cup {"permissions"})

SeedKind(p) ==
  \/ Grants(p)
  \/ MakesPermission(p) /\ Orderly(SeedJsonData, p, "permissions")
  \/ \E b \in BlockTables : Cuts(p, b) \/ (Pastes(p, b) /\ Orderly(SeedJsonData, p, b))
  \/ \E t \in Plain : /\ Orderly(SeedJsonData, p, t)
                     /\ \/ p[2].do \in {"upsert", "fill"}
                        \/ p[2].do = "connect" /\ t = "_PostPages"
  \/ \E t \in UpdateTables : Updates(p, t) /\ (t = "menu_items" => Moves(p))
  \/ p \in ResetSequences

LEMMA UpsertsKind ==
  ASSUME RowsFit(file), NEW t \in Plain \ Nested, NEW n \in Nat, n = Section(t),
         NEW columns, columns \in {{}, {"in"}}, columns \cap Later(t) = {}, NEW later, later = Later(t),
         NEW p \in Upsert(n, t, columns, later)
  PROVE  SeedKind(p)
<1>1. t \in AllTables \ Nested
  BY TablesAre DEF Plain
<1>2. Orderly(SeedJsonData, p, t)
  BY <1>1, UpsertsOrderly
<1>3. p[2].do = "upsert"
  BY DEF Upsert, UpsertAt, Command
<1> QED
  BY <1>2, <1>3 DEF SeedKind

LEMMA FillKind ==
  ASSUME RowsFit(file), NEW t \in Plain \ Nested, NEW n \in Nat, n = Section(t), Later(t) = {},
         t # "post_categories", NEW ids, NEW p \in Fill(n, t, ids)
  PROVE  SeedKind(p)
<1>1. t \in AllTables \ Nested
  BY TablesAre DEF Plain
<1>2. Orderly(SeedJsonData, p, t)
  BY <1>1, FillOrderly
<1>3. p[2].do = "fill"
  BY DEF Fill, Command
<1> QED
  BY <1>2, <1>3 DEF SeedKind

LEMMA UnderKind ==
  ASSUME RowsFit(file), NEW t \in Plain \cap DOMAIN PartOf, NEW n \in Nat, n = Section(t),
         NEW owner, owner = PartOf[t], owner \in Plain, NEW k \in Nat \ {0},
         NEW later, later = Later(t), OneByOne(SeedJsonData, n, owner),
         NEW p \in UpsertUnder(n, k, t, owner, later)
  PROVE  SeedKind(p)
<1>1. t \in AllTables /\ PartOf[t] \in AllTables
  BY TablesAre DEF Plain
<1>2. Orderly(SeedJsonData, p, t)
  BY <1>1, UnderOrderly
<1>3. p[2].do = "upsert"
  BY DEF UpsertUnder, UpsertAt, Command
<1> QED
  BY <1>2, <1>3 DEF SeedKind

LEMMA SecondPassKind ==
  ASSUME RowsFit(file), NEW t, NEW n, NEW column,
         <<n, t, column>> \in {<<13, "media_folders", "parent">>, <<15, "users", "in">>,
                               <<17, "pages", "parent">>},
         NEW p \in SecondPass(n, t, column)
  PROVE  SeedKind(p)
<1>1. Updates(p, t)
  BY SecondPassUpdates
<1> QED
  BY <1>1 DEF SeedKind, UpdateTables

LEMMA SectionsOfSeed ==
  /\ \A S \in {Languages, Permissions, Roles, RolePermissions, RoleManagement, Users, UserRoles,
               UserPermissions, BlockTypes, PageTemplates, MediaFolders, Media, Avatars, Pages,
               PageTexts, PostCategories, Posts, PostTexts, PostCategoryPosts, PostPages, Menus,
               Versions, Settings, Logs, ResetSequences} : S \subseteq SeedJsonData
  /\ \A p \in SeedJsonData :
       \E S \in {Languages, Permissions, Roles, RolePermissions, RoleManagement, Users, UserRoles,
                 UserPermissions, BlockTypes, PageTemplates, MediaFolders, Media, Avatars, Pages,
                 PageTexts, PostCategories, Posts, PostTexts, PostCategoryPosts, PostPages, Menus,
                 Versions, Settings, Logs, ResetSequences} : p \in S
BY DEF SeedJsonData

LEMMA FirstKinds ==
  ASSUME RowsFit(file)
  PROVE  /\ \A p \in Languages : SeedKind(p)
         /\ \A p \in Roles : SeedKind(p)
         /\ \A p \in RolePermissions : SeedKind(p)
         /\ \A p \in RoleManagement : SeedKind(p)
         /\ \A p \in Users : SeedKind(p)
         /\ \A p \in UserRoles : SeedKind(p)
         /\ \A p \in UserPermissions : SeedKind(p)
         /\ \A p \in BlockTypes : SeedKind(p)
<1>1. /\ {"languages", "roles", "role_permissions", "role_management", "users", "user_roles",
          "user_permissions", "block_type_definitions"} \subseteq Plain \ Nested
      /\ "post_categories" \notin {"role_permissions", "user_permissions"}
  BY DEF SeedTables, Plain, BlockTables, Nested
<1>2. /\ Section("languages") = 1 /\ Section("roles") = 4 /\ Section("role_permissions") = 5
      /\ Section("role_management") = 6 /\ Section("users") = 7 /\ Section("user_roles") = 8
      /\ Section("user_permissions") = 9 /\ Section("block_type_definitions") = 10
  BY DEF Section
<1>3. /\ {} = Later("languages") /\ {} = Later("roles") /\ {} = Later("role_permissions")
      /\ {} = Later("role_management") /\ {"in"} = Later("users") /\ {} = Later("user_roles")
      /\ {} = Later("user_permissions") /\ {} = Later("block_type_definitions")
  BY DEF Later, InTwoPasses
<1>4. \A t : {} \cap Later(t) = {}
  OBVIOUS
<1>5. \A p \in Languages : SeedKind(p)
  BY <1>1, <1>2, <1>3, <1>4, UpsertsKind DEF Languages
<1>6. \A p \in Roles : SeedKind(p)
  BY <1>1, <1>2, <1>3, <1>4, UpsertsKind DEF Roles
<1>7. \A p \in RolePermissions : SeedKind(p)
  BY <1>1, <1>2, <1>3, FillKind DEF RolePermissions
<1>8. \A p \in RoleManagement : SeedKind(p)
  BY <1>1, <1>2, <1>3, <1>4, UpsertsKind DEF RoleManagement
<1>9. \A p \in Users : SeedKind(p)
  BY <1>1, <1>2, <1>3, <1>4, UpsertsKind DEF Users
<1>10. \A p \in UserRoles : SeedKind(p)
  BY <1>1, <1>2, <1>3, <1>4, UpsertsKind DEF UserRoles
<1>11. \A p \in UserPermissions : SeedKind(p)
  BY <1>1, <1>2, <1>3, FillKind DEF UserPermissions, FillAll
<1>12. \A p \in BlockTypes : SeedKind(p)
  BY <1>1, <1>2, <1>3, <1>4, UpsertsKind DEF BlockTypes
<1> QED
  BY <1>5, <1>6, <1>7, <1>8, <1>9, <1>10, <1>11, <1>12

LEMMA PageKinds ==
  ASSUME RowsFit(file)
  PROVE  /\ \A p \in PageTemplates : SeedKind(p)
         /\ \A p \in MediaFolders : SeedKind(p)
         /\ \A p \in Media : SeedKind(p)
         /\ \A p \in Avatars : SeedKind(p)
         /\ \A p \in Pages : SeedKind(p)
<1>1. /\ {"page_templates", "media_folders", "media", "pages"} \subseteq Plain \ Nested
      /\ "page_template_translations" \in Plain \cap DOMAIN PartOf
      /\ "page_templates" = PartOf["page_template_translations"]
      /\ "page_templates" \in AllTables
  BY TablesAre DEF SeedTables, Plain, BlockTables, Nested, PartOf
<1>2. /\ Section("page_templates") = 11 /\ Section("page_template_translations") = 11
      /\ Section("media_folders") = 12 /\ Section("media") = 14 /\ Section("pages") = 16
  BY DEF Section
<1>3. /\ {} = Later("page_templates") /\ {} = Later("page_template_translations")
      /\ {"parent"} = Later("media_folders") /\ {} = Later("media") /\ {"parent"} = Later("pages")
  BY DEF Later, InTwoPasses
<1>4. /\ \A t : {} \cap Later(t) = {}
      /\ {"in"} \cap Later("page_templates") = {} /\ {"in"} \cap Later("media") = {}
      /\ {"in"} \cap Later("pages") = {}
  BY <1>3
<1>5. \A p \in PageTemplates : SeedKind(p)
  <2>1. \A p \in Upsert(11, "page_templates", {"in"}, {}) : SeedKind(p)
    BY <1>1, <1>2, <1>3, <1>4, UpsertsKind
  <2>2. Upsert(11, "page_templates", {"in"}, {}) \subseteq SeedJsonData
    BY SectionsOfSeed DEF PageTemplates
  <2>3. OneByOne(SeedJsonData, 11, "page_templates")
    BY <1>1, <1>2, <1>3, <1>4, <2>2, UpsertsAll
  <2>4. \A p \in UpsertUnder(11, 1, "page_template_translations", "page_templates", {}) : SeedKind(p)
    BY <1>1, <1>2, <1>3, <2>3, UnderKind
  <2> QED
    BY <2>1, <2>4 DEF PageTemplates
<1>6. \A p \in MediaFolders : SeedKind(p)
  <2>1. \A p \in Upsert(12, "media_folders", {}, {"parent"}) : SeedKind(p)
    BY <1>1, <1>2, <1>3, <1>4, UpsertsKind
  <2>2. \A p \in SecondPass(13, "media_folders", "parent") : SeedKind(p)
    BY SecondPassKind
  <2> QED
    BY <2>1, <2>2 DEF MediaFolders
<1>7. \A p \in Media : SeedKind(p)
  BY <1>1, <1>2, <1>3, <1>4, UpsertsKind DEF Media
<1>8. \A p \in Avatars : SeedKind(p)
  BY SecondPassKind DEF Avatars
<1>9. \A p \in Pages : SeedKind(p)
  <2>1. \A p \in Upsert(16, "pages", {"in"}, {"parent"}) : SeedKind(p)
    BY <1>1, <1>2, <1>3, <1>4, UpsertsKind
  <2>2. \A p \in SecondPass(17, "pages", "parent") : SeedKind(p)
    BY SecondPassKind
  <2> QED
    BY <2>1, <2>2 DEF Pages
<1> QED
  BY <1>5, <1>6, <1>7, <1>8, <1>9

(* The texts of pages and those of posts are written alike. *)
LEMMA TextTables ==
  /\ Section("page_content_blocks") = 18 /\ Section("post_content_blocks") = 21
  /\ "page_content_blocks" \in BlockTables /\ "post_content_blocks" \in BlockTables
  /\ PartOf["page_content_blocks"] = "page_translations" /\ PartOf["page_translations"] = "pages"
  /\ PartOf["post_content_blocks"] = "post_translations" /\ PartOf["post_translations"] = "posts"
BY DEF Section, BlockTables, PartOf

LEMMA TextKinds ==
  ASSUME RowsFit(file), NEW b \in BlockTables, NEW aliases,
         <<b, aliases>> \in {<<"page_content_blocks", "page_slug_aliases">>,
                             <<"post_content_blocks", "post_slug_aliases">>},
         Texts(Section(b), PartOf[PartOf[b]], PartOf[b], b, aliases) \subseteq SeedJsonData,
         NEW p \in Texts(Section(b), PartOf[PartOf[b]], PartOf[b], b, aliases)
  PROVE  SeedKind(p)
<1>1. PartOf[b] \in Plain /\ aliases \in Plain
  BY BlockTablesAre DEF SeedTables, Plain, BlockTables, PartOf
<1>2. \/ Orderly(SeedJsonData, p, PartOf[b]) /\ p[2].do = "upsert"
      \/ Orderly(SeedJsonData, p, aliases) /\ p[2].do = "upsert"
      \/ Cuts(p, b)
      \/ Pastes(p, b) /\ Orderly(SeedJsonData, p, b)
  BY TextsOrderly
<1> QED
  BY <1>1, <1>2 DEF SeedKind

LEMMA PostKinds ==
  ASSUME RowsFit(file)
  PROVE  /\ \A p \in PageTexts : SeedKind(p)
         /\ \A p \in PostCategories : SeedKind(p)
         /\ \A p \in Posts : SeedKind(p)
         /\ \A p \in PostTexts : SeedKind(p)
         /\ \A p \in PostCategoryPosts : SeedKind(p)
         /\ \A p \in PostPages : SeedKind(p)
<1>1. /\ {"post_categories", "posts", "post_category_posts", "_PostPages"} \subseteq Plain \ Nested
      /\ "post_category_translations" \in Plain \cap DOMAIN PartOf
      /\ "post_categories" = PartOf["post_category_translations"]
      /\ "post_categories" \in AllTables /\ "_PostPages" \in AllTables
      /\ "post_categories" # "post_category_posts"
  BY TablesAre DEF SeedTables, Plain, BlockTables, Nested, PartOf
<1>2. /\ Section("post_categories") = 19 /\ Section("post_category_translations") = 19
      /\ Section("posts") = 20 /\ Section("post_category_posts") = 22 /\ Section("_PostPages") = 23
  BY DEF Section
<1>3. /\ {} = Later("post_categories") /\ {} = Later("post_category_translations")
      /\ {} = Later("posts") /\ {} = Later("post_category_posts") /\ {} = Later("_PostPages")
  BY DEF Later, InTwoPasses
<1>4. \A t : {} \cap Later(t) = {}
  OBVIOUS
<1>5. \A p \in PageTexts : SeedKind(p)
  <2>1. PageTexts = Texts(Section("page_content_blocks"), PartOf[PartOf["page_content_blocks"]],
                          PartOf["page_content_blocks"], "page_content_blocks", "page_slug_aliases")
    BY TextTables DEF PageTexts
  <2>2. PageTexts \subseteq SeedJsonData
    BY SectionsOfSeed
  <2> QED
    BY <2>1, <2>2, TextTables, TextKinds
<1>6. \A p \in PostCategories : SeedKind(p)
  <2>1. \A p \in Upsert(19, "post_categories", {}, {}) : SeedKind(p)
    BY <1>1, <1>2, <1>3, <1>4, UpsertsKind
  <2>2. Upsert(19, "post_categories", {}, {}) \subseteq SeedJsonData
    BY SectionsOfSeed DEF PostCategories
  <2>3. OneByOne(SeedJsonData, 19, "post_categories")
    BY <1>1, <1>2, <1>3, <1>4, <2>2, UpsertsAll
  <2>4. \A p \in UpsertUnder(19, 1, "post_category_translations", "post_categories", {}) : SeedKind(p)
    BY <1>1, <1>2, <1>3, <2>3, UnderKind
  <2> QED
    BY <2>1, <2>4 DEF PostCategories
<1>7. \A p \in Posts : SeedKind(p)
  <2>1. {"in"} \cap Later("posts") = {}
    BY <1>3
  <2> QED
    BY <1>1, <1>2, <1>3, <2>1, UpsertsKind DEF Posts
<1>8. \A p \in PostTexts : SeedKind(p)
  <2>1. PostTexts = Texts(Section("post_content_blocks"), PartOf[PartOf["post_content_blocks"]],
                          PartOf["post_content_blocks"], "post_content_blocks", "post_slug_aliases")
    BY TextTables DEF PostTexts
  <2>2. PostTexts \subseteq SeedJsonData
    BY SectionsOfSeed
  <2> QED
    BY <2>1, <2>2, TextTables, TextKinds
<1>9. \A p \in PostCategoryPosts : SeedKind(p)
  BY <1>1, <1>2, <1>3, FillKind DEF PostCategoryPosts, FillAll
<1>10. \A p \in PostPages : SeedKind(p)
  <2> SUFFICES ASSUME NEW x \in DOMAIN file["_PostPages"], NEW p,
                      p = << <<23, x, 0, 0, 0>>, Command("connect", "_PostPages",
                                                         Single(x, file["_PostPages"][x]), {})>>
               PROVE  SeedKind(p)
    BY DEF PostPages
  <2>1. x \in Nat /\ Without(file["_PostPages"][x], {}) = file["_PostPages"][x]
    BY <1>1, NatRows, WithoutRow
  <2>2. <<23, x, 0, 0, 0>> \in Place
    BY <2>1 DEF Place
  <2>3. Makes(p, "_PostPages")
    BY <1>2, <1>3, <2>1, <2>2 DEF Makes, Command, Single
  <2>4. p[2].do = "connect"
    BY DEF Command
  <2>5. "_PostPages" \notin Nested /\ "_PostPages" # "post_categories"
    BY <1>1
  <2>6. Orderly(SeedJsonData, p, "_PostPages")
    BY <2>3, <2>5 DEF Orderly
  <2> QED
    BY <1>1, <2>4, <2>6 DEF SeedKind
<1> QED
  BY <1>5, <1>6, <1>7, <1>8, <1>9, <1>10

LEMMA LastKinds ==
  ASSUME RowsFit(file)
  PROVE  /\ \A p \in Menus : SeedKind(p)
         /\ \A p \in Versions : SeedKind(p)
         /\ \A p \in Settings : SeedKind(p)
         /\ \A p \in Logs : SeedKind(p)
         /\ \A p \in ResetSequences : SeedKind(p)
         /\ \A p \in Permissions : SeedKind(p)
<1>1. /\ {"page_versions", "post_versions", "settings", "audit_logs", "activity_logs"}
            \subseteq Plain \ Nested
      /\ {"setting_global_contents", "setting_localized_contents"} \subseteq Plain \cap DOMAIN PartOf
      /\ "settings" = PartOf["setting_global_contents"]
      /\ "settings" = PartOf["setting_localized_contents"]
      /\ "settings" \in AllTables /\ "permissions" \in AllTables
      /\ "post_categories" \notin {"audit_logs", "activity_logs"}
  BY TablesAre DEF SeedTables, Plain, BlockTables, Nested, PartOf
<1>2. /\ Section("page_versions") = 25 /\ Section("post_versions") = 26 /\ Section("settings") = 27
      /\ Section("setting_global_contents") = 27 /\ Section("setting_localized_contents") = 27
      /\ Section("audit_logs") = 28 /\ Section("activity_logs") = 29 /\ Section("permissions") = 3
  BY DEF Section
<1>3. /\ {} = Later("page_versions") /\ {} = Later("post_versions") /\ {} = Later("settings")
      /\ {} = Later("setting_global_contents") /\ {} = Later("setting_localized_contents")
      /\ {} = Later("audit_logs") /\ {} = Later("activity_logs") /\ {} = Later("permissions")
  BY DEF Later, InTwoPasses
<1>4. \A t : {} \cap Later(t) = {}
  OBVIOUS
<1>5. \A p \in Menus : SeedKind(p)
  <2>1. Menus \subseteq SeedJsonData
    BY SectionsOfSeed
  <2>2. /\ {"menus", "menu_items", "menu_item_translations"} \subseteq Plain
        /\ "menu_items" \in UpdateTables
    BY DEF SeedTables, Plain, BlockTables, UpdateTables
  <2>3. \A p : Moves(p) => Updates(p, "menu_items")
    BY <2>1, MovesUpdate
  <2> QED
    BY <2>1, <2>2, <2>3, MenusOrderly DEF SeedKind
<1>6. \A p \in Versions : SeedKind(p)
  <2>1. \A p \in Upsert(25, "page_versions", {}, {}) : SeedKind(p)
    BY <1>1, <1>2, <1>3, <1>4, UpsertsKind
  <2>2. \A p \in Upsert(26, "post_versions", {}, {}) : SeedKind(p)
    BY <1>1, <1>2, <1>3, <1>4, UpsertsKind
  <2> QED
    BY <2>1, <2>2 DEF Versions
<1>7. \A p \in Settings : SeedKind(p)
  <2>1. \A p \in Upsert(27, "settings", {}, {}) : SeedKind(p)
    BY <1>1, <1>2, <1>3, <1>4, UpsertsKind
  <2>2. Upsert(27, "settings", {}, {}) \subseteq SeedJsonData
    BY SectionsOfSeed DEF Settings
  <2>3. OneByOne(SeedJsonData, 27, "settings")
    BY <1>1, <1>2, <1>3, <1>4, <2>2, UpsertsAll
  <2>4. \A p \in UpsertUnder(27, 1, "setting_global_contents", "settings", {}) : SeedKind(p)
    BY <1>1, <1>2, <1>3, <2>3, UnderKind
  <2>5. \A p \in UpsertUnder(27, 2, "setting_localized_contents", "settings", {}) : SeedKind(p)
    BY <1>1, <1>2, <1>3, <2>3, UnderKind
  <2> QED
    BY <2>1, <2>4, <2>5 DEF Settings
<1>8. \A p \in Logs : SeedKind(p)
  <2>1. \A p \in FillAll(28, "audit_logs") : SeedKind(p)
    BY <1>1, <1>2, <1>3, FillKind DEF FillAll
  <2>2. \A p \in FillAll(29, "activity_logs") : SeedKind(p)
    BY <1>1, <1>2, <1>3, FillKind DEF FillAll
  <2> QED
    BY <2>1, <2>2 DEF Logs
<1>9. \A p \in ResetSequences : SeedKind(p)
  BY DEF SeedKind
<1>10. \A p \in Permissions : SeedKind(p)
  <2> SUFFICES ASSUME NEW p \in Permissions PROVE SeedKind(p)
    OBVIOUS
  <2>1. CASE Grants(p)
    BY <2>1 DEF SeedKind
  <2>2. CASE \E x \in DOMAIN file["permissions"] :
               p =
                       << <<3, x, 0, 0, 0>>, Command("create", "permissions", Single(x, file["permissions"][x]), {})>>
    <3>1. PICK x \in DOMAIN file["permissions"] :
               p =
                       << <<3, x, 0, 0, 0>>, Command("create", "permissions", Single(x, file["permissions"][x]), {})>>
      BY <2>2
    <3>2. x \in Nat /\ Without(file["permissions"][x], {}) = file["permissions"][x]
      BY <1>1, NatRows, WithoutRow
    <3>3. <<3, x, 0, 0, 0>> \in Place
      BY <3>2 DEF Place
    <3>4. Makes(p, "permissions")
      BY <1>2, <1>3, <3>1, <3>2, <3>3 DEF Makes, Command, Single
    <3>5. Orderly(SeedJsonData, p, "permissions")
      BY <3>4 DEF Orderly, Nested
    <3> QED
      BY <2>2, <3>5 DEF SeedKind, MakesPermission
  <2> QED
    BY <2>1, <2>2 DEF Permissions, Grants
<1> QED
  BY <1>5, <1>6, <1>7, <1>8, <1>9, <1>10

LEMMA SeedKinds ==
  ASSUME RowsFit(file), NEW p \in SeedJsonData
  PROVE  SeedKind(p)
BY SectionsOfSeed, FirstKinds, PageKinds, PostKinds, LastKinds

-----------------------------------------------------------------------------
(* The chat scripts make rows, and all of them with upsert. *)
ChatKind(C, tables, p) == \E t \in tables : Orderly(C, p, t) /\ p[2].do = "upsert"

LEMMA ChatTablesAre ==
  /\ (ChatTexts \cup ChatRows) \ {"chat_messages", "operator_messages"} \subseteq AllTables \ Nested
  /\ {"chat_messages", "operator_messages"} \subseteq AllTables \cap DOMAIN PartOf
  /\ "chat_sessions" = PartOf["chat_messages"] /\ "operator_threads" = PartOf["operator_messages"]
  /\ \A t \in ChatTexts \cup ChatRows : {} = Later(t)
  /\ \A t : {} \cap Later(t) = {}
  /\ \A t \in ChatTexts \cup ChatRows : {"in"} \cap Later(t) = {}
  /\ "post_categories" \notin ChatTexts \cup ChatRows
<1>1. /\ (ChatTexts \cup ChatRows) \ {"chat_messages", "operator_messages"} \subseteq AllTables \ Nested
      /\ {"chat_messages", "operator_messages"} \subseteq AllTables \cap DOMAIN PartOf
  BY TablesAre DEF Nested, ChatTexts, ChatRows, PartOf
<1>2. "chat_sessions" = PartOf["chat_messages"] /\ "operator_threads" = PartOf["operator_messages"]
  BY DEF PartOf
<1>3. \A t \in ChatTexts \cup ChatRows : {} = Later(t)
  BY DEF ChatTexts, ChatRows, Later, InTwoPasses
<1>4. "post_categories" \notin ChatTexts \cup ChatRows
  BY DEF ChatTexts, ChatRows
<1> QED
  BY <1>1, <1>2, <1>3, <1>4

LEMMA ChatSections ==
  /\ Section("canned_response_categories") = 1 /\ Section("canned_responses") = 2
  /\ Section("canned_response_translations") = 3 /\ Section("chat_programs") = 4
  /\ Section("chat_regions") = 5 /\ Section("chat_config") = 6
  /\ Section("notifications") = 1 /\ Section("user_notification_states") = 2
  /\ Section("chat_sessions") = 3 /\ Section("chat_messages") = 3
  /\ Section("operator_threads") = 4 /\ Section("operator_messages") = 4
BY DEF Section

LEMMA ChatUpserts ==
  ASSUME RowsFit(file), NEW tables, tables \in {ChatTexts, ChatRows}, NEW t \in tables,
         t \notin {"chat_messages", "operator_messages"}, NEW n \in Nat, n = Section(t),
         NEW columns, columns \in {{}, {"in"}}, NEW C, NEW p \in Upsert(n, t, columns, {})
  PROVE  ChatKind(C, tables, p)
<1>1. t \in AllTables \ Nested /\ {} = Later(t) /\ columns \cap Later(t) = {}
  BY ChatTablesAre
<1>2. Orderly(C, p, t)
  BY <1>1, UpsertsOrderly
<1>3. p[2].do = "upsert"
  BY DEF Upsert, UpsertAt, Command
<1> QED
  BY <1>2, <1>3 DEF ChatKind

LEMMA ChatTextKinds ==
  ASSUME RowsFit(file), NEW p \in SeedChatData
  PROVE  ChatKind(SeedChatData, ChatTexts, p)
<1>1. /\ {"canned_response_categories", "canned_responses", "canned_response_translations",
          "chat_programs", "chat_regions", "chat_config"} \subseteq ChatTexts
  BY DEF ChatTexts
<1>2. \/ p \in Upsert(1, "canned_response_categories", {}, {})
      \/ p \in Upsert(2, "canned_responses", {"in"}, {})
      \/ p \in Upsert(3, "canned_response_translations", {}, {})
      \/ p \in Upsert(4, "chat_programs", {}, {})
      \/ p \in Upsert(5, "chat_regions", {}, {})
      \/ p \in Upsert(6, "chat_config", {}, {})
  BY DEF SeedChatData, CannedTexts, Taxonomy
<1> QED
  BY <1>1, <1>2, ChatSections, ChatUpserts

LEMMA ChatUnder ==
  ASSUME RowsFit(file), NEW t \in {"chat_messages", "operator_messages"}, NEW n \in Nat,
         n = Section(t), NEW owner, owner = PartOf[t], NEW C, OneByOne(C, n, owner),
         NEW p \in UpsertUnder(n, 1, t, owner, {})
  PROVE  ChatKind(C, ChatRows, p)
<1>1. /\ t \in AllTables \cap DOMAIN PartOf /\ owner \in AllTables /\ {} = Later(t)
      /\ t \in ChatRows
  BY ChatTablesAre DEF ChatRows
<1>2. Orderly(C, p, t)
  BY <1>1, UnderOrderly
<1>3. p[2].do = "upsert"
  BY DEF UpsertUnder, UpsertAt, Command
<1> QED
  BY <1>1, <1>2, <1>3 DEF ChatKind

LEMMA ChatOneByOne ==
  ASSUME RowsFit(file)
  PROVE  /\ OneByOne(SeedChatDevData, 3, "chat_sessions")
         /\ OneByOne(SeedChatDevData, 4, "operator_threads")
<1>1. /\ Upsert(3, "chat_sessions", {"in"}, {}) \subseteq SeedChatDevData
      /\ Upsert(4, "operator_threads", {}, {}) \subseteq SeedChatDevData
  BY DEF SeedChatDevData, ChatSessions, OperatorThreads
<1>2. /\ {"chat_sessions", "operator_threads"} \subseteq AllTables
      /\ {} = Later("chat_sessions") /\ {} = Later("operator_threads")
      /\ {} \cap Later("operator_threads") = {} /\ {"in"} \cap Later("chat_sessions") = {}
  BY ChatTablesAre DEF ChatRows
<1> QED
  BY <1>1, <1>2, ChatSections, UpsertsAll

LEMMA ChatRowKinds ==
  ASSUME RowsFit(file), NEW p \in SeedChatDevData
  PROVE  ChatKind(SeedChatDevData, ChatRows, p)
<1>1. {"notifications", "user_notification_states", "chat_sessions", "operator_threads"} \subseteq ChatRows
  BY DEF ChatRows
<1>2. CASE \/ p \in Upsert(1, "notifications", {"in"}, {})
           \/ p \in Upsert(2, "user_notification_states", {}, {})
           \/ p \in Upsert(3, "chat_sessions", {"in"}, {})
           \/ p \in Upsert(4, "operator_threads", {}, {})
  BY <1>1, <1>2, ChatSections, ChatUpserts
<1>3. CASE p \in UpsertUnder(3, 1, "chat_messages", "chat_sessions", {})
  BY <1>3, ChatSections, ChatTablesAre, ChatOneByOne, ChatUnder
<1>4. CASE p \in UpsertUnder(4, 1, "operator_messages", "operator_threads", {})
  BY <1>4, ChatSections, ChatTablesAre, ChatOneByOne, ChatUnder
<1> QED
  BY <1>2, <1>3, <1>4 DEF SeedChatDevData, Notifications, ChatSessions, OperatorThreads

-----------------------------------------------------------------------------
(* Every row of the file is made by the script that restores its table. *)
LEMMA UpsertsHave ==
  ASSUME RowsFit(file), NEW t \in AllTables, NEW n \in Nat, n = Section(t),
         NEW columns, columns \in {{}, {"in"}}, columns \cap Later(t) = {}, NEW later, later = Later(t),
         NEW C, Upsert(n, t, columns, later) \subseteq C, NEW x \in DOMAIN file[t]
  PROVE  Has(C, t, x)
BY UpsertsAll, OneByOneHas

LEMMA FirstHave ==
  ASSUME RowsFit(file), KeysLead(file),
         NEW t \in {"languages", "roles", "role_permissions", "role_management", "users", "user_roles",
                    "user_permissions", "block_type_definitions", "permissions"},
         NEW x \in DOMAIN file[t]
  PROVE  Has(SeedJsonData, t, x)
<1>1. {"languages", "roles", "role_permissions", "role_management", "users", "user_roles",
       "user_permissions", "block_type_definitions", "permissions"} \subseteq AllTables
  BY TablesAre DEF SeedTables
<1>2. /\ Section("languages") = 1 /\ Section("roles") = 4 /\ Section("role_permissions") = 5
      /\ Section("role_management") = 6 /\ Section("users") = 7 /\ Section("user_roles") = 8
      /\ Section("user_permissions") = 9 /\ Section("block_type_definitions") = 10
  BY DEF Section
<1>3. /\ {} = Later("languages") /\ {} = Later("roles") /\ {} = Later("role_permissions")
      /\ {} = Later("role_management") /\ {"in"} = Later("users") /\ {} = Later("user_roles")
      /\ {} = Later("user_permissions") /\ {} = Later("block_type_definitions")
  BY DEF Later, InTwoPasses
<1>4. \A u : {} \cap Later(u) = {}
  OBVIOUS
<1>5. /\ Upsert(1, "languages", {}, {}) \subseteq SeedJsonData
      /\ Upsert(4, "roles", {}, {}) \subseteq SeedJsonData
      /\ Upsert(6, "role_management", {}, {}) \subseteq SeedJsonData
      /\ Upsert(7, "users", {}, {"in"}) \subseteq SeedJsonData
      /\ Upsert(8, "user_roles", {}, {}) \subseteq SeedJsonData
      /\ Upsert(10, "block_type_definitions", {}, {}) \subseteq SeedJsonData
  BY SectionsOfSeed DEF Languages, Roles, RoleManagement, Users, UserRoles, BlockTypes
<1>6. CASE t \in {"languages", "roles", "role_management", "users", "user_roles", "block_type_definitions"}
  BY <1>1, <1>2, <1>3, <1>4, <1>5, <1>6, UpsertsHave
<1>7. CASE t = "role_permissions"
  <2>1. "role_permissions" \in DOMAIN PartOf /\ PartOf["role_permissions"] = "permissions"
    BY DEF PartOf
  <2>2. PICK y \in DOMAIN file["permissions"] : x \in Under("role_permissions", "permissions", y)
    BY <1>1, <1>7, <2>1, AnOwner
  <2> DEFINE ids == {z \in DOMAIN file["role_permissions"] :
                       \E y2 \in DOMAIN file["permissions"] :
                         <<"permissions", y2>> \in file["role_permissions"][z].of}
  <2>3. x \in ids
    BY <1>7, <2>2 DEF Under
  <2>4. Fill(5, "role_permissions", ids) \subseteq SeedJsonData
    BY SectionsOfSeed DEF RolePermissions
  <2> HIDE DEF ids
  <2> QED
    BY <1>1, <1>2, <1>3, <1>7, <2>3, <2>4, FillHas
<1>8. CASE t = "user_permissions"
  <2>1. Fill(9, "user_permissions", DOMAIN file["user_permissions"]) \subseteq SeedJsonData
    BY SectionsOfSeed DEF UserPermissions, FillAll
  <2> QED
    BY <1>1, <1>2, <1>3, <1>8, <2>1, FillHas
<1>9. CASE t = "permissions"
  <2> DEFINE p ==
          << <<3, x, 0, 0, 0>>, Command("create", "permissions", Single(x, file["permissions"][x]), {})>>
  <2>1. p \in Permissions
    BY <1>9 DEF Permissions
  <2>2. p \in SeedJsonData
    BY <2>1, SectionsOfSeed
  <2>3. MakesPermission(p) /\ p[2].table = "permissions" /\ p[2].do = "create" /\ DOMAIN p[2].rows = {x}
    BY <1>9 DEF MakesPermission, Command, Single
  <2>4. x \in Nat /\ Without(file["permissions"][x], {}) = file["permissions"][x]
    BY <1>1, <1>9, NatRows, WithoutRow
  <2>5. Section("permissions") = 3 /\ Later("permissions") = {}
    BY DEF Section, Later, InTwoPasses
  <2>6. Makes(p, "permissions")
    BY <1>9, <2>4, <2>5 DEF Makes, Command, Single, Place
  <2> QED
    BY <1>9, <2>2, <2>3, <2>6 DEF Has
<1> QED
  BY <1>6, <1>7, <1>8, <1>9

LEMMA PageHave ==
  ASSUME RowsFit(file), KeysLead(file),
         NEW t \in {"page_templates", "page_template_translations", "media_folders", "media", "pages",
                    "page_translations", "page_slug_aliases", "page_content_blocks"},
         NEW x \in DOMAIN file[t]
  PROVE  Has(SeedJsonData, t, x)
<1>1. /\ {"page_templates", "page_template_translations", "media_folders", "media", "pages",
          "page_translations", "page_slug_aliases", "page_content_blocks"} \subseteq AllTables
      /\ {"page_template_translations", "page_translations", "page_slug_aliases"} \subseteq DOMAIN PartOf
      /\ PartOf["page_template_translations"] = "page_templates"
      /\ PartOf["page_translations"] = "pages" /\ PartOf["page_slug_aliases"] = "pages"
  BY TablesAre DEF SeedTables, PartOf
<1>2. /\ Section("page_templates") = 11 /\ Section("page_template_translations") = 11
      /\ Section("media_folders") = 12 /\ Section("media") = 14 /\ Section("pages") = 16
      /\ Section("page_translations") = 18 /\ Section("page_slug_aliases") = 18
  BY DEF Section
<1>3. /\ {} = Later("page_templates") /\ {} = Later("page_template_translations")
      /\ {"parent"} = Later("media_folders") /\ {} = Later("media") /\ {"parent"} = Later("pages")
      /\ {} = Later("page_translations") /\ {} = Later("page_slug_aliases")
  BY DEF Later, InTwoPasses
<1>4. /\ \A u : {} \cap Later(u) = {}
      /\ {"in"} \cap Later("page_templates") = {} /\ {"in"} \cap Later("media") = {}
      /\ {"in"} \cap Later("pages") = {}
  BY <1>3
<1>5. /\ Upsert(11, "page_templates", {"in"}, {}) \subseteq SeedJsonData
      /\ UpsertUnder(11, 1, "page_template_translations", "page_templates", {}) \subseteq SeedJsonData
      /\ Upsert(12, "media_folders", {}, {"parent"}) \subseteq SeedJsonData
      /\ Upsert(14, "media", {"in"}, {}) \subseteq SeedJsonData
      /\ Upsert(16, "pages", {"in"}, {"parent"}) \subseteq SeedJsonData
      /\ UpsertUnder(18, 1, "page_translations", "pages", {}) \subseteq SeedJsonData
      /\ UpsertUnder(18, 2, "page_slug_aliases", "pages", {}) \subseteq SeedJsonData
  BY SectionsOfSeed DEF PageTemplates, MediaFolders, Media, Pages, PageTexts, Texts
<1>6. CASE t \in {"page_templates", "media_folders", "media", "pages"}
  <2>1. CASE t = "page_templates"
    BY <1>1, <1>2, <1>3, <1>4, <1>5, <2>1, UpsertsHave
  <2>2. CASE t = "media_folders"
    BY <1>1, <1>2, <1>3, <1>4, <1>5, <2>2, UpsertsHave
  <2>3. CASE t = "media"
    BY <1>1, <1>2, <1>3, <1>4, <1>5, <2>3, UpsertsHave
  <2>4. CASE t = "pages"
    BY <1>1, <1>2, <1>3, <1>4, <1>5, <2>4, UpsertsHave
  <2> QED
    BY <1>6, <2>1, <2>2, <2>3, <2>4
<1>7. CASE t \in {"page_template_translations", "page_translations", "page_slug_aliases"}
  <2>1. CASE t = "page_template_translations"
    BY <1>1, <1>2, <1>3, <1>4, <1>5, <2>1, UnderHas
  <2>2. CASE t = "page_translations"
    BY <1>1, <1>2, <1>3, <1>4, <1>5, <2>2, UnderHas
  <2>3. CASE t = "page_slug_aliases"
    BY <1>1, <1>2, <1>3, <1>4, <1>5, <2>3, UnderHas
  <2> QED
    BY <1>7, <2>1, <2>2, <2>3
<1>8. CASE t = "page_content_blocks"
  <2>1. PageTexts = Texts(Section("page_content_blocks"), PartOf[PartOf["page_content_blocks"]],
                          PartOf["page_content_blocks"], "page_content_blocks", "page_slug_aliases")
    BY TextTables DEF PageTexts
  <2>2. PageTexts \subseteq SeedJsonData
    BY SectionsOfSeed
  <2> QED
    BY <1>8, <2>1, <2>2, TextTables, BlocksHave
<1> QED
  BY <1>6, <1>7, <1>8

LEMMA PostHave ==
  ASSUME RowsFit(file), KeysLead(file),
         NEW t \in {"post_categories", "post_category_translations", "posts", "post_translations",
                    "post_slug_aliases", "post_content_blocks", "post_category_posts", "_PostPages"},
         NEW x \in DOMAIN file[t]
  PROVE  Has(SeedJsonData, t, x)
<1>1. /\ {"post_categories", "post_category_translations", "posts", "post_translations",
          "post_slug_aliases", "post_content_blocks", "post_category_posts", "_PostPages"}
          \subseteq AllTables
      /\ {"post_category_translations", "post_translations", "post_slug_aliases"} \subseteq DOMAIN PartOf
      /\ PartOf["post_category_translations"] = "post_categories"
      /\ PartOf["post_translations"] = "posts" /\ PartOf["post_slug_aliases"] = "posts"
  BY TablesAre DEF SeedTables, PartOf
<1>2. /\ Section("post_categories") = 19 /\ Section("post_category_translations") = 19
      /\ Section("posts") = 20 /\ Section("post_translations") = 21
      /\ Section("post_slug_aliases") = 21 /\ Section("post_category_posts") = 22
      /\ Section("_PostPages") = 23
  BY DEF Section
<1>3. /\ {} = Later("post_categories") /\ {} = Later("post_category_translations")
      /\ {} = Later("posts") /\ {} = Later("post_translations") /\ {} = Later("post_slug_aliases")
      /\ {} = Later("post_category_posts") /\ {} = Later("_PostPages")
  BY DEF Later, InTwoPasses
<1>4. (\A u : {} \cap Later(u) = {}) /\ {"in"} \cap Later("posts") = {}
  BY <1>3
<1>5. /\ Upsert(19, "post_categories", {}, {}) \subseteq SeedJsonData
      /\ UpsertUnder(19, 1, "post_category_translations", "post_categories", {}) \subseteq SeedJsonData
      /\ Upsert(20, "posts", {"in"}, {}) \subseteq SeedJsonData
      /\ UpsertUnder(21, 1, "post_translations", "posts", {}) \subseteq SeedJsonData
      /\ UpsertUnder(21, 2, "post_slug_aliases", "posts", {}) \subseteq SeedJsonData
      /\ Fill(22, "post_category_posts", DOMAIN file["post_category_posts"]) \subseteq SeedJsonData
  BY SectionsOfSeed DEF PostCategories, Posts, PostTexts, Texts, PostCategoryPosts, FillAll
<1>6. CASE t \in {"post_categories", "posts"}
  <2>1. CASE t = "post_categories"
    BY <1>1, <1>2, <1>3, <1>4, <1>5, <2>1, UpsertsHave
  <2>2. CASE t = "posts"
    BY <1>1, <1>2, <1>3, <1>4, <1>5, <2>2, UpsertsHave
  <2> QED
    BY <1>6, <2>1, <2>2
<1>7. CASE t \in {"post_category_translations", "post_translations", "post_slug_aliases"}
  <2>1. CASE t = "post_category_translations"
    BY <1>1, <1>2, <1>3, <1>4, <1>5, <2>1, UnderHas
  <2>2. CASE t = "post_translations"
    BY <1>1, <1>2, <1>3, <1>4, <1>5, <2>2, UnderHas
  <2>3. CASE t = "post_slug_aliases"
    BY <1>1, <1>2, <1>3, <1>4, <1>5, <2>3, UnderHas
  <2> QED
    BY <1>7, <2>1, <2>2, <2>3
<1>8. CASE t = "post_content_blocks"
  <2>1. PostTexts = Texts(Section("post_content_blocks"), PartOf[PartOf["post_content_blocks"]],
                          PartOf["post_content_blocks"], "post_content_blocks", "post_slug_aliases")
    BY TextTables DEF PostTexts
  <2>2. PostTexts \subseteq SeedJsonData
    BY SectionsOfSeed
  <2> QED
    BY <1>8, <2>1, <2>2, TextTables, BlocksHave
<1>9. CASE t = "post_category_posts"
  BY <1>1, <1>2, <1>3, <1>5, <1>9, FillHas
<1>10. CASE t = "_PostPages"
  <2> DEFINE p ==
        << <<23, x, 0, 0, 0>>, Command("connect", "_PostPages", Single(x, file["_PostPages"][x]), {})>>
  <2>1. p \in PostPages
    BY <1>10 DEF PostPages
  <2>2. p \in SeedJsonData
    BY <2>1, SectionsOfSeed
  <2>3. x \in Nat /\ Without(file["_PostPages"][x], {}) = file["_PostPages"][x]
    BY <1>1, <1>10, NatRows, WithoutRow
  <2>4. Makes(p, "_PostPages") /\ x \in DOMAIN p[2].rows
    BY <1>2, <1>3, <1>10, <2>3 DEF Makes, Command, Single, Place
  <2> QED
    BY <1>10, <2>2, <2>4 DEF Has
<1> QED
  BY <1>6, <1>7, <1>8, <1>9, <1>10

LEMMA LastHave ==
  ASSUME RowsFit(file), KeysLead(file),
         NEW t \in {"page_versions", "post_versions", "menus", "menu_items", "menu_item_translations",
                    "settings", "setting_global_contents", "setting_localized_contents",
                    "audit_logs", "activity_logs"},
         NEW x \in DOMAIN file[t]
  PROVE  Has(SeedJsonData, t, x)
<1>1. /\ {"page_versions", "post_versions", "menus", "menu_items", "menu_item_translations",
          "settings", "setting_global_contents", "setting_localized_contents",
          "audit_logs", "activity_logs"} \subseteq AllTables
      /\ {"menu_items", "menu_item_translations", "setting_global_contents",
          "setting_localized_contents"} \subseteq DOMAIN PartOf
      /\ PartOf["menu_items"] = "menus" /\ PartOf["menu_item_translations"] = "menu_items"
      /\ PartOf["setting_global_contents"] = "settings"
      /\ PartOf["setting_localized_contents"] = "settings"
  BY TablesAre DEF SeedTables, PartOf
<1>2. /\ Section("page_versions") = 25 /\ Section("post_versions") = 26
      /\ Section("menus") = 24 /\ Section("menu_items") = 24 /\ Section("settings") = 27
      /\ Section("setting_global_contents") = 27 /\ Section("setting_localized_contents") = 27
      /\ Section("audit_logs") = 28 /\ Section("activity_logs") = 29
  BY DEF Section
<1>3. /\ {} = Later("page_versions") /\ {} = Later("post_versions") /\ {} = Later("settings")
      /\ {} = Later("setting_global_contents") /\ {} = Later("setting_localized_contents")
      /\ {} = Later("menus") /\ {"parent"} = Later("menu_items")
      /\ {} = Later("audit_logs") /\ {} = Later("activity_logs")
  BY DEF Later, InTwoPasses
<1>4. \A u : {} \cap Later(u) = {}
  OBVIOUS
<1>5. /\ Upsert(24, "menus", {}, {}) \subseteq SeedJsonData
      /\ UpsertUnder(24, 1, "menu_items", "menus", {"parent"}) \subseteq SeedJsonData
      /\ Upsert(25, "page_versions", {}, {}) \subseteq SeedJsonData
      /\ Upsert(26, "post_versions", {}, {}) \subseteq SeedJsonData
      /\ Upsert(27, "settings", {}, {}) \subseteq SeedJsonData
      /\ UpsertUnder(27, 1, "setting_global_contents", "settings", {}) \subseteq SeedJsonData
      /\ UpsertUnder(27, 2, "setting_localized_contents", "settings", {}) \subseteq SeedJsonData
      /\ Fill(28, "audit_logs", DOMAIN file["audit_logs"]) \subseteq SeedJsonData
      /\ Fill(29, "activity_logs", DOMAIN file["activity_logs"]) \subseteq SeedJsonData
  BY SectionsOfSeed DEF Menus, Versions, Settings, Logs, FillAll
<1>6. CASE t \in {"menus", "page_versions", "post_versions", "settings"}
  <2>1. CASE t = "menus"
    BY <1>1, <1>2, <1>3, <1>4, <1>5, <2>1, UpsertsHave
  <2>2. CASE t = "page_versions"
    BY <1>1, <1>2, <1>3, <1>4, <1>5, <2>2, UpsertsHave
  <2>3. CASE t = "post_versions"
    BY <1>1, <1>2, <1>3, <1>4, <1>5, <2>3, UpsertsHave
  <2>4. CASE t = "settings"
    BY <1>1, <1>2, <1>3, <1>4, <1>5, <2>4, UpsertsHave
  <2> QED
    BY <1>6, <2>1, <2>2, <2>3, <2>4
<1>7. CASE t \in {"menu_items", "setting_global_contents", "setting_localized_contents"}
  <2>1. CASE t = "menu_items"
    <3>1. UpsertUnder(24, 1, t, PartOf[t], Later(t)) \subseteq SeedJsonData
      <4>1. Later(t) = {"parent"} /\ PartOf[t] = "menus" /\ t = "menu_items"
        BY <1>1, <1>3, <2>1
      <4> QED
        BY <1>5, <4>1, Zenon
    <3>2. t \in AllTables /\ t \in DOMAIN PartOf /\ PartOf[t] \in AllTables /\ 24 = Section(t)
      BY <1>1, <1>2, <1>3, <2>1
    <3>3. 24 \in Nat /\ 1 \in Nat
      OBVIOUS
    <3> QED
      BY <3>1, <3>2, <3>3, UnderHas, ZenonT(30)
  <2>2. CASE t = "setting_global_contents"
    BY <1>1, <1>2, <1>3, <1>5, <2>2, UnderHas
  <2>3. CASE t = "setting_localized_contents"
    BY <1>1, <1>2, <1>3, <1>5, <2>3, UnderHas
  <2> QED
    BY <1>7, <2>1, <2>2, <2>3
<1>8. CASE t \in {"audit_logs", "activity_logs"}
  BY <1>1, <1>2, <1>3, <1>5, <1>8, FillHas
<1>9. CASE t = "menu_item_translations"
  <2>1. PICK y \in DOMAIN file["menu_items"] : x \in Under(t, "menu_items", y)
    BY <1>1, <1>9, AnOwner
  <2>2. PICK m \in DOMAIN file["menus"] : y \in Under("menu_items", "menus", m)
    BY <1>1, AnOwner
  <2> DEFINE p == UpsertAt(<<24, m, 3, y, x>>, t, x, {}, {})
  <2>3. p \in ItemTexts(m, y)
    BY <1>9, <2>1 DEF ItemTexts
  <2>4. p \in Menus
    BY <2>2, <2>3 DEF Menus, Items
  <2>5. Menus \subseteq SeedJsonData
    BY SectionsOfSeed
  <2>6. DOMAIN p[2].rows = {x}
    BY DEF UpsertAt, Command, Single
  <2>7. Orderly(SeedJsonData, p, t)
    BY <1>9, <2>2, <2>3, <2>5, ItemTextsOrderly
  <2> QED
    BY <2>4, <2>5, <2>6, <2>7 DEF Has, Orderly
<1> QED
  BY <1>6, <1>7, <1>8, <1>9

LEMMA SeedHave ==
  ASSUME RowsFit(file), KeysLead(file), NEW t \in SeedTables, NEW x \in DOMAIN file[t]
  PROVE  Has(SeedJsonData, t, x)
BY FirstHave, PageHave, PostHave, LastHave DEF SeedTables

LEMMA ChatTextsHave ==
  ASSUME RowsFit(file), NEW t \in ChatTexts, NEW x \in DOMAIN file[t]
  PROVE  Has(SeedChatData, t, x)
<1>1. /\ Upsert(1, "canned_response_categories", {}, {}) \subseteq SeedChatData
      /\ Upsert(2, "canned_responses", {"in"}, {}) \subseteq SeedChatData
      /\ Upsert(3, "canned_response_translations", {}, {}) \subseteq SeedChatData
      /\ Upsert(4, "chat_programs", {}, {}) \subseteq SeedChatData
      /\ Upsert(5, "chat_regions", {}, {}) \subseteq SeedChatData
      /\ Upsert(6, "chat_config", {}, {}) \subseteq SeedChatData
  BY DEF SeedChatData, CannedTexts, Taxonomy
<1>2. t \in AllTables
  BY TablesAre
<1> QED
  BY <1>1, <1>2, ChatSections, ChatTablesAre, UpsertsHave DEF ChatTexts

LEMMA ChatRowsHave ==
  ASSUME RowsFit(file), KeysLead(file), NEW t \in ChatRows, NEW x \in DOMAIN file[t]
  PROVE  Has(SeedChatDevData, t, x)
<1>1. /\ Upsert(1, "notifications", {"in"}, {}) \subseteq SeedChatDevData
      /\ Upsert(2, "user_notification_states", {}, {}) \subseteq SeedChatDevData
      /\ UpsertUnder(3, 1, "chat_messages", "chat_sessions", {}) \subseteq SeedChatDevData
      /\ UpsertUnder(4, 1, "operator_messages", "operator_threads", {}) \subseteq SeedChatDevData
  BY DEF SeedChatDevData, Notifications, ChatSessions, OperatorThreads
<1>2. ChatRows \subseteq AllTables
  BY TablesAre
<1>3. CASE t \in {"notifications", "user_notification_states"}
  BY <1>1, <1>2, <1>3, ChatSections, ChatTablesAre, UpsertsHave
<1>4. CASE t \in {"chat_sessions", "operator_threads"}
  BY <1>4, ChatOneByOne, OneByOneHas
<1>5. CASE t \in {"chat_messages", "operator_messages"}
  <2>1. "chat_sessions" \in AllTables /\ "operator_threads" \in AllTables
    BY <1>2 DEF ChatRows
  <2> QED
    BY <1>1, <1>2, <1>5, <2>1, ChatSections, ChatTablesAre, UnderHas
<1> QED
  BY <1>3, <1>4, <1>5 DEF ChatRows

-----------------------------------------------------------------------------
(* While the file is the same, so are the commands. *)
LEMMA SameParts ==
  ASSUME file' = file
  PROVE  /\ \A n, t, columns, later : Upsert(n, t, columns, later)' = Upsert(n, t, columns, later)
         /\ \A n, t, column : SecondPass(n, t, column)' = SecondPass(n, t, column)
         /\ \A n, t, ids : Fill(n, t, ids)' = Fill(n, t, ids)
         /\ \A n, t : FillAll(n, t)' = FillAll(n, t)
         /\ \A t, owner, x : Under(t, owner, x)' = Under(t, owner, x)
         /\ \A n, k, t, owner, later :
              UpsertUnder(n, k, t, owner, later)' = UpsertUnder(n, k, t, owner, later)
<1>1. \A t, owner, x : Under(t, owner, x)' = Under(t, owner, x)
  BY DEF Under
<1>2. \A n, t, columns, later : Upsert(n, t, columns, later)' = Upsert(n, t, columns, later)
  BY DEF Upsert, UpsertAt
<1>3. \A n, t, column : SecondPass(n, t, column)' = SecondPass(n, t, column)
  BY DEF SecondPass, UpdateAt, Having
<1>4. \A n, t, ids : Fill(n, t, ids)' = Fill(n, t, ids)
  BY DEF Fill
<1>5. \A n, t : FillAll(n, t)' = FillAll(n, t)
  BY DEF FillAll, Fill
<1>6. \A n, k, t, owner, later :
        UpsertUnder(n, k, t, owner, later)' = UpsertUnder(n, k, t, owner, later)
  BY DEF UpsertUnder, UpsertAt, Under
<1> QED
  BY <1>1, <1>2, <1>3, <1>4, <1>5, <1>6

LEMMA SameTexts ==
  ASSUME file' = file
  PROVE  PageTexts' = PageTexts /\ PostTexts' = PostTexts
<1>1. \A n, translations, blocks, x, y :
        Blocks(n, translations, blocks, x, y)' = Blocks(n, translations, blocks, x, y)
  BY DEF Blocks, Under
<1>2. \A n, t, translations, blocks, aliases :
        Texts(n, t, translations, blocks, aliases)' = Texts(n, t, translations, blocks, aliases)
  BY SameParts, <1>1 DEF Texts, UpsertUnder, UpsertAt, Under, Blocks
<1> QED
  BY <1>2 DEF PageTexts, PostTexts

LEMMA SameMenus ==
  ASSUME file' = file
  PROVE  Menus' = Menus
<1>1. \A x, y : ItemTexts(x, y)' = ItemTexts(x, y)
  BY DEF ItemTexts, UpsertAt, Under
<1>2. \A x : Items(x)' = Items(x)
  BY <1>1 DEF Items, UpdateAt, Having, Under, ItemTexts, UpsertAt
<1> QED
  BY <1>2, SameParts DEF Menus, Upsert, UpsertUnder, UpsertAt, Under, Items, UpdateAt, Having, ItemTexts

LEMMA SameCommands ==
  ASSUME file' = file
  PROVE  \A name : CommandsOf(name)' = CommandsOf(name)
<1>1. /\ Languages' = Languages /\ Roles' = Roles /\ RoleManagement' = RoleManagement
      /\ Users' = Users /\ UserRoles' = UserRoles /\ UserPermissions' = UserPermissions
      /\ BlockTypes' = BlockTypes /\ Media' = Media /\ Avatars' = Avatars /\ Posts' = Posts
      /\ PostCategoryPosts' = PostCategoryPosts
  BY SameParts DEF Languages, Roles, RoleManagement, Users, UserRoles, UserPermissions, BlockTypes,
                   Media, Avatars, Posts, PostCategoryPosts
<1>2. Permissions' = Permissions /\ PostPages' = PostPages
  BY DEF Permissions, PostPages
<1>3. RolePermissions' = RolePermissions
  BY DEF RolePermissions, Fill
<1>4. /\ PageTemplates' = PageTemplates /\ MediaFolders' = MediaFolders /\ Pages' = Pages
      /\ PostCategories' = PostCategories /\ Versions' = Versions /\ Settings' = Settings
      /\ Logs' = Logs
  BY SameParts DEF PageTemplates, MediaFolders, Pages, PostCategories, Versions, Settings, Logs
<1>5. SeedJsonData' = SeedJsonData
  BY <1>1, <1>2, <1>3, <1>4, SameTexts, SameMenus DEF SeedJsonData, ResetSequences
<1>6. SeedChatData' = SeedChatData
  BY SameParts DEF SeedChatData, CannedTexts, Taxonomy
<1>7. SeedChatDevData' = SeedChatDevData
  BY SameParts DEF SeedChatDevData, Notifications, ChatSessions, OperatorThreads
<1> QED
  BY <1>5, <1>6, <1>7 DEF CommandsOf, Truncate

-----------------------------------------------------------------------------
(* What is common to the commands of all scripts *)
TablesOf(name) ==
  CASE name = "seed" -> SeedTables [] name = "seed chat" -> ChatTexts
    [] name = "seed chats" -> ChatRows [] OTHER -> {}

Restoring == {"seed", "seed chat", "seed chats"}

Wipes(p) == p[2].do \in {"wipe", "wipe under"} /\ p[2].table \in AllTables
Counts(p, do) == p[2].do = do /\ p[2].table \in Numbers

LEMMA NumbersAre == Numbers \subseteq AllTables
<1>1. DOMAIN SequenceTables = 1 .. 31
  BY DEF SequenceTables
<1> SUFFICES ASSUME NEW n \in 1 .. 31 PROVE SequenceTables[n] \in AllTables
  BY <1>1 DEF Numbers
<1> QED
  BY TablesAre DEF SequenceTables, SeedTables, ChatRows

LEMMA TruncatedAre ==
  /\ DOMAIN TruncateOrder = 1 .. 40
  /\ \A n \in 1 .. 40 : TruncateOrder[n] \in AllTables
<1>1. DOMAIN TruncateOrder = 1 .. 40
  BY DEF TruncateOrder
<1>2. ASSUME NEW n \in 1 .. 40 PROVE TruncateOrder[n] \in AllTables
  BY TablesAre DEF TruncateOrder, SeedTables, ChatRows, ChatTexts
<1> QED
  BY <1>1, <1>2

LEMMA TruncateKinds ==
  ASSUME NEW p \in Truncate
  PROVE  /\ p[1] \in Place
         /\ \/ p[2].do = "wipe" /\ \E n \in 1 .. 40 : p = Wipe(1, n, TruncateOrder[n])
            \/ Counts(p, "setval first") /\ p[1][1] = 2
<1>1. CASE \E n \in DOMAIN TruncateOrder : p = Wipe(1, n, TruncateOrder[n])
  <2>1. PICK n \in 1 .. 40 : p = Wipe(1, n, TruncateOrder[n])
    BY <1>1, TruncatedAre
  <2>2. p[1] = <<1, n, 0, 0, 0>> /\ p[2].do = "wipe"
    BY <2>1 DEF Wipe, Command
  <2>3. p[1] \in Place
    BY <2>2 DEF Place
  <2> QED
    BY <2>1, <2>2, <2>3
<1>2. CASE \E n \in {m \in DOMAIN TruncateOrder : TruncateOrder[m] \in Numbers} :
             p = << <<2, n, 0, 0, 0>>, Command("setval first", TruncateOrder[n], << >>, {})>>
  <2>1. PICK n \in 1 .. 40 :
          /\ TruncateOrder[n] \in Numbers
          /\ p = << <<2, n, 0, 0, 0>>, Command("setval first", TruncateOrder[n], << >>, {})>>
    BY <1>2, TruncatedAre
  <2> DEFINE place == <<2, n, 0, 0, 0>>
  <2>2. p[1] = place /\ p[2].do = "setval first" /\ p[2].table = TruncateOrder[n]
    BY <2>1 DEF Command
  <2>3. place \in Place /\ place[1] = 2
    BY DEF Place
  <2> HIDE DEF place
  <2> QED
    BY <2>1, <2>2, <2>3 DEF Counts
<1> QED
  BY <1>1, <1>2 DEF Truncate

LEMMA ResetKinds ==
  ASSUME NEW p \in ResetSequences
  PROVE  p[1] \in Place /\ p[1][1] = 30 /\ Counts(p, "setval max")
<1>1. DOMAIN SequenceTables = 1 .. 31
  BY DEF SequenceTables
<1>2. PICK n \in DOMAIN SequenceTables :
        p = << <<30, n, 0, 0, 0>>, Command("setval max", SequenceTables[n], << >>, {})>>
  BY DEF ResetSequences
<1> DEFINE place == <<30, n, 0, 0, 0>>
<1>3. /\ p[1] = place /\ p[2].do = "setval max" /\ p[2].table = SequenceTables[n]
  BY <1>2 DEF Command
<1>4. n \in Nat /\ SequenceTables[n] \in Numbers
  BY <1>1 DEF Numbers
<1>5. place \in Place /\ place[1] = 30
  BY <1>4 DEF Place
<1> HIDE DEF place
<1> QED
  BY <1>3, <1>4, <1>5 DEF Counts

LEMMA CutKinds ==
  ASSUME NEW b \in BlockTables, NEW p, Cuts(p, b)
  PROVE  /\ p[1] \in Place /\ p[1][1] = Section(b) /\ p[2].do = "wipe under" /\ p[2].table = b
         /\ b \in AllTables
<1>1. PICK x, y \in Nat : p = Cut(x, y, b)
  BY DEF Cuts
<1> DEFINE place == <<Section(b), x, 1, y, 1>>
<1>2. /\ p[1] = place /\ p[2].do = "wipe under" /\ p[2].table = b
  BY <1>1 DEF Cut, Command
<1>3. Section(b) \in Nat /\ b \in AllTables
  BY BlockTablesAre, TablesAre
<1>4. place \in Place /\ place[1] = Section(b)
  BY <1>3 DEF Place
<1> HIDE DEF place
<1> QED
  BY <1>2, <1>3, <1>4

LEMMA GrantKinds ==
  ASSUME NEW p, Grants(p)
  PROVE  /\ p[1] \in Place /\ p[1][1] = 2 /\ p[2].do = "wipe"
         /\ p[2].table \in {"user_permissions", "role_permissions", "permissions"}
BY DEF Grants, Wipe, Place, Command

LEMMA CommandForm ==
  ASSUME RowsFit(file), NEW name \in Scripts, NEW p \in CommandsOf(name)
  PROVE  /\ p[1] \in Place
         /\ \/ name \in Restoring /\ \E t \in TablesOf(name) : Makes(p, t) \/ Updates(p, t)
            \/ name = "seed" /\ Wipes(p) /\ p[1][1] < 30
            \/ name = "seed" /\ Counts(p, "setval max") /\ p[1][1] = 30
            \/ name = "clean" /\ Wipes(p) /\ p[1][1] = 1
            \/ name = "clean" /\ Counts(p, "setval first") /\ p[1][1] = 2
<1>1. CASE name = "seed"
  <2>1. p \in SeedJsonData /\ TablesOf(name) = SeedTables
    BY <1>1 DEF CommandsOf, TablesOf
  <2>2. SeedKind(p)
    BY <2>1, SeedKinds
  <2>3. CASE \E t \in SeedTables : Makes(p, t) \/ Updates(p, t)
    BY <1>1, <2>1, <2>3 DEF Restoring, Makes, Updates
  <2>4. CASE Grants(p)
    <3>1. {"user_permissions", "role_permissions", "permissions"} \subseteq AllTables
      BY TablesAre DEF SeedTables
    <3>2. p[1] \in Place /\ Wipes(p) /\ p[1][1] = 2
      BY <2>4, <3>1, GrantKinds DEF Wipes
    <3> QED
      BY <1>1, <3>2
  <2>5. CASE \E b \in BlockTables : Cuts(p, b)
    <3>1. PICK b \in BlockTables : Cuts(p, b)
      BY <2>5
    <3>2. Section(b) < 30
      BY TextTables DEF BlockTables
    <3> QED
      BY <1>1, <3>1, <3>2, CutKinds DEF Wipes
  <2>6. CASE p \in ResetSequences
    BY <1>1, <2>6, ResetKinds
  <2>7. /\ BlockTables \subseteq SeedTables /\ "permissions" \in SeedTables
        /\ UpdateTables \subseteq SeedTables /\ Plain \subseteq SeedTables
    BY DEF BlockTables, SeedTables, UpdateTables, Plain
  <2> QED
    BY <2>2, <2>3, <2>4, <2>5, <2>6, <2>7 DEF SeedKind, Orderly
<1>2. CASE name = "seed chat"
  <2>1. p \in SeedChatData /\ TablesOf(name) = ChatTexts
    BY <1>2 DEF CommandsOf, TablesOf
  <2> QED
    BY <1>2, <2>1, ChatTextKinds DEF ChatKind, Orderly, Makes, Restoring
<1>3. CASE name = "seed chats"
  <2>1. p \in SeedChatDevData /\ TablesOf(name) = ChatRows
    BY <1>3 DEF CommandsOf, TablesOf
  <2> QED
    BY <1>3, <2>1, ChatRowKinds DEF ChatKind, Orderly, Makes, Restoring
<1>4. CASE name = "clean"
  <2>1. p \in Truncate
    BY <1>4 DEF CommandsOf
  <2>2. ASSUME NEW n \in 1 .. 40, p = Wipe(1, n, TruncateOrder[n])
        PROVE  Wipes(p) /\ p[1][1] = 1
    BY <2>2, TruncatedAre DEF Wipe, Command, Wipes
  <2> QED
    BY <1>4, <2>1, <2>2, TruncateKinds
<1> QED
  BY <1>1, <1>2, <1>3, <1>4 DEF Scripts

-----------------------------------------------------------------------------
(* What commands and the back office make of the database *)

(* Table u of data with the rows of ids gone, or freed of what is gone. *)
Shrunk(old, new) ==
  /\ DOMAIN new \subseteq DOMAIN old
  /\ \A y \in DOMAIN new :
       /\ new[y] = [parent |-> new[y].parent, in |-> new[y].in, of |-> new[y].of]
       /\ new[y].of = old[y].of
       /\ new[y].in \subseteq old[y].in /\ new[y].parent \subseteq old[y].parent

LEMMA FitsMixed ==
  ASSUME NEW t, NEW x, NEW one, NEW two, RowFits(t, x, one), RowFits(t, x, two), NEW row,
         row = [parent |-> row.parent, in |-> row.in, of |-> row.of],
         row.parent \subseteq one.parent \cup two.parent, row.in \subseteq one.in \cup two.in,
         row.of = one.of
  PROVE  RowFits(t, x, row)
<1>1. row \in TableRow
  BY DEF RowFits, TableRow
<1>2. \A to \in row.parent : to[1] = t /\ t \in Trees
  BY DEF RowFits
<1>3. t = "post_categories" => <<t, x>> \notin row.parent
  BY DEF RowFits
<1>4. \A to \in row.in : t \in Pointing(to[1])
  BY DEF RowFits
<1>5. \A to \in row.of : t \in Owned(to[1])
  BY DEF RowFits
<1>6. t \in DOMAIN PartOf =>
        \E own \in row.of : \A to \in row.of : to[1] = PartOf[t] <=> to = own
  BY DEF RowFits
<1> QED
  BY <1>1, <1>2, <1>3, <1>4, <1>5, <1>6 DEF RowFits

(* A table whose rows fit. *)
TableFits(t, rows) ==
  /\ IsFiniteSet(DOMAIN rows) /\ DOMAIN rows \subseteq Nat
  /\ rows = [x \in DOMAIN rows |-> rows[x]]
  /\ \A x \in DOMAIN rows : RowFits(t, x, rows[x])

LEMMA RowsFitTables ==
  ASSUME NEW data
  PROVE  RowsFit(data) <=> DOMAIN data = AllTables /\ \A t \in AllTables : TableFits(t, data[t])
BY DEF RowsFit, TableFits

LEMMA ShrunkFits ==
  ASSUME NEW t, NEW old, NEW new, TableFits(t, old), Shrunk(old, new),
         new = [x \in DOMAIN new |-> new[x]]
  PROVE  TableFits(t, new)
<1>1. IsFiniteSet(DOMAIN new)
  BY FS_Subset DEF TableFits, Shrunk
<1>2. \A x \in DOMAIN new : RowFits(t, x, new[x])
  BY FitsMixed DEF TableFits, Shrunk
<1> QED
  BY <1>1, <1>2 DEF TableFits, Shrunk

(* The rows of u that are left when those rows of t go, and references.     *)
Spared(t, ids, u) ==
  {y \in DOMAIN db[u] : ~(u = t /\ y \in ids) /\ \A x \in ids : <<t, x>> \notin db[u][y].of}
Cleared(t, ids, refs) == {to \in refs : \A x \in ids : to # <<t, x>>}

DeletedFrom(t, ids, D, u) ==
  /\ DOMAIN D[u] = Spared(t, ids, u)
  /\ D[u] = [y \in DOMAIN D[u] |-> D[u][y]]
  /\ \A y \in DOMAIN D[u] :
       D[u][y] = [parent |-> Cleared(t, ids, db[u][y].parent),
                  in |-> Cleared(t, ids, db[u][y].in), of |-> db[u][y].of]

LEMMA TwoColumns ==
  ASSUME NEW row \in TableRow, NEW A, NEW B
  PROVE  [row EXCEPT !.in = A, !.parent = B] = [parent |-> B, in |-> A, of |-> row.of]
<1> DEFINE new == [[row EXCEPT !.in = A] EXCEPT !.parent = B]
           made == [parent |-> B, in |-> A, of |-> row.of]
<1>1. DOMAIN row = {"parent", "in", "of"} /\ DOMAIN made = {"parent", "in", "of"}
  BY DEF TableRow
<1>2. /\ new = [c \in {"parent", "in", "of"} |-> new[c]]
      /\ new["parent"] = B /\ new["in"] = A /\ new["of"] = row.of
  BY <1>1
<1>3. /\ made = [c \in {"parent", "in", "of"} |-> made[c]]
      /\ made["parent"] = B /\ made["in"] = A /\ made["of"] = row.of
  OBVIOUS
<1> HIDE DEF new, made
<1>4. \A c \in {"parent", "in", "of"} : new[c] = made[c]
  BY <1>2, <1>3
<1>5. new = made
  BY <1>2, <1>3, <1>4
<1> QED
  BY <1>5 DEF new, made

LEMMA DeletedIs ==
  ASSUME RowsFit(db), NEW t, NEW ids, NEW D, D = Deleted(t, ids)
  PROVE  DOMAIN D = AllTables /\ \A u \in AllTables : DeletedFrom(t, ids, D, u)
<1> DEFINE gone == {<<t, x>> : x \in ids}
           kept(u) == {y \in DOMAIN db[u] : <<u, y>> \notin gone /\ db[u][y].of \cap gone = {}}
           freed(row) == [row EXCEPT !.in = @ \ gone, !.parent = @ \ gone]
<1>1. D = [u \in DOMAIN db |-> [y \in kept(u) |-> freed(db[u][y])]]
  BY DEF Deleted
<1>2. DOMAIN D = AllTables /\ DOMAIN db = AllTables
  BY <1>1 DEF RowsFit
<1> SUFFICES ASSUME NEW u \in AllTables
             PROVE  DeletedFrom(t, ids, D, u)
  BY <1>2
<1>3. D[u] = [y \in kept(u) |-> freed(db[u][y])]
  BY <1>1, <1>2
<1>4. kept(u) = Spared(t, ids, u)
  BY DEF Spared
<1>5. ASSUME NEW y \in DOMAIN db[u]
      PROVE  freed(db[u][y]) = [parent |-> Cleared(t, ids, db[u][y].parent),
                                in |-> Cleared(t, ids, db[u][y].in), of |-> db[u][y].of]
  <2>1. db[u][y] \in TableRow
    BY DEF RowsFit, RowFits
  <2>2. db[u][y].in \ gone = Cleared(t, ids, db[u][y].in)
    BY DEF Cleared
  <2>3. db[u][y].parent \ gone = Cleared(t, ids, db[u][y].parent)
    BY DEF Cleared
  <2> DEFINE A == db[u][y].in \ gone
             B == db[u][y].parent \ gone
  <2>4. A = Cleared(t, ids, db[u][y].in) /\ B = Cleared(t, ids, db[u][y].parent)
    BY <2>2, <2>3
  <2>5. freed(db[u][y]) = [db[u][y] EXCEPT !.in = A, !.parent = B]
    OBVIOUS
  <2> HIDE DEF gone, A, B
  <2>6. [db[u][y] EXCEPT !.in = A, !.parent = B] = [parent |-> B, in |-> A, of |-> db[u][y].of]
    BY <2>1, TwoColumns
  <2> QED
    BY <2>4, <2>5, <2>6, Zenon
<1>6. \A y \in kept(u) : y \in DOMAIN db[u]
  OBVIOUS
<1> HIDE DEF kept, freed
<1> QED
  BY <1>3, <1>4, <1>5, <1>6 DEF DeletedFrom

LEMMA DeletedShrinks ==
  ASSUME RowsFit(db), NEW t, NEW ids, NEW D, D = Deleted(t, ids)
  PROVE  RowsFit(D) /\ \A u \in AllTables : Shrunk(db[u], D[u])
<1>1. DOMAIN D = AllTables
  BY DeletedIs
<1>2. ASSUME NEW u \in AllTables
      PROVE  Shrunk(db[u], D[u]) /\ D[u] = [y \in DOMAIN D[u] |-> D[u][y]]
  <2>1. DeletedFrom(t, ids, D, u)
    BY DeletedIs
  <2>2. DOMAIN D[u] \subseteq DOMAIN db[u] /\ D[u] = [y \in DOMAIN D[u] |-> D[u][y]]
    BY <2>1 DEF DeletedFrom, Spared
  <2>3. ASSUME NEW y \in DOMAIN D[u]
        PROVE  /\ D[u][y] = [parent |-> D[u][y].parent, in |-> D[u][y].in, of |-> D[u][y].of]
               /\ D[u][y].of = db[u][y].of
               /\ D[u][y].in \subseteq db[u][y].in /\ D[u][y].parent \subseteq db[u][y].parent
    <3> DEFINE A == Cleared(t, ids, db[u][y].in)
               B == Cleared(t, ids, db[u][y].parent)
               C == db[u][y].of
    <3>1. D[u][y] = [parent |-> B, in |-> A, of |-> C]
      BY <2>1 DEF DeletedFrom
    <3>2. A \subseteq db[u][y].in /\ B \subseteq db[u][y].parent /\ C = db[u][y].of
      BY DEF Cleared
    <3> HIDE DEF A, B, C
    <3>3. D[u][y].parent = B /\ D[u][y].in = A /\ D[u][y].of = C
      BY <3>1
    <3> QED
      BY <3>1, <3>2, <3>3
  <2> QED
    BY <2>2, <2>3 DEF Shrunk
<1>3. \A u \in AllTables : TableFits(u, D[u])
  BY <1>2, RowsFitTables, ShrunkFits
<1> QED
  BY <1>1, <1>2, <1>3, RowsFitTables

WipedUnder(c) ==
  {y \in DOMAIN db[c.table] : \E x \in DOMAIN c.rows : <<c.rows[x], x>> \in db[c.table][y].of}

LEMMA AfterIs ==
  ASSUME NEW c
  PROVE  /\ c.do \in Writes =>
              After(c) = [db EXCEPT ![c.table] =
                            [x \in DOMAIN db[c.table] \cup DOMAIN c.rows |->
                               IF x \in DOMAIN c.rows THEN Written(c, x) ELSE db[c.table][x]]]
         /\ c.do = "wipe" => After(c) = Deleted(c.table, DOMAIN db[c.table])
         /\ c.do = "wipe under" => After(c) = Deleted(c.table, WipedUnder(c))
         /\ c.do \notin Writes \cup {"wipe", "wipe under"} => After(c) = db
<1> DEFINE first(d) == [d EXCEPT ![c.table] =
             [x \in DOMAIN @ \cup DOMAIN c.rows |->
                IF x \in DOMAIN c.rows THEN Written(c, x) ELSE @[x]]]
           second == Deleted(c.table, DOMAIN db[c.table])
           third == Deleted(c.table, WipedUnder(c))
<1>1. After(c) = CASE c.do \in Writes -> first(db) [] c.do = "wipe" -> second
                   [] c.do = "wipe under" -> third [] OTHER -> db
  BY Zenon DEF After, WipedUnder
<1>2. first(db) = [db EXCEPT ![c.table] =
                     [x \in DOMAIN db[c.table] \cup DOMAIN c.rows |->
                        IF x \in DOMAIN c.rows THEN Written(c, x) ELSE db[c.table][x]]]
  BY Zenon
<1> HIDE DEF first, second, third
<1>3. "wipe" \notin Writes /\ "wipe under" \notin Writes
  BY DEF Writes
<1>4. /\ c.do \in Writes => After(c) = first(db)
      /\ c.do = "wipe" => After(c) = second
      /\ c.do = "wipe under" => After(c) = third
      /\ c.do \notin Writes \cup {"wipe", "wipe under"} => After(c) = db
  BY <1>1, <1>3
<1> QED
  BY <1>2, <1>4, Zenon DEF second, third

(* D is the database with rows of c put into its table t. *)
WithRows(D, c, t) ==
  /\ DOMAIN D = AllTables
  /\ \A u \in AllTables \ {t} : D[u] = db[u]
  /\ DOMAIN D[t] = DOMAIN db[t] \cup DOMAIN c.rows
  /\ D[t] = [x \in DOMAIN D[t] |-> D[t][x]]
  /\ \A x \in DOMAIN c.rows : D[t][x] = Written(c, x)
  /\ \A x \in DOMAIN db[t] \ DOMAIN c.rows : D[t][x] = db[t][x]

LEMMA AfterWrite ==
  ASSUME RowsFit(db), NEW t \in AllTables, NEW c, c.do \in Writes, c.table = t, NEW D, D = After(c)
  PROVE  WithRows(D, c, t)
<1> DEFINE rows == [x \in DOMAIN db[t] \cup DOMAIN c.rows |->
                      IF x \in DOMAIN c.rows THEN Written(c, x) ELSE db[t][x]]
<1>1. D = [db EXCEPT ![t] = rows]
  <2>1. After(c) = [db EXCEPT ![c.table] =
                      [x \in DOMAIN db[c.table] \cup DOMAIN c.rows |->
                         IF x \in DOMAIN c.rows THEN Written(c, x) ELSE db[c.table][x]]]
    BY AfterIs
  <2> QED
    BY <2>1, Zenon
<1>2. DOMAIN db = AllTables
  BY DEF RowsFit
<1>3. D[t] = rows
  BY <1>1, <1>2
<1> QED
  BY <1>1, <1>2, <1>3 DEF WithRows

(* A command that makes or updates rows of table t. *)
Changes(p, t) == Makes(p, t) \/ Updates(p, t)
Columns == {"parent", "in", "of"}

LEMMA LaterColumns ==
  ASSUME NEW t
  PROVE  Later(t) \subseteq {"parent", "in"}
BY DEF Later

LEMMA ChangesDo ==
  ASSUME NEW t, NEW p, Changes(p, t)
  PROVE  /\ p[2].do \in Writes /\ p[2].table = t /\ DOMAIN p[2].rows \subseteq DOMAIN file[t]
         /\ p[2].columns \subseteq {"parent", "in"}
         /\ Makes(p, t) => p[2].do # "update"
         /\ Updates(p, t) => p[2].do = "update" /\ p[2].columns = Later(t)
BY LaterColumns DEF Changes, Makes, Updates, Writes

(* What it makes of row x. *)
LEMMA WrittenIs ==
  ASSUME RowsFit(db), RowsFit(file), NEW t \in AllTables, NEW p, Changes(p, t),
         NEW x \in DOMAIN p[2].rows, NEW row, row = Written(p[2], x)
  PROVE  /\ row = [c \in Columns |-> row[c]]
         /\ x \in DOMAIN db[t] =>
              \A c \in Columns :
                row[c] = IF p[2].do # "fill" /\ c \in p[2].columns THEN file[t][x][c] ELSE db[t][x][c]
         /\ x \notin DOMAIN db[t] =>
              \A c \in Columns :
                row[c] = IF p[2].do # "update" /\ c \in Later(t) THEN {} ELSE file[t][x][c]
<1>1. x \in DOMAIN file[t] /\ file[t][x] \in TableRow
  BY ChangesDo, NatRows
<1>2. DOMAIN file[t][x] = Columns
  BY <1>1 DEF TableRow, Columns
<1>3. p[2].table = t
  BY ChangesDo
<1> DEFINE new == p[2].rows[x]
<1>4. /\ Makes(p, t) => new = Without(file[t][x], Later(t))
      /\ Updates(p, t) => new = file[t][x]
  BY DEF Makes, Updates
<1>5. /\ new = [c \in Columns |-> new[c]]
      /\ \A c \in Columns :
           new[c] = IF p[2].do # "update" /\ c \in Later(t) THEN {} ELSE file[t][x][c]
  <2>1. CASE Makes(p, t)
    BY <1>2, <1>4, <2>1, ChangesDo DEF Without
  <2>2. CASE Updates(p, t)
    BY <1>1, <1>2, <1>4, <2>2, ChangesDo DEF TableRow, Columns
  <2> QED
    BY <2>1, <2>2 DEF Changes
<1>6. CASE x \notin DOMAIN db[t]
  <2>1. row = new
    BY <1>3, <1>6 DEF Written
  <2> QED
    BY <1>5, <1>6, <2>1
<1>7. CASE x \in DOMAIN db[t]
  <2>1. CASE p[2].do = "fill"
    <3>1. row = db[t][x] /\ db[t][x] \in TableRow
      BY <1>3, <1>7, <2>1 DEF Written, RowsFit, RowFits
    <3> QED
      BY <1>7, <2>1, <3>1 DEF TableRow, Columns
  <2>2. CASE p[2].do # "fill"
    <3>1. row = [c \in DOMAIN new |-> IF c \in p[2].columns THEN new[c] ELSE db[t][x][c]]
      BY <1>3, <1>7, <2>2 DEF Written
    <3>2. DOMAIN new = Columns
      BY <1>5
    <3>3. \A c \in p[2].columns : ~(p[2].do # "update" /\ c \in Later(t))
      BY ChangesDo DEF Changes, Makes
    <3> QED
      BY <1>5, <1>7, <2>2, <3>1, <3>2, <3>3
  <2> QED
    BY <2>1, <2>2
<1> QED
  BY <1>6, <1>7

LEMMA WrittenFits ==
  ASSUME RowsFit(db), RowsFit(file), NEW t \in AllTables, NEW p, Changes(p, t),
         NEW x \in DOMAIN p[2].rows, NEW row, row = Written(p[2], x)
  PROVE  RowFits(t, x, row)
<1>1. x \in DOMAIN file[t] /\ RowFits(t, x, file[t][x])
  BY ChangesDo, NatRows
<1>2. row = [c \in Columns |-> row[c]]
  BY WrittenIs
<1>3. row = [parent |-> row.parent, in |-> row.in, of |-> row.of]
  BY <1>2 DEF Columns
<1>4. "of" \notin p[2].columns /\ "of" \notin Later(t)
  BY ChangesDo, LaterColumns
<1>5. CASE x \notin DOMAIN db[t]
  <2>1. \A c \in Columns :
          row[c] = IF p[2].do # "update" /\ c \in Later(t) THEN {} ELSE file[t][x][c]
    BY <1>5, WrittenIs
  <2>2. row.of = file[t][x].of /\ row.in \subseteq file[t][x].in /\ row.parent \subseteq file[t][x].parent
    BY <1>4, <2>1 DEF Columns
  <2> QED
    BY <1>1, <1>3, <2>2, FitsMixed
<1>6. CASE x \in DOMAIN db[t]
  <2>1. \A c \in Columns :
          row[c] = IF p[2].do # "fill" /\ c \in p[2].columns THEN file[t][x][c] ELSE db[t][x][c]
    BY <1>6, WrittenIs
  <2>2. /\ row.of = db[t][x].of /\ row.in \subseteq db[t][x].in \cup file[t][x].in
        /\ row.parent \subseteq db[t][x].parent \cup file[t][x].parent
    BY <1>4, <2>1 DEF Columns
  <2>3. RowFits(t, x, db[t][x])
    BY <1>6 DEF RowsFit
  <2> QED
    BY <1>1, <1>3, <2>2, <2>3, FitsMixed
<1> QED
  BY <1>5, <1>6

LEMMA WriteFits ==
  ASSUME RowsFit(db), RowsFit(file), NEW t \in AllTables, NEW p, Changes(p, t),
         NEW D, D = After(p[2])
  PROVE  RowsFit(D)
<1>1. p[2].do \in Writes /\ p[2].table = t /\ DOMAIN p[2].rows \subseteq DOMAIN file[t]
  BY ChangesDo
<1>2. WithRows(D, p[2], t)
  BY <1>1, AfterWrite
<1>3. TableFits(t, db[t]) /\ TableFits(t, file[t]) /\ \A u \in AllTables : TableFits(u, db[u])
  BY RowsFitTables
<1>4. IsFiniteSet(DOMAIN D[t])
  <2>1. IsFiniteSet(DOMAIN p[2].rows)
    BY <1>1, <1>3, FS_Subset DEF TableFits
  <2>2. IsFiniteSet(DOMAIN db[t] \cup DOMAIN p[2].rows)
    BY <1>3, <2>1, FS_Union DEF TableFits
  <2>3. DOMAIN D[t] = DOMAIN db[t] \cup DOMAIN p[2].rows
    BY <1>2 DEF WithRows
  <2> QED
    BY <2>2, <2>3, Zenon
<1>5. DOMAIN D[t] \subseteq Nat
  BY <1>1, <1>3, <1>2 DEF TableFits, WithRows
<1>6. \A x \in DOMAIN D[t] : RowFits(t, x, D[t][x])
  BY <1>3, <1>2, WrittenFits DEF TableFits, WithRows
<1>7. TableFits(t, D[t])
  BY <1>2, <1>4, <1>5, <1>6 DEF TableFits, WithRows
<1> QED
  BY <1>2, <1>3, <1>7, RowsFitTables DEF WithRows

(* Where the references of a fitting row lead. *)
LEMMA FitsRefs ==
  ASSUME NEW data, RowsFit(data), NEW t \in AllTables, NEW x \in DOMAIN data[t],
         NEW to \in PointsTo(data[t][x])
  PROVE  /\ to \in Refs /\ to[1] \in AllTables /\ to[2] \in Nat /\ to = <<to[1], to[2]>>
         /\ \/ to \in data[t][x].parent /\ to[1] = t /\ t \in Trees
            \/ to \in data[t][x].in /\ t \in Pointing(to[1])
            \/ to \in data[t][x].of /\ t \in Owned(to[1])
<1>1. RowFits(t, x, data[t][x])
  BY DEF RowsFit
<1>2. data[t][x] \in TableRow
  BY <1>1 DEF RowFits
<1>3. to \in Refs
  BY <1>2 DEF TableRow, PointsTo
<1> QED
  BY <1>1, <1>3 DEF RowFits, PointsTo, Refs

LEMMA WriteKeysLead ==
  ASSUME RowsFit(db), RowsFit(file), KeysLead(db), NEW t \in AllTables, NEW p, Changes(p, t),
         ~Refused(p[2]), NEW D, D = After(p[2])
  PROVE  KeysLead(D)
<1>1. p[2].do \in Writes /\ p[2].table = t
  BY ChangesDo
<1>2. WithRows(D, p[2], t)
  BY <1>1, AfterWrite
<1>3. RowsFit(D)
  BY WriteFits
<1> SUFFICES ASSUME NEW u \in AllTables, NEW x \in DOMAIN D[u], NEW to \in PointsTo(D[u][x])
             PROVE  to[2] \in DOMAIN D[to[1]]
  BY DEF KeysLead
<1>4. to[1] \in AllTables
  BY <1>3, FitsRefs
<1>5. to[2] \in DOMAIN db[to[1]]
  <2>1. CASE u = t /\ x \in DOMAIN p[2].rows
    BY <1>1, <1>2, <2>1 DEF Refused, WithRows
  <2>2. CASE ~(u = t /\ x \in DOMAIN p[2].rows)
    <3>1. x \in DOMAIN db[u] /\ D[u][x] = db[u][x]
      BY <1>2, <2>2 DEF WithRows
    <3> QED
      BY <3>1 DEF KeysLead
  <2> QED
    BY <2>1, <2>2
<1> QED
  BY <1>2, <1>4, <1>5 DEF WithRows

-----------------------------------------------------------------------------
(* The rows that are there are the rows of the file, those columns perhaps *)
(* empty, or in part, that a second pass brings.                           *)
Alike(t, one, all) ==
  \A c \in Columns : one[c] \subseteq all[c] /\ (c \notin Later(t) => one[c] = all[c])
AlikeRows(t, some, rows) ==
  DOMAIN some \subseteq DOMAIN rows /\ \A x \in DOMAIN some : Alike(t, some[x], rows[x])
Matches(data, all) == \A t \in AllTables : AlikeRows(t, data[t], all[t])

LEMMA WriteMatches ==
  ASSUME RowsFit(db), RowsFit(file), Matches(db, file), NEW t \in AllTables, NEW p, Changes(p, t),
         NEW D, D = After(p[2])
  PROVE  Matches(D, file)
<1>1. p[2].do \in Writes /\ p[2].table = t /\ DOMAIN p[2].rows \subseteq DOMAIN file[t]
  BY ChangesDo
<1>2. WithRows(D, p[2], t)
  BY <1>1, AfterWrite
<1>3. ASSUME NEW x \in DOMAIN p[2].rows
      PROVE  Alike(t, Written(p[2], x), file[t][x])
  <2> DEFINE row == Written(p[2], x)
  <2>1. x \notin DOMAIN db[t] =>
          \A c \in Columns :
            row[c] = IF p[2].do # "update" /\ c \in Later(t) THEN {} ELSE file[t][x][c]
    BY WrittenIs
  <2>2. x \in DOMAIN db[t] =>
          \A c \in Columns :
            row[c] = IF p[2].do # "fill" /\ c \in p[2].columns THEN file[t][x][c] ELSE db[t][x][c]
    BY WrittenIs
  <2>3. x \in DOMAIN db[t] => Alike(t, db[t][x], file[t][x])
    BY DEF Matches, AlikeRows
  <2> HIDE DEF row
  <2>4. Alike(t, row, file[t][x])
    BY <2>1, <2>2, <2>3 DEF Alike
  <2> QED
    BY <2>4 DEF row
<1>4. AlikeRows(t, D[t], file[t])
  BY <1>1, <1>2, <1>3 DEF Matches, AlikeRows, WithRows
<1> QED
  BY <1>2, <1>4 DEF Matches, WithRows

(* What a command has brought, it has brought for good.                    *)
Brought(data, p, t) ==
  /\ DOMAIN p[2].rows \subseteq DOMAIN data[t]
  /\ Updates(p, t) =>
       \A x \in DOMAIN p[2].rows : \A c \in Later(t) : data[t][x][c] = file[t][x][c]

LEMMA WriteBrings ==
  ASSUME RowsFit(db), RowsFit(file), NEW t \in AllTables, NEW p, Changes(p, t), NEW D, D = After(p[2])
  PROVE  Brought(D, p, t)
<1>1. p[2].do \in Writes /\ p[2].table = t
  BY ChangesDo
<1>2. WithRows(D, p[2], t)
  BY <1>1, AfterWrite
<1>3. ASSUME Updates(p, t), NEW x \in DOMAIN p[2].rows, NEW c \in Later(t)
      PROVE  D[t][x][c] = file[t][x][c]
  <2> DEFINE row == Written(p[2], x)
  <2>1. x \notin DOMAIN db[t] =>
          \A d \in Columns :
            row[d] = IF p[2].do # "update" /\ d \in Later(t) THEN {} ELSE file[t][x][d]
    BY WrittenIs
  <2>2. x \in DOMAIN db[t] =>
          \A d \in Columns :
            row[d] = IF p[2].do # "fill" /\ d \in p[2].columns THEN file[t][x][d] ELSE db[t][x][d]
    BY WrittenIs
  <2>3. p[2].do = "update" /\ p[2].columns = Later(t) /\ c \in Columns
    BY <1>3, ChangesDo, LaterColumns DEF Columns
  <2> HIDE DEF row
  <2>4. row[c] = file[t][x][c]
    BY <2>1, <2>2, <2>3
  <2> QED
    BY <1>2, <2>4 DEF row, WithRows
<1> QED
  BY <1>2, <1>3 DEF Brought, WithRows

LEMMA WriteKeepsBrought ==
  ASSUME RowsFit(db), RowsFit(file), NEW t \in AllTables, NEW p, Changes(p, t), NEW D, D = After(p[2]),
         NEW u \in AllTables, NEW q, Changes(q, u), Brought(db, q, u)
  PROVE  Brought(D, q, u)
<1>1. p[2].do \in Writes /\ p[2].table = t
  BY ChangesDo
<1>2. WithRows(D, p[2], t)
  BY <1>1, AfterWrite
<1>3. DOMAIN db[u] \subseteq DOMAIN D[u]
  BY <1>2 DEF WithRows
<1>4. ASSUME Updates(q, u), NEW x \in DOMAIN q[2].rows, NEW c \in Later(u)
      PROVE  D[u][x][c] = file[u][x][c]
  <2>1. x \in DOMAIN db[u] /\ db[u][x][c] = file[u][x][c]
    BY <1>4 DEF Brought
  <2>2. CASE u = t /\ x \in DOMAIN p[2].rows
    <3> DEFINE row == Written(p[2], x)
    <3>1. c \in Columns
      BY LaterColumns DEF Columns
    <3>2. \A d \in Columns :
            row[d] = IF p[2].do # "fill" /\ d \in p[2].columns THEN file[t][x][d] ELSE db[t][x][d]
      BY <2>1, <2>2, WrittenIs
    <3>3. row[c] = file[t][x][c]
      BY <2>1, <2>2, <3>1, <3>2
    <3> QED
      BY <1>2, <2>2, <3>3 DEF WithRows
  <2>3. CASE ~(u = t /\ x \in DOMAIN p[2].rows)
    BY <1>2, <2>1, <2>3 DEF WithRows
  <2> QED
    BY <2>2, <2>3
<1> QED
  BY <1>3, <1>4 DEF Brought

-----------------------------------------------------------------------------
(* What a deletion leaves *)

(* Nothing points to the rows of such a table. *)
Leaf(u) == Owned(u) = {} /\ Pointing(u) = {} /\ u \notin Trees

LEMMA WipeKeysLead ==
  ASSUME RowsFit(db), KeysLead(db), NEW t \in AllTables, NEW ids, NEW D, D = Deleted(t, ids),
         \A u \in Owned(t) : u \in AllTables => Leaf(u) \/ DOMAIN db[u] = {}
  PROVE  KeysLead(D)
<1>1. DOMAIN D = AllTables /\ \A u \in AllTables : DeletedFrom(t, ids, D, u)
  BY DeletedIs
<1> SUFFICES ASSUME NEW u \in AllTables, NEW y \in DOMAIN D[u], NEW to \in PointsTo(D[u][y])
             PROVE  to[2] \in DOMAIN D[to[1]]
  BY DEF KeysLead
<1>2. /\ y \in DOMAIN db[u]
      /\ \A x \in ids : <<t, x>> \notin db[u][y].of
      /\ D[u][y].parent = Cleared(t, ids, db[u][y].parent) /\ D[u][y].in = Cleared(t, ids, db[u][y].in)
      /\ D[u][y].of = db[u][y].of
  <2> DEFINE A == Cleared(t, ids, db[u][y].parent)
             B == Cleared(t, ids, db[u][y].in)
             C == db[u][y].of
  <2>1. DOMAIN D[u] = Spared(t, ids, u)
    BY <1>1 DEF DeletedFrom
  <2>2. y \in DOMAIN db[u] /\ \A x \in ids : <<t, x>> \notin db[u][y].of
    BY <2>1 DEF Spared
  <2>3. D[u][y] = [parent |-> A, in |-> B, of |-> C]
    BY <1>1 DEF DeletedFrom
  <2> HIDE DEF A, B, C
  <2>4. D[u][y].parent = A /\ D[u][y].in = B /\ D[u][y].of = C
    BY <2>3
  <2> QED
    BY <2>2, <2>4 DEF A, B, C
<1>3. to \in PointsTo(db[u][y]) /\ \A x \in ids : to # <<t, x>>
  BY <1>2 DEF PointsTo, Cleared
<1>4. /\ to[1] \in AllTables /\ to = <<to[1], to[2]>>
      /\ u \in Owned(to[1]) \/ u \in Pointing(to[1]) \/ (to[1] = u /\ u \in Trees)
  BY <1>2, <1>3, FitsRefs
<1>5. to[2] \in DOMAIN db[to[1]]
  BY <1>2, <1>3 DEF KeysLead
<1>6. ~Leaf(to[1])
  BY <1>4 DEF Leaf
<1>7. ASSUME NEW x \in ids
      PROVE  <<t, x>> \notin db[to[1]][to[2]].of
  <2> SUFFICES ASSUME <<t, x>> \in db[to[1]][to[2]].of
               PROVE  FALSE
    OBVIOUS
  <2>1. RowFits(to[1], to[2], db[to[1]][to[2]])
    BY <1>4, <1>5 DEF RowsFit
  <2>2. to[1] \in Owned(t)
    BY <2>1 DEF RowFits
  <2> QED
    BY <1>4, <1>5, <1>6, <2>2
<1>8. ~(to[1] = t /\ to[2] \in ids)
  BY <1>3, <1>4
<1>9. to[2] \in Spared(t, ids, to[1])
  BY <1>5, <1>7, <1>8 DEF Spared
<1>10. DOMAIN D[to[1]] = Spared(t, ids, to[1])
  BY <1>1, <1>4 DEF DeletedFrom
<1> QED
  BY <1>9, <1>10

LEMMA WipeMatches ==
  ASSUME RowsFit(db), NEW all, Matches(db, all), NEW t \in AllTables, NEW ids,
         NEW D, D = Deleted(t, ids),
         \A v \in Pointing(t) : v \in AllTables => "in" \in Later(v) \/ DOMAIN db[v] = {},
         t \in Trees => DOMAIN db[t] \subseteq ids
  PROVE  Matches(D, all)
<1> SUFFICES ASSUME NEW u \in AllTables
             PROVE  AlikeRows(u, D[u], all[u])
  BY DEF Matches
<1>1. DeletedFrom(t, ids, D, u) /\ Shrunk(db[u], D[u])
  BY DeletedIs, DeletedShrinks
<1>2. AlikeRows(u, db[u], all[u])
  BY DEF Matches
<1>3. DOMAIN D[u] \subseteq DOMAIN db[u]
  BY <1>1 DEF Shrunk
<1>4. ASSUME NEW y \in DOMAIN D[u]
      PROVE  Alike(u, D[u][y], all[u][y])
  <2>1. /\ D[u][y].of = db[u][y].of
        /\ D[u][y].in \subseteq db[u][y].in /\ D[u][y].parent \subseteq db[u][y].parent
    BY <1>1 DEF Shrunk
  <2>2. Alike(u, db[u][y], all[u][y])
    BY <1>2, <1>3 DEF AlikeRows
  <2> DEFINE A == Cleared(t, ids, db[u][y].parent)
             B == Cleared(t, ids, db[u][y].in)
             C == db[u][y].of
  <2>3. D[u][y] = [parent |-> A, in |-> B, of |-> C]
    BY <1>1 DEF DeletedFrom
  <2>4. RowFits(u, y, db[u][y])
    BY <1>3 DEF RowsFit
  <2>5. "in" \notin Later(u) => B = db[u][y].in
    <3>1. "in" \notin Later(u) => u \notin Pointing(t)
      BY <1>3
    <3> QED
      BY <2>4, <3>1 DEF RowFits, Cleared
  <2>6. A = db[u][y].parent
    <3>1. u = t => t \notin Trees
      BY <1>1, <1>3 DEF DeletedFrom, Spared
    <3> QED
      BY <2>4, <3>1 DEF RowFits, Cleared
  <2> HIDE DEF A, B, C
  <2>7. D[u][y].parent = A /\ D[u][y].in = B
    BY <2>3
  <2>8. /\ D[u][y].parent = db[u][y].parent
        /\ "in" \notin Later(u) => D[u][y].in = db[u][y].in
    BY <2>5, <2>6, <2>7
  <2> QED
    BY <2>1, <2>2, <2>8 DEF Alike, Columns
<1> QED
  BY <1>2, <1>3, <1>4 DEF AlikeRows

(* The order of db-truncate.ts: what points to a table is emptied before.  *)
LEMMA ChildrenFirst ==
  ASSUME NEW n \in 1 .. 40
  PROVE  /\ \A u \in Owned(TruncateOrder[n]) :
              \/ Leaf(u)
              \/ u # "post_categories" /\ \E m \in 1 .. 40 : m < n /\ TruncateOrder[m] = u
         /\ \A v \in Pointing(TruncateOrder[n]) :
              \/ "in" \in Later(v)
              \/ v # "post_categories" /\ \E m \in 1 .. 40 : m < n /\ TruncateOrder[m] = v
<1> DEFINE turn(t) ==
      CASE t = "audit_logs" -> 1 [] t = "activity_logs" -> 2 [] t = "operator_messages" -> 3
        [] t = "operator_threads" -> 4 [] t = "chat_messages" -> 5 [] t = "chat_sessions" -> 6
        [] t = "canned_responses" -> 7 [] t = "user_notification_states" -> 8
        [] t = "notifications" -> 9 [] t = "setting_localized_contents" -> 10
        [] t = "setting_global_contents" -> 11 [] t = "settings" -> 12 [] t = "page_versions" -> 13
        [] t = "post_versions" -> 14 [] t = "page_content_blocks" -> 15
        [] t = "post_content_blocks" -> 16 [] t = "page_translations" -> 17
        [] t = "post_translations" -> 18 [] t = "page_template_translations" -> 19
        [] t = "post_category_translations" -> 20 [] t = "menu_item_translations" -> 21
        [] t = "page_slug_aliases" -> 22 [] t = "post_slug_aliases" -> 23
        [] t = "post_category_posts" -> 24 [] t = "user_permissions" -> 25 [] t = "user_roles" -> 26
        [] t = "role_permissions" -> 27 [] t = "menu_items" -> 28 [] t = "menus" -> 29
        [] t = "post_categories" -> 30 [] t = "posts" -> 31 [] t = "pages" -> 32
        [] t = "page_templates" -> 33 [] t = "block_type_definitions" -> 34 [] t = "media" -> 35
        [] t = "media_folders" -> 36 [] t = "permissions" -> 37 [] t = "roles" -> 38
        [] t = "users" -> 39 [] t = "languages" -> 40
           emptied == {TruncateOrder[m] : m \in 1 .. 40}
<1>1. /\ TruncateOrder[1] = "audit_logs" /\ TruncateOrder[2] = "activity_logs"
      /\ TruncateOrder[3] = "operator_messages" /\ TruncateOrder[4] = "operator_threads"
      /\ TruncateOrder[5] = "chat_messages" /\ TruncateOrder[6] = "chat_sessions"
      /\ TruncateOrder[7] = "canned_responses" /\ TruncateOrder[8] = "user_notification_states"
      /\ TruncateOrder[9] = "notifications" /\ TruncateOrder[10] = "setting_localized_contents"
      /\ TruncateOrder[11] = "setting_global_contents" /\ TruncateOrder[12] = "settings"
      /\ TruncateOrder[13] = "page_versions" /\ TruncateOrder[14] = "post_versions"
      /\ TruncateOrder[15] = "page_content_blocks" /\ TruncateOrder[16] = "post_content_blocks"
      /\ TruncateOrder[17] = "page_translations" /\ TruncateOrder[18] = "post_translations"
      /\ TruncateOrder[19] = "page_template_translations"
      /\ TruncateOrder[20] = "post_category_translations"
      /\ TruncateOrder[21] = "menu_item_translations" /\ TruncateOrder[22] = "page_slug_aliases"
      /\ TruncateOrder[23] = "post_slug_aliases" /\ TruncateOrder[24] = "post_category_posts"
      /\ TruncateOrder[25] = "user_permissions" /\ TruncateOrder[26] = "user_roles"
      /\ TruncateOrder[27] = "role_permissions" /\ TruncateOrder[28] = "menu_items"
      /\ TruncateOrder[29] = "menus" /\ TruncateOrder[30] = "post_categories"
      /\ TruncateOrder[31] = "posts" /\ TruncateOrder[32] = "pages"
      /\ TruncateOrder[33] = "page_templates" /\ TruncateOrder[34] = "block_type_definitions"
      /\ TruncateOrder[35] = "media" /\ TruncateOrder[36] = "media_folders"
      /\ TruncateOrder[37] = "permissions" /\ TruncateOrder[38] = "roles"
      /\ TruncateOrder[39] = "users" /\ TruncateOrder[40] = "languages"
  BY DEF TruncateOrder
<1>2. /\ turn("audit_logs") = 1 /\ turn("activity_logs") = 2 /\ turn("operator_messages") = 3
      /\ turn("operator_threads") = 4 /\ turn("chat_messages") = 5 /\ turn("chat_sessions") = 6
      /\ turn("canned_responses") = 7 /\ turn("user_notification_states") = 8
      /\ turn("notifications") = 9 /\ turn("setting_localized_contents") = 10
      /\ turn("setting_global_contents") = 11 /\ turn("settings") = 12 /\ turn("page_versions") = 13
      /\ turn("post_versions") = 14 /\ turn("page_content_blocks") = 15
      /\ turn("post_content_blocks") = 16 /\ turn("page_translations") = 17
      /\ turn("post_translations") = 18 /\ turn("page_template_translations") = 19
      /\ turn("post_category_translations") = 20 /\ turn("menu_item_translations") = 21
      /\ turn("page_slug_aliases") = 22 /\ turn("post_slug_aliases") = 23
      /\ turn("post_category_posts") = 24 /\ turn("user_permissions") = 25
      /\ turn("user_roles") = 26 /\ turn("role_permissions") = 27 /\ turn("menu_items") = 28
      /\ turn("menus") = 29 /\ turn("post_categories") = 30 /\ turn("posts") = 31
      /\ turn("pages") = 32 /\ turn("page_templates") = 33 /\ turn("block_type_definitions") = 34
      /\ turn("media") = 35 /\ turn("media_folders") = 36 /\ turn("permissions") = 37
      /\ turn("roles") = 38 /\ turn("users") = 39 /\ turn("languages") = 40
  OBVIOUS
<1>3. \A t \in emptied : \A u \in Owned(t) :
        \/ Leaf(u)
        \/ u \in emptied /\ u # "post_categories" /\ turn(u) < turn(t)
  BY DEF TruncateOrder, Owned, Leaf, Pointing, Trees
<1>4. \A t \in emptied : \A v \in Pointing(t) :
        \/ "in" \in Later(v)
        \/ v \in emptied /\ v # "post_categories" /\ turn(v) < turn(t)
  BY DEF TruncateOrder, Pointing, Later
<1> HIDE DEF turn
<1>5. \A m \in 1 .. 40 : turn(TruncateOrder[m]) = m
  BY <1>1, <1>2
<1>6. \A t \in emptied : turn(t) \in 1 .. 40 /\ TruncateOrder[turn(t)] = t
  BY <1>5
<1>7. TruncateOrder[n] \in emptied
  OBVIOUS
<1> HIDE DEF emptied
<1> QED
  BY <1>6, <1>3, <1>4, <1>5, <1>7

-----------------------------------------------------------------------------
(* Invariants of the scripts.  First of all: tables of rows as the columns *)
(* allow them, and scripts as far as they have come.                       *)
RestoreTypeInv ==
  /\ RowsFit(db) /\ KeysLead(db)
  /\ DOMAIN serial = Numbers /\ \A t \in Numbers : serial[t] \in Nat
  /\ file # None => RowsFit(file)
  /\ before # None => RowsFit(before) /\ KeysLead(before)
  /\ script = [run |-> script.run, todo |-> script.todo, data |-> script.data]
  /\ script.run \in Scripts \cup {None, "export"}
  /\ script.run = "export" =>
       RowsFit(script.data) /\ script.todo \subseteq Reads /\ finished = {}
  /\ script.run \in Scripts => file # None
  /\ finished \subseteq Restoring /\ script.run \notin finished
  /\ finished # {} => file # None
  /\ script.run = "clean" => finished = {}
  /\ script.run \in {"seed chat", "seed chats"} => "seed" \in finished

(* What a script has done comes before what it has still to do. *)
TodoInv ==
  \A name \in Scripts : script.run = name =>
    /\ script.todo \subseteq CommandsOf(name)
    /\ \A p \in CommandsOf(name) \ script.todo : \A q \in script.todo : Before(p[1], q[1])

(* The tables that have been emptied are empty, but for new categories.    *)
CleanInv ==
  script.run = "clean" =>
    \A n \in 1 .. 40 :
      TruncateOrder[n] # "post_categories" /\ Wipe(1, n, TruncateOrder[n]) \notin script.todo
        => DOMAIN db[TruncateOrder[n]] = {}

(* The script name comes to its command p, which is refused or not. *)
Takes(name, p) ==
  /\ script.run = name /\ p \in script.todo /\ p \in CommandsOf(name)
  /\ \A q \in script.todo : q = p \/ Before(p[1], q[1])
  /\ \A q \in CommandsOf(name) : Before(q[1], p[1]) => q \notin script.todo
Stops(p) ==
  /\ Refused(p[2]) /\ p[2].do # "connect"
  /\ script' = [Idle EXCEPT !.todo = {p}] /\ db' = db /\ serial' = serial
Passes(p) ==
  /\ script' = [script EXCEPT !.todo = @ \ {p}]
  /\ Refused(p[2]) /\ p[2].do = "connect" /\ db' = db /\ serial' = serial
Does(p) ==
  /\ script' = [script EXCEPT !.todo = @ \ {p}]
  /\ ~Refused(p[2]) /\ db' = After(p[2]) /\ serial' = Numbered(p[2])

LEMMA ScriptFile ==
  ASSUME RestoreTypeInv, NEW name \in Scripts, script.run = name
  PROVE  RowsFit(file)
BY DEF RestoreTypeInv

LEMMA NextCommand ==
  ASSUME RestoreTypeInv, TodoInv, Proceed
  PROVE  /\ UNCHANGED <<file, finished, spent, before>>
         /\ \E name \in Scripts : \E p \in CommandsOf(name) :
              Takes(name, p) /\ (Stops(p) \/ Passes(p) \/ Does(p))
<1>1. script.run \in Scripts
  BY DEF RestoreTypeInv, Proceed
<1>2. PICK p \in script.todo :
        /\ IsNext(p)
        /\ IF Refused(p[2]) /\ p[2].do # "connect"
           THEN script' = [Idle EXCEPT !.todo = {p}] /\ UNCHANGED <<db, serial>>
           ELSE /\ script' = [script EXCEPT !.todo = @ \ {p}]
                /\ IF Refused(p[2]) THEN UNCHANGED <<db, serial>>
                   ELSE db' = After(p[2]) /\ serial' = Numbered(p[2])
  BY DEF Proceed
<1> DEFINE name == script.run
<1>3. p \in CommandsOf(name) /\ \A q \in script.todo : q \in CommandsOf(name)
  BY <1>1 DEF TodoInv
<1>4. RowsFit(file)
  BY <1>1, ScriptFile
<1>5. p[1] \in Place
  BY <1>1, <1>3, <1>4, CommandForm
<1>6. \A q \in script.todo : q = p \/ Before(p[1], q[1])
  BY <1>2 DEF IsNext
<1>7. \A q \in CommandsOf(name) : Before(q[1], p[1]) => q \notin script.todo
  <2> SUFFICES ASSUME NEW q \in script.todo, Before(q[1], p[1]) PROVE FALSE
    OBVIOUS
  <2>1. q[1] \in Place
    BY <1>1, <1>3, <1>4, CommandForm
  <2>2. ~Before(p[1], q[1]) /\ q[1] # p[1]
    BY <1>5, <2>1, BeforeOneWay
  <2> QED
    BY <1>6, <2>2
<1>8. Takes(name, p)
  BY <1>3, <1>6, <1>7 DEF Takes
<1>9. Stops(p) \/ Passes(p) \/ Does(p)
  <2> HIDE DEF name
  <2> QED
    BY <1>2 DEF Stops, Passes, Does
<1>10. UNCHANGED <<file, finished, spent, before>>
  BY DEF Proceed
<1> QED
  BY <1>1, <1>3, <1>8, <1>9, <1>10

LEMMA WipeForm ==
  ASSUME RowsFit(file), NEW name \in Scripts, NEW p \in CommandsOf(name), Wipes(p)
  PROVE  \/ name = "seed" /\ Grants(p)
         \/ name = "seed" /\ \E b \in BlockTables : Cuts(p, b)
         \/ name = "clean" /\ \E n \in 1 .. 40 : p = Wipe(1, n, TruncateOrder[n])
<1>1. p[2].do \in {"wipe", "wipe under"}
  BY DEF Wipes
<1>2. \A t : ~Makes(p, t) /\ ~Updates(p, t)
  BY <1>1 DEF Makes, Updates
<1>3. CASE name = "seed"
  <2>1. SeedKind(p)
    BY <1>3, SeedKinds DEF CommandsOf
  <2>2. p \notin ResetSequences
    BY <1>1, ResetKinds DEF Counts
  <2> QED
    BY <1>2, <1>3, <2>1, <2>2 DEF SeedKind, Orderly
<1>4. CASE name = "clean"
  <2>1. p \in Truncate
    BY <1>4 DEF CommandsOf
  <2> QED
    BY <1>1, <1>4, <2>1, TruncateKinds DEF Counts
<1>5. CASE name \in {"seed chat", "seed chats"}
  BY <1>1, <1>2, <1>5, CommandForm DEF Counts
<1> QED
  BY <1>3, <1>4, <1>5 DEF Scripts

(* Rows of t can go: their kind is not pointed to, or what points is gone. *)
Clears(t, ids) ==
  /\ t \in AllTables
  /\ \A u \in Owned(t) : u \in AllTables => Leaf(u) \/ DOMAIN db[u] = {}
  /\ \A v \in Pointing(t) : v \in AllTables => "in" \in Later(v) \/ DOMAIN db[v] = {}
  /\ t \in Trees => DOMAIN db[t] \subseteq ids

LEMMA LeafTables ==
  /\ \A t \in {"user_permissions", "role_permissions"} \cup BlockTables : Leaf(t)
  /\ \A t \in {"user_permissions", "role_permissions", "permissions"} \cup BlockTables :
       Pointing(t) = {} /\ t \notin Trees /\ \A u \in Owned(t) : Leaf(u)
BY DEF Leaf, Owned, Pointing, Trees, BlockTables

LEMMA WipesInTurn ==
  ASSUME NEW m \in Int, NEW n \in Int, m < n, NEW t, NEW u
  PROVE  Before(Wipe(1, m, t)[1], Wipe(1, n, u)[1])
BY DEF Before, Wipe

LEMMA WipeClears ==
  ASSUME RestoreTypeInv, CleanInv, NEW name \in Scripts, NEW p, Takes(name, p), Wipes(p)
  PROVE  LET t == p[2].table IN
         \/ Clears(t, DOMAIN db[t]) /\ After(p[2]) = Deleted(t, DOMAIN db[t])
         \/ Clears(t, WipedUnder(p[2])) /\ After(p[2]) = Deleted(t, WipedUnder(p[2]))
<1> DEFINE t == p[2].table
<1>1. RowsFit(file) /\ p \in CommandsOf(name)
  BY ScriptFile DEF Takes
<1>2. t \in AllTables
  BY DEF Wipes
<1>3. CASE name = "seed" /\ Grants(p)
  <2>1. t \in {"user_permissions", "role_permissions", "permissions"} /\ p[2].do = "wipe"
    BY <1>3, GrantKinds
  <2>2. Clears(t, DOMAIN db[t])
    BY <1>2, <2>1, LeafTables DEF Clears
  <2>3. After(p[2]) = Deleted(t, DOMAIN db[t])
    BY <2>1, AfterIs
  <2> QED
    BY <2>2, <2>3
<1>4. CASE name = "seed" /\ \E b \in BlockTables : Cuts(p, b)
  <2>1. t \in BlockTables /\ p[2].do = "wipe under"
    BY <1>4, CutKinds
  <2>2. Clears(t, WipedUnder(p[2]))
    BY <1>2, <2>1, LeafTables DEF Clears
  <2>3. After(p[2]) = Deleted(t, WipedUnder(p[2]))
    BY <2>1, AfterIs
  <2> QED
    BY <2>2, <2>3
<1>5. CASE name = "clean" /\ \E n \in 1 .. 40 : p = Wipe(1, n, TruncateOrder[n])
  <2>1. PICK n \in 1 .. 40 : p = Wipe(1, n, TruncateOrder[n])
    BY <1>5
  <2>2. t = TruncateOrder[n] /\ p[2].do = "wipe" /\ p[1] = <<1, n, 0, 0, 0>>
    BY <2>1 DEF Wipe, Command
  <2>3. \A m \in 1 .. 40 : m < n /\ TruncateOrder[m] # "post_categories" => DOMAIN db[TruncateOrder[m]] = {}
    <3> SUFFICES ASSUME NEW m \in 1 .. 40, m < n, TruncateOrder[m] # "post_categories"
                 PROVE  DOMAIN db[TruncateOrder[m]] = {}
      OBVIOUS
    <3>1. Before(Wipe(1, m, TruncateOrder[m])[1], p[1])
      BY <2>1, WipesInTurn
    <3>2. Wipe(1, m, TruncateOrder[m]) \in CommandsOf(name)
      BY <1>5, TruncatedAre DEF CommandsOf, Truncate
    <3>3. Wipe(1, m, TruncateOrder[m]) \notin script.todo
      BY <3>1, <3>2 DEF Takes
    <3>4. script.run = "clean"
      BY <1>5 DEF Takes
    <3> QED
      BY <3>3, <3>4 DEF CleanInv
  <2>4. Clears(t, DOMAIN db[t])
    <3>1. \A u \in Owned(t) : Leaf(u) \/ DOMAIN db[u] = {}
      BY <2>2, <2>3, ChildrenFirst
    <3>2. \A v \in Pointing(t) : "in" \in Later(v) \/ DOMAIN db[v] = {}
      BY <2>2, <2>3, ChildrenFirst
    <3> QED
      BY <1>2, <3>1, <3>2 DEF Clears
  <2>5. After(p[2]) = Deleted(t, DOMAIN db[t])
    BY <2>2, AfterIs
  <2> QED
    BY <2>4, <2>5
<1> QED
  BY <1>1, <1>3, <1>4, <1>5, WipeForm

-----------------------------------------------------------------------------
(* The numbers that the sequences hand out *)
LEMMA LeastOf ==
  ASSUME NEW S \in SUBSET Nat, S # {}
  PROVE  \E m \in S : \A n \in S : m <= n
<1> DEFINE R == OpToRel(<, Nat)
<1>1. IsWellFoundedOn(R, Nat)
  BY NatLessThanWellFounded
<1>2. \A x, y \in Nat : y < x => <<y, x>> \in R
  BY DEF OpToRel
<1> HIDE DEF R
<1>3. PICK x \in S : \A y \in S : ~ (<<y, x>> \in R)
  BY <1>1, WFMin
<1>4. \A y \in S : x <= y
  <2> TAKE y \in S
  <2>1. x \in Nat /\ y \in Nat /\ ~(y < x)
    BY <1>2, <1>3
  <2> QED
    BY <2>1
<1> QED
  BY <1>4

(* A finite set of numbers has a greatest, above which it has fewest. *)
LEMMA GreatestIn ==
  ASSUME NEW S \in SUBSET Nat, IsFiniteSet(S), S # {}
  PROVE  Greatest(S) \in S /\ \A y \in S : y <= Greatest(S)
<1> DEFINE above(x) == {y \in S : x < y}
           sizes == {Cardinality(above(x)) : x \in S}
<1>1. \A x \in S : above(x) \subseteq S /\ IsFiniteSet(above(x)) /\ Cardinality(above(x)) \in Nat
  BY FS_Subset, FS_CardinalityType
<1>2. sizes \in SUBSET Nat /\ sizes # {}
  BY <1>1
<1>3. PICK m \in sizes : \A n \in sizes : m <= n
  BY <1>2, LeastOf
<1>4. PICK x \in S : m = Cardinality(above(x))
  OBVIOUS
<1>5. \A y \in S : y <= x
  <2> SUFFICES ASSUME NEW y \in S, ~(y <= x) PROVE FALSE
    OBVIOUS
  <2>1. x \in Nat /\ y \in Nat /\ x < y /\ \A z \in S : z \in Nat
    OBVIOUS
  <2>2. y \in above(x) /\ y \notin above(y) /\ above(y) \in SUBSET above(x)
    <3>1. \A z \in S : y < z => x < z
      BY <2>1
    <3>2. above(y) \subseteq above(x)
      BY <3>1
    <3>3. y \in above(x)
      BY <2>1
    <3>4. y \notin above(y)
      BY <2>1
    <3> QED
      BY <3>2, <3>3, <3>4
  <2>3. IsFiniteSet(above(x)) /\ Cardinality(above(x)) \in Nat /\ Cardinality(above(y)) \in Nat
    BY <1>1
  <2>4. Cardinality(above(y)) \in sizes
    OBVIOUS
  <2> HIDE DEF above, sizes
  <2>5. /\ Cardinality(above(y)) <= Cardinality(above(x))
        /\ Cardinality(above(x)) = Cardinality(above(y)) => above(x) = above(y)
    BY <2>2, <2>3, FS_Subset
  <2>6. Cardinality(above(x)) <= Cardinality(above(y))
    BY <1>3, <1>4, <2>4
  <2>7. above(x) = above(y)
    BY <2>3, <2>5, <2>6
  <2> QED
    BY <2>2, <2>7
<1> QED
  BY <1>5 DEF Greatest

Fresh(t) == \A x \in DOMAIN db[t] : x < serial[t]

Renumbered(S, c) ==
  /\ c.do \notin {"setval first", "setval max"} => S = serial
  /\ c.do = "setval max" =>
       /\ \A t \in Numbers \ {c.table} : S[t] = serial[t]
       /\ c.table \in Numbers => \A x \in DOMAIN db[c.table] : x < S[c.table]

LEMMA NumberedIs ==
  ASSUME RowsFit(db), DOMAIN serial = Numbers, \A t \in Numbers : serial[t] \in Nat,
         NEW c, NEW S, S = Numbered(c)
  PROVE  /\ DOMAIN S = Numbers /\ \A t \in Numbers : S[t] \in Nat
         /\ Renumbered(S, c)
<1> DEFINE ids == DOMAIN db[c.table]
           next == IF ids = {} THEN 2 ELSE Greatest(ids) + 1
<1>1. CASE c.do = "setval first"
  <2>1. S = [serial EXCEPT ![c.table] = 1]
    BY <1>1 DEF Numbered
  <2>2. DOMAIN S = Numbers /\ \A t \in Numbers : S[t] = 1 \/ S[t] = serial[t]
    BY <2>1
  <2>3. \A t \in Numbers : S[t] \in Nat
    BY <2>2
  <2> QED
    BY <1>1, <2>2, <2>3 DEF Renumbered
<1>2. CASE c.do = "setval max"
  <2>1. S = [serial EXCEPT ![c.table] = next]
    BY <1>2 DEF Numbered
  <2>2. c.table \in Numbers => next \in Nat /\ \A x \in ids : x < next
    <3> SUFFICES ASSUME c.table \in Numbers
                 PROVE  next \in Nat /\ \A x \in ids : x < next
      OBVIOUS
    <3>1. ids \in SUBSET Nat /\ IsFiniteSet(ids)
      BY NumbersAre DEF RowsFit
    <3> HIDE DEF ids
    <3>2. CASE ids = {}
      BY <3>2
    <3>3. CASE ids # {}
      <4>1. Greatest(ids) \in ids /\ \A y \in ids : y <= Greatest(ids)
        BY <3>1, <3>3, GreatestIn
      <4>2. next = Greatest(ids) + 1 /\ Greatest(ids) \in Nat
        BY <3>1, <3>3, <4>1
      <4> HIDE DEF next
      <4>3. \A x \in ids : x \in Nat /\ x <= Greatest(ids)
        BY <3>1, <4>1
      <4> QED
        BY <4>2, <4>3
    <3> QED
      BY <3>2, <3>3
  <2> HIDE DEF next
  <2>3. /\ DOMAIN S = Numbers /\ \A t \in Numbers \ {c.table} : S[t] = serial[t]
        /\ c.table \in Numbers => S[c.table] = next
    BY <2>1
  <2> QED
    BY <1>2, <2>2, <2>3 DEF Renumbered
<1>3. CASE c.do \notin {"setval first", "setval max"}
  <2>1. S = serial
    BY <1>3 DEF Numbered
  <2> QED
    BY <1>3, <2>1 DEF Renumbered
<1> QED
  BY <1>1, <1>2, <1>3

-----------------------------------------------------------------------------
(* The back office: a category is made, moved or removed. *)
Office ==
  \/ NewCategory
  \/ \E x \in DOMAIN db["post_categories"] :
       RemoveCategory(x) \/ \E to \in DOMAIN db["post_categories"] : MoveCategory(x, to)

LEMMA CategoryTable ==
  /\ "post_categories" \in AllTables /\ "post_categories" \in Trees /\ "post_categories" \in Numbers
  /\ "post_categories" \notin DOMAIN PartOf
  /\ \A u \in Owned("post_categories") : Leaf(u)
BY TablesAre DEF SeedTables, Trees, Numbers, SequenceTables, PartOf, Owned, Leaf, Pointing

(* One table is replaced. *)
LEMMA OneTableFits ==
  ASSUME RowsFit(db), NEW t \in AllTables, NEW D, DOMAIN D = AllTables, TableFits(t, D[t]),
         \A u \in AllTables \ {t} : D[u] = db[u]
  PROVE  RowsFit(D)
<1>1. \A u \in AllTables : TableFits(u, db[u])
  BY RowsFitTables
<1>2. \A u \in AllTables : TableFits(u, D[u])
  BY <1>1
<1> QED
  BY <1>2, RowsFitTables

LEMMA NewCategoryRow ==
  ASSUME NEW x, NEW row, row = [parent |-> {}, in |-> {}, of |-> {}]
  PROVE  RowFits("post_categories", x, row) /\ PointsTo(row) = {}
BY CategoryTable DEF RowFits, TableRow, PointsTo

LEMMA MadeCategory ==
  ASSUME RowsFit(db), KeysLead(db), NEW x \in Nat, NEW D,
         D = [db EXCEPT !["post_categories"] =
                Put(@, x, [parent |-> {}, in |-> {}, of |-> {}])]
  PROVE  /\ RowsFit(D) /\ KeysLead(D)
         /\ \A t \in AllTables \ {"post_categories"} : D[t] = db[t]
         /\ DOMAIN D["post_categories"] = DOMAIN db["post_categories"] \cup {x}
<1> DEFINE t == "post_categories"
           row == [parent |-> {}, in |-> {}, of |-> {}]
           rows == Put(db[t], x, row)
<1>1. D = [db EXCEPT !["post_categories"] = rows]
  OBVIOUS
<1>2. RowFits(t, x, row) /\ PointsTo(row) = {} /\ t \in AllTables
  BY NewCategoryRow, CategoryTable
<1>3. TableFits(t, db[t])
  BY <1>2, RowsFitTables
<1> HIDE DEF row
<1>4. /\ DOMAIN rows = DOMAIN db[t] \cup {x}
      /\ rows = [y \in DOMAIN rows |-> rows[y]]
      /\ rows[x] = row /\ \A y \in DOMAIN db[t] : y # x => rows[y] = db[t][y]
  BY DEF Put
<1> HIDE DEF rows
<1>5. TableFits(t, rows)
  <2>1. IsFiniteSet(DOMAIN db[t] \cup {x})
    BY <1>3, FS_AddElement DEF TableFits
  <2>2. IsFiniteSet(DOMAIN rows)
    BY <1>4, <2>1, Zenon
  <2>3. \A y \in DOMAIN rows : y \in Nat /\ RowFits(t, y, rows[y])
    BY <1>2, <1>3, <1>4 DEF TableFits
  <2> QED
    BY <1>4, <2>2, <2>3 DEF TableFits
<1>6. RowsFit(D) /\ D[t] = rows /\ \A u \in AllTables \ {t} : D[u] = db[u]
  <2>1. DOMAIN D = AllTables /\ D[t] = rows /\ \A u \in AllTables \ {t} : D[u] = db[u]
    BY <1>1, <1>2 DEF RowsFit
  <2> QED
    BY <1>2, <1>5, <2>1, OneTableFits
<1>7. KeysLead(D)
  <2> SUFFICES ASSUME NEW u \in AllTables, NEW y \in DOMAIN D[u], NEW to \in PointsTo(D[u][y])
               PROVE  to[2] \in DOMAIN D[to[1]]
    BY DEF KeysLead
  <2>1. to[1] \in AllTables
    BY <1>6, FitsRefs
  <2>2. y \in DOMAIN db[u] /\ D[u][y] = db[u][y]
    BY <1>2, <1>4, <1>6
  <2>3. to[2] \in DOMAIN db[to[1]]
    BY <2>2 DEF KeysLead
  <2> QED
    BY <1>4, <1>6, <2>1, <2>3
<1> QED
  BY <1>4, <1>6, <1>7

UnderCategory(x, to) == [db EXCEPT !["post_categories"][x].parent = {Category(to)}]

LEMMA MovedCategory ==
  ASSUME RowsFit(db), KeysLead(db), NEW x \in DOMAIN db["post_categories"],
         NEW to \in DOMAIN db["post_categories"], to \notin Descendants(x), NEW D,
         D = UnderCategory(x, to)
  PROVE  /\ RowsFit(D) /\ KeysLead(D)
         /\ \A t \in AllTables : DOMAIN D[t] = DOMAIN db[t]
<1> DEFINE t == "post_categories"
           old == db[t][x]
           row == [old EXCEPT !.parent = {Category(to)}]
           rows == [db[t] EXCEPT ![x] = row]
<1>1. D = [db EXCEPT !["post_categories"] = rows]
  BY DEF UnderCategory
<1>2. t \in AllTables /\ TableFits(t, db[t])
  BY CategoryTable, RowsFitTables
<1>3. RowFits(t, x, old) /\ old \in TableRow
  BY <1>2 DEF TableFits, RowFits
<1>4. to # x
  BY DEF Descendants
<1>5. to \in Nat /\ x \in Nat
  BY <1>2 DEF TableFits
<1>6. /\ row \in TableRow
      /\ row.parent = {Category(to)} /\ row.in = old.in /\ row.of = old.of
  BY <1>2, <1>3, <1>5 DEF TableRow, Refs, Category
<1>7. RowFits(t, x, row)
  <2>1. \A up \in row.parent : up[1] = t /\ t \in Trees
    BY <1>6, CategoryTable DEF Category
  <2>2. <<t, x>> \notin row.parent
    BY <1>4, <1>6 DEF Category
  <2> HIDE DEF row
  <2> QED
    BY <1>3, <1>6, <2>1, <2>2, CategoryTable DEF RowFits
<1> HIDE DEF row
<1>8. /\ DOMAIN rows = DOMAIN db[t] /\ rows = [y \in DOMAIN rows |-> rows[y]]
      /\ rows[x] = row /\ \A y \in DOMAIN db[t] : y # x => rows[y] = db[t][y]
  OBVIOUS
<1> HIDE DEF rows
<1>9. TableFits(t, rows)
  BY <1>2, <1>7, <1>8 DEF TableFits
<1>10. RowsFit(D) /\ D[t] = rows /\ \A u \in AllTables \ {t} : D[u] = db[u]
  <2>1. DOMAIN D = AllTables /\ D[t] = rows /\ \A u \in AllTables \ {t} : D[u] = db[u]
    BY <1>1, <1>2 DEF RowsFit
  <2> QED
    BY <1>2, <1>9, <2>1, OneTableFits
<1>11. \A u \in AllTables : DOMAIN D[u] = DOMAIN db[u]
  BY <1>8, <1>10
<1>12. KeysLead(D)
  <2> SUFFICES ASSUME NEW u \in AllTables, NEW y \in DOMAIN D[u], NEW up \in PointsTo(D[u][y])
               PROVE  up[2] \in DOMAIN db[up[1]]
    BY <1>10, <1>11, FitsRefs DEF KeysLead
  <2>1. CASE u = t /\ y = x
    <3>1. up \in PointsTo(old) \/ up = Category(to)
      BY <1>6, <1>8, <1>10, <2>1 DEF PointsTo
    <3>2. up \in PointsTo(old) => up[2] \in DOMAIN db[up[1]]
      BY <1>2 DEF KeysLead
    <3> QED
      BY <3>1, <3>2 DEF Category
  <2>2. CASE ~(u = t /\ y = x)
    <3>1. y \in DOMAIN db[u] /\ D[u][y] = db[u][y]
      BY <1>8, <1>10, <2>2
    <3> QED
      BY <3>1 DEF KeysLead
  <2> QED
    BY <2>1, <2>2
<1> QED
  BY <1>10, <1>11, <1>12

LEMMA RemovedCategory ==
  ASSUME RowsFit(db), KeysLead(db), NEW ids, NEW D, D = Deleted("post_categories", ids)
  PROVE  /\ RowsFit(D) /\ KeysLead(D)
         /\ \A t \in AllTables : DOMAIN D[t] \subseteq DOMAIN db[t]
BY CategoryTable, DeletedShrinks, WipeKeysLead DEF Shrunk

LEMMA OfficeWorks ==
  ASSUME RestoreTypeInv, Office
  PROVE  /\ before' = None /\ UNCHANGED <<file, script, finished>>
         /\ RowsFit(db)' /\ KeysLead(db)'
         /\ DOMAIN serial' = Numbers /\ \A t \in Numbers : serial'[t] \in Nat
         /\ \A t \in AllTables \ {"post_categories"} : DOMAIN db'[t] \subseteq DOMAIN db[t]
         /\ \A t \in Numbers : Fresh(t) => Fresh(t)'
<1> DEFINE t == "post_categories"
<1>1. RowsFit(db) /\ KeysLead(db) /\ DOMAIN serial = Numbers /\ \A u \in Numbers : serial[u] \in Nat
  BY DEF RestoreTypeInv
<1>2. t \in Numbers /\ Numbers \subseteq AllTables
  BY CategoryTable, NumbersAre
<1>3. CASE NewCategory
  <2> DEFINE x == serial[t]
  <2>1. serial' = [serial EXCEPT ![t] = x + 1] /\ x \in Nat
    BY <1>1, <1>2, <1>3 DEF NewCategory
  <2>2. \/ db' = db /\ x \in DOMAIN db[t]
        \/ db' = [db EXCEPT !["post_categories"] =
                    Put(@, x, [parent |-> {}, in |-> {}, of |-> {}])]
    BY <1>3 DEF NewCategory
  <2>3. /\ RowsFit(db)' /\ KeysLead(db)'
        /\ \A u \in AllTables \ {t} : db'[u] = db[u]
        /\ DOMAIN db'[t] \subseteq DOMAIN db[t] \cup {x}
    <3>1. CASE db' = db
      BY <1>1, <3>1
    <3>2. CASE db' = [db EXCEPT !["post_categories"] =
                        Put(@, x, [parent |-> {}, in |-> {}, of |-> {}])]
      BY <1>1, <2>1, <3>2, MadeCategory
    <3> QED
      BY <2>2, <3>1, <3>2
  <2>4. /\ DOMAIN serial' = Numbers /\ serial'[t] = x + 1
        /\ \A u \in Numbers \ {t} : serial'[u] = serial[u]
    BY <1>1, <1>2, <2>1
  <2>5. \A u \in Numbers : serial'[u] \in Nat
    BY <1>1, <2>1, <2>4
  <2>6. ASSUME NEW u \in Numbers, Fresh(u) PROVE Fresh(u)'
    <3>1. CASE u = t
      <4>1. \A y \in DOMAIN db[t] : y \in Nat /\ y < x
        BY <1>1, <1>2, <2>6, <3>1 DEF Fresh, RowsFit
      <4> QED
        BY <2>1, <2>3, <2>4, <3>1, <4>1 DEF Fresh
    <3>2. CASE u # t
      BY <1>2, <2>3, <2>4, <2>6, <3>2 DEF Fresh
    <3> QED
      BY <3>1, <3>2
  <2>7. before' = None /\ UNCHANGED <<file, script, finished>>
    BY <1>3 DEF NewCategory, Edited
  <2> QED
    BY <2>3, <2>4, <2>5, <2>6, <2>7
<1>4. ASSUME NEW x \in DOMAIN db[t],
             RemoveCategory(x) \/ \E to \in DOMAIN db[t] : MoveCategory(x, to)
      PROVE  /\ before' = None /\ UNCHANGED <<file, script, finished, serial>>
             /\ RowsFit(db)' /\ KeysLead(db)'
             /\ \A u \in AllTables : DOMAIN db'[u] \subseteq DOMAIN db[u]
  <2>1. CASE RemoveCategory(x)
    <3>1. db' = Deleted("post_categories", {x})
      BY <2>1 DEF RemoveCategory
    <3>2. /\ RowsFit(db') /\ KeysLead(db')
          /\ \A u \in AllTables : DOMAIN db'[u] \subseteq DOMAIN db[u]
      BY <1>1, <3>1, RemovedCategory
    <3> QED
      BY <2>1, <3>2 DEF RemoveCategory, Moved, Edited
  <2>2. ASSUME NEW to \in DOMAIN db[t], MoveCategory(x, to)
        PROVE  /\ before' = None /\ UNCHANGED <<file, script, finished, serial>>
               /\ RowsFit(db)' /\ KeysLead(db)'
               /\ \A u \in AllTables : DOMAIN db'[u] \subseteq DOMAIN db[u]
    <3>1. to \notin Descendants(x) /\ db' = UnderCategory(x, to)
      BY <2>2 DEF MoveCategory, UnderCategory
    <3>2. /\ RowsFit(db') /\ KeysLead(db')
          /\ \A u \in AllTables : DOMAIN db'[u] = DOMAIN db[u]
      BY <1>1, <3>1, MovedCategory
    <3> QED
      BY <2>2, <3>2 DEF MoveCategory, Moved, Edited
  <2> QED
    BY <1>4, <2>1, <2>2
<1>5. CASE ~NewCategory
  <2>1. /\ before' = None /\ UNCHANGED <<file, script, finished, serial>>
        /\ RowsFit(db)' /\ KeysLead(db)'
        /\ \A u \in AllTables : DOMAIN db'[u] \subseteq DOMAIN db[u]
    BY <1>4, <1>5 DEF Office
  <2>2. \A u \in Numbers : Fresh(u) => Fresh(u)'
    BY <1>2, <2>1 DEF Fresh
  <2> QED
    BY <1>1, <2>1, <2>2
<1> QED
  BY <1>3, <1>5

-----------------------------------------------------------------------------
(* Types, and the order of the commands *)
LEMMA DoesWork ==
  ASSUME RestoreTypeInv, CleanInv, NEW name \in Scripts, NEW p, Takes(name, p), Does(p)
  PROVE  /\ RowsFit(db)' /\ KeysLead(db)'
         /\ DOMAIN serial' = Numbers /\ \A t \in Numbers : serial'[t] \in Nat
<1>1. RowsFit(db) /\ KeysLead(db) /\ DOMAIN serial = Numbers /\ \A u \in Numbers : serial[u] \in Nat
  BY DEF RestoreTypeInv
<1>2. RowsFit(file) /\ p \in CommandsOf(name)
  BY ScriptFile DEF Takes
<1>3. db' = After(p[2]) /\ serial' = Numbered(p[2]) /\ ~Refused(p[2])
  BY DEF Does
<1>4. DOMAIN serial' = Numbers /\ \A t \in Numbers : serial'[t] \in Nat
  BY <1>1, <1>3, NumberedIs
<1>5. RowsFit(db') /\ KeysLead(db')
  <2>1. CASE \E t \in AllTables : Changes(p, t)
    BY <1>1, <1>2, <1>3, <2>1, WriteFits, WriteKeysLead
  <2>2. CASE Wipes(p)
    <3>1. PICK ids : Clears(p[2].table, ids) /\ After(p[2]) = Deleted(p[2].table, ids)
      BY <2>2, WipeClears
    <3> QED
      BY <1>1, <1>3, <3>1, DeletedShrinks, WipeKeysLead DEF Clears
  <2>3. CASE Counts(p, "setval max") \/ Counts(p, "setval first")
    BY <1>1, <1>3, <2>3, AfterIs DEF Counts, Writes
  <2>4. TablesOf(name) \subseteq AllTables
    BY TablesAre DEF TablesOf
  <2> QED
    BY <1>2, <2>1, <2>2, <2>3, <2>4, CommandForm DEF Changes
<1> QED
  BY <1>4, <1>5

LEMMA WipeCommand ==
  ASSUME NEW n, NEW k, NEW t
  PROVE  Wipe(n, k, t)[2].do = "wipe" /\ Wipe(n, k, t)[2].table = t
BY DEF Wipe, Command

LEMMA CleanGoesOn ==
  ASSUME RestoreTypeInv, CleanInv, NEW p, Takes("clean", p), Does(p), NEW n \in 1 .. 40,
         TruncateOrder[n] # "post_categories",
         Wipe(1, n, TruncateOrder[n]) \notin script.todo \/ Wipe(1, n, TruncateOrder[n]) = p
  PROVE  DOMAIN db'[TruncateOrder[n]] = {}
<1> DEFINE t == TruncateOrder[n]
<1>1. RowsFit(db) /\ t \in AllTables
  BY TruncatedAre DEF RestoreTypeInv
<1>2. db' = After(p[2]) /\ p \in Truncate /\ script.run = "clean" /\ "clean" \in Scripts
  BY DEF Does, Takes, CommandsOf, Scripts
<1>3. CASE Wipes(p)
  <2>1. PICK m \in 1 .. 40 : p = Wipe(1, m, TruncateOrder[m])
    BY <1>2, <1>3, TruncateKinds DEF Wipes, Counts
  <2>2. p[2].do = "wipe" /\ p[2].table = TruncateOrder[m] /\ TruncateOrder[m] \in AllTables
    BY <2>1, TruncatedAre, WipeCommand
  <2> DEFINE u == TruncateOrder[m]
  <2>3. db' = Deleted(u, DOMAIN db[u])
    BY <1>2, <2>2, AfterIs
  <2>4. DOMAIN db'[t] = Spared(u, DOMAIN db[u], t)
    <3>1. DeletedFrom(u, DOMAIN db[u], db', t)
      BY <1>1, <2>2, <2>3, DeletedIs
    <3> QED
      BY <3>1 DEF DeletedFrom
  <2>5. CASE Wipe(1, n, TruncateOrder[n]) \notin script.todo
    BY <1>2, <2>4, <2>5 DEF CleanInv, Spared
  <2>6. CASE Wipe(1, n, TruncateOrder[n]) = p
    <3>1. t = u
      BY <2>2, <2>6, WipeCommand
    <3> QED
      BY <2>4, <3>1 DEF Spared
  <2> QED
    BY <2>5, <2>6
<1>4. CASE ~Wipes(p)
  <2>1. Counts(p, "setval first")
    <3> SUFFICES ASSUME p[2].do = "wipe", \E m \in 1 .. 40 : p = Wipe(1, m, TruncateOrder[m])
                 PROVE  Wipes(p)
      BY <1>2, <1>4, TruncateKinds
    <3>1. PICK m \in 1 .. 40 : p = Wipe(1, m, TruncateOrder[m])
      OBVIOUS
    <3>2. p[2].table = TruncateOrder[m]
      BY <3>1, WipeCommand
    <3> QED
      BY <3>2, TruncatedAre DEF Wipes
  <2>2. db' = db
    BY <1>2, <2>1, AfterIs DEF Counts, Writes
  <2>3. Wipe(1, n, TruncateOrder[n]) # p
    <3> SUFFICES ASSUME Wipe(1, n, TruncateOrder[n]) = p PROVE FALSE
      OBVIOUS
    <3>1. Wipe(1, n, TruncateOrder[n])[2].do = "wipe"
      BY WipeCommand
    <3>2. p[2].do = "wipe"
      BY <3>1, Zenon
    <3> QED
      BY <2>1, <3>2 DEF Counts
  <2> QED
    BY <1>2, <2>2, <2>3 DEF CleanInv
<1> QED
  BY <1>3, <1>4

LEMMA NothingFits == RowsFit(Nothing)
<1>1. DOMAIN Nothing = AllTables /\ \A t \in AllTables : Nothing[t] = << >>
  BY DEF Nothing
<1>2. DOMAIN << >> = {} /\ << >> = [x \in DOMAIN << >> |-> << >>[x]]
  OBVIOUS
<1>3. \A t \in AllTables : TableFits(t, Nothing[t])
  BY <1>1, <1>2, FS_EmptySet DEF TableFits
<1> QED
  BY <1>1, <1>3, RowsFitTables

LEMMA DrawnFits ==
  ASSUME RowsFit(db), NEW old, RowsFit(old), NEW drawn,
         NEW new, new = [t \in DOMAIN old |-> IF t \in drawn THEN db[t] ELSE old[t]]
  PROVE  RowsFit(new)
<1>1. DOMAIN new = AllTables /\ \A t \in AllTables : new[t] = db[t] \/ new[t] = old[t]
  BY DEF RowsFit
<1>2. \A t \in AllTables : TableFits(t, new[t])
  BY <1>1, RowsFitTables
<1> QED
  BY <1>1, <1>2, RowsFitTables

ScriptsInv == RestoreTypeInv /\ TodoInv /\ CleanInv

LEMMA ScriptsBegin ==
  ASSUME RestoreInit
  PROVE  ScriptsInv
<1>1. RowsFit(db) /\ KeysLead(db)
  BY ContentsFit DEF RestoreInit
<1>2. DOMAIN serial = Numbers /\ \A t \in Numbers : serial[t] \in Nat
  <2>1. /\ DOMAIN serial = Numbers
        /\ \A t \in Numbers : serial[t] = IF DOMAIN db[t] = {} THEN 1 ELSE Greatest(DOMAIN db[t]) + 1
    BY DEF RestoreInit
  <2>2. ASSUME NEW t \in Numbers PROVE serial[t] \in Nat
    <3> DEFINE ids == DOMAIN db[t]
    <3>1. ids \in SUBSET Nat /\ IsFiniteSet(ids)
      BY <1>1, NumbersAre DEF RowsFit
    <3>2. serial[t] = IF ids = {} THEN 1 ELSE Greatest(ids) + 1
      BY <2>1
    <3> HIDE DEF ids
    <3>3. CASE ids = {}
      BY <3>2, <3>3
    <3>4. CASE ids # {}
      <4>1. Greatest(ids) \in Nat
        BY <3>1, <3>4, GreatestIn
      <4> QED
        BY <3>2, <3>4, <4>1
    <3> QED
      BY <3>3, <3>4
  <2> QED
    BY <2>1, <2>2
<1>3. file = None /\ script = Idle /\ finished = {} /\ before = None
  BY DEF RestoreInit
<1>4. script.run = None /\ script = [run |-> script.run, todo |-> script.todo, data |-> script.data]
  BY <1>3 DEF Idle
<1>5. None \notin Scripts /\ None # "export"
  BY NoScript
<1>6. RestoreTypeInv
  BY <1>1, <1>2, <1>3, <1>4, <1>5 DEF RestoreTypeInv, Scripts
<1>7. TodoInv /\ CleanInv
  BY <1>4, <1>5 DEF TodoInv, CleanInv, Scripts
<1> QED
  BY <1>6, <1>7 DEF ScriptsInv

LEMMA ExportSteps ==
  ASSUME ScriptsInv, Export \/ Dump \/ WriteFile
  PROVE  ScriptsInv'
<1>1. RestoreTypeInv /\ TodoInv /\ CleanInv
  BY DEF ScriptsInv
<1>2. None \notin Scripts /\ None # "export" /\ "export" \notin Scripts
  BY NoScript DEF Scripts
<1>3. CASE Export
  <2>1. /\ script'.run = "export" /\ script'.todo = Reads /\ script'.data = Nothing
        /\ script' = [run |-> script'.run, todo |-> script'.todo, data |-> script'.data]
        /\ before' = db /\ finished' = {} /\ UNCHANGED <<db, serial, file>>
    BY <1>3 DEF Export
  <2>2. RestoreTypeInv'
    BY <1>1, <1>2, <2>1, NothingFits DEF RestoreTypeInv, Scripts
  <2>3. TodoInv' /\ CleanInv'
    BY <1>2, <2>1 DEF TodoInv, CleanInv
  <2> QED
    BY <2>2, <2>3 DEF ScriptsInv
<1>4. CASE Dump
  <2>1. PICK p \in script.todo :
          \/ /\ script' = [script EXCEPT !.todo = @ \ {p},
                  !.data = [t \in DOMAIN @ |-> IF t \in p[2] THEN db[t] ELSE @[t]]]
             /\ UNCHANGED <<before, spent>>
          \/ /\ script' = [script EXCEPT !.todo = @ \ {p}]
             /\ before' = None
    BY <1>4 DEF Dump
  <2>2. script.run = "export" /\ UNCHANGED <<db, serial, file, finished>>
    BY <1>4 DEF Dump
  <2>3. /\ script = [run |-> script.run, todo |-> script.todo, data |-> script.data]
        /\ RowsFit(script.data) /\ script.todo \subseteq Reads /\ finished = {} /\ RowsFit(db)
    BY <1>1, <2>2 DEF RestoreTypeInv
  <2>4. /\ script'.run = "export" /\ script'.todo = script.todo \ {p}
        /\ script' = [run |-> script'.run, todo |-> script'.todo, data |-> script'.data]
        /\ \/ script'.data = script.data
           \/ script'.data = [t \in DOMAIN script.data |-> IF t \in p[2] THEN db[t] ELSE script.data[t]]
        /\ before' = None \/ before' = before
    BY <2>1, <2>2, <2>3
  <2>5. RowsFit(script'.data)
    BY <2>3, <2>4, DrawnFits
  <2>6. RestoreTypeInv'
    BY <1>1, <1>2, <2>2, <2>3, <2>4, <2>5 DEF RestoreTypeInv
  <2>7. TodoInv' /\ CleanInv'
    BY <1>2, <2>4 DEF TodoInv, CleanInv
  <2> QED
    BY <2>6, <2>7 DEF ScriptsInv
<1>5. CASE WriteFile
  <2>1. /\ script.run = "export" /\ file' = script.data /\ script' = Idle
        /\ UNCHANGED <<db, serial, finished, before>>
    BY <1>5 DEF WriteFile
  <2>2. /\ script'.run = None
        /\ script' = [run |-> script'.run, todo |-> script'.todo, data |-> script'.data]
    BY <2>1 DEF Idle
  <2>3. RowsFit(file') /\ finished' = {}
    BY <1>1, <2>1 DEF RestoreTypeInv
  <2>4. RestoreTypeInv'
    BY <1>1, <1>2, <2>1, <2>2, <2>3 DEF RestoreTypeInv, Scripts
  <2>5. TodoInv' /\ CleanInv'
    BY <1>2, <2>2 DEF TodoInv, CleanInv, Scripts
  <2> QED
    BY <2>4, <2>5 DEF ScriptsInv
<1> QED
  BY <1>3, <1>4, <1>5

LEMMA BeginSteps ==
  ASSUME ScriptsInv, NEW name \in Scripts, Begin(name)
  PROVE  ScriptsInv'
<1>1. RestoreTypeInv /\ TodoInv /\ CleanInv
  BY DEF ScriptsInv
<1>2. /\ UNCHANGED <<db, serial, file, before>>
      /\ finished' = IF name = "clean" THEN {} ELSE finished \ {name}
      /\ script'.run = name /\ script'.todo = CommandsOf(name)
      /\ script' = [run |-> script'.run, todo |-> script'.todo, data |-> script'.data]
      /\ name \in {"clean", "seed"} => file # None
      /\ name \notin {"clean", "seed"} => "seed" \in finished
  BY DEF Begin
<1>3. RestoreTypeInv'
  BY <1>1, <1>2, NoScript DEF RestoreTypeInv, Scripts
<1>4. \A n : CommandsOf(n)' = CommandsOf(n)
  BY <1>2, SameCommands
<1>5. TodoInv'
  BY <1>2, <1>4 DEF TodoInv
<1>6. CleanInv'
  <2>1. \A n \in 1 .. 40 : name = "clean" => Wipe(1, n, TruncateOrder[n]) \in CommandsOf(name)
    BY TruncatedAre DEF CommandsOf, Truncate
  <2> QED
    BY <1>2, <2>1 DEF CleanInv
<1> QED
  BY <1>3, <1>5, <1>6 DEF ScriptsInv

LEMMA ProceedSteps ==
  ASSUME ScriptsInv, Proceed
  PROVE  ScriptsInv'
<1>1. RestoreTypeInv /\ TodoInv /\ CleanInv
  BY DEF ScriptsInv
<1>2. UNCHANGED <<file, finished, spent, before>>
  BY <1>1, NextCommand
<1>3. PICK name \in Scripts :
         \E p \in CommandsOf(name) : Takes(name, p) /\ (Stops(p) \/ Passes(p) \/ Does(p))
  BY <1>1, NextCommand
<1>4. PICK p \in CommandsOf(name) : Takes(name, p) /\ (Stops(p) \/ Passes(p) \/ Does(p))
  BY <1>3
<1>5. script.run = name /\ script = [run |-> script.run, todo |-> script.todo, data |-> script.data]
  BY <1>1, <1>4 DEF Takes, RestoreTypeInv
<1>6. None \notin Scripts /\ None # "export" /\ None \notin Restoring
  BY NoScript DEF Scripts, Restoring
<1>7. \A n : CommandsOf(n)' = CommandsOf(n)
  BY <1>2, SameCommands
<1>8. CASE Stops(p)
  <2>1. /\ script'.run = None /\ db' = db /\ serial' = serial
        /\ script' = [run |-> script'.run, todo |-> script'.todo, data |-> script'.data]
    BY <1>8 DEF Stops, Idle
  <2>2. RestoreTypeInv'
    BY <1>1, <1>2, <1>6, <2>1 DEF RestoreTypeInv, Scripts
  <2>3. TodoInv' /\ CleanInv'
    BY <1>6, <2>1 DEF TodoInv, CleanInv, Scripts
  <2> QED
    BY <2>2, <2>3 DEF ScriptsInv
<1>9. CASE Passes(p) \/ Does(p)
  <2>1. /\ script'.run = name /\ script'.todo = script.todo \ {p}
        /\ script' = [run |-> script'.run, todo |-> script'.todo, data |-> script'.data]
    BY <1>5, <1>9 DEF Passes, Does
  <2>2. /\ RowsFit(db)' /\ KeysLead(db)'
        /\ DOMAIN serial' = Numbers /\ \A t \in Numbers : serial'[t] \in Nat
    <3>1. CASE Passes(p)
      BY <1>1, <3>1 DEF Passes, RestoreTypeInv
    <3>2. CASE Does(p)
      BY <1>1, <1>4, <3>2, DoesWork
    <3> QED
      BY <1>9, <3>1, <3>2
  <2>3. name # "export"
    BY DEF Scripts
  <2>4. RestoreTypeInv'
    BY <1>1, <1>2, <1>5, <2>1, <2>2, <2>3 DEF RestoreTypeInv
  <2>5. TodoInv'
    BY <1>1, <1>4, <1>5, <1>7, <2>1 DEF TodoInv, Takes
  <2>6. CleanInv'
    <3> SUFFICES ASSUME name = "clean", NEW n \in 1 .. 40, TruncateOrder[n] # "post_categories",
                        Wipe(1, n, TruncateOrder[n]) \notin script'.todo
                 PROVE  DOMAIN db'[TruncateOrder[n]] = {}
      BY <2>1 DEF CleanInv
    <3>1. Wipe(1, n, TruncateOrder[n]) \notin script.todo \/ Wipe(1, n, TruncateOrder[n]) = p
      BY <2>1
    <3>2. CASE Passes(p)
      <4>1. p[2].do = "connect" /\ db' = db
        BY <3>2 DEF Passes
      <4>2. Wipe(1, n, TruncateOrder[n]) # p
        BY <4>1 DEF Wipe, Command
      <4> QED
        BY <1>1, <1>5, <3>1, <4>1, <4>2 DEF CleanInv
    <3>3. CASE Does(p)
      BY <1>1, <1>4, <3>1, <3>3, CleanGoesOn
    <3> QED
      BY <1>9, <3>2, <3>3
  <2> QED
    BY <2>4, <2>5, <2>6 DEF ScriptsInv
<1> QED
  BY <1>4, <1>8, <1>9

LEMMA EndSteps ==
  ASSUME ScriptsInv, Finish \/ Crash
  PROVE  ScriptsInv'
<1>1. RestoreTypeInv /\ TodoInv /\ CleanInv
  BY DEF ScriptsInv
<1>2. None \notin Scripts /\ None # "export" /\ None \notin Restoring
  BY NoScript DEF Scripts, Restoring
<1>3. /\ script'.run = None
      /\ script' = [run |-> script'.run, todo |-> script'.todo, data |-> script'.data]
      /\ UNCHANGED <<db, serial, file>> /\ before' \in {None, before}
  BY DEF Finish, Crash, Idle
<1>4. finished' \subseteq Restoring /\ (finished' # {} => file # None)
  <2>1. CASE Finish
    BY <1>1, <2>1 DEF Finish, RestoreTypeInv, Restoring, Scripts
  <2>2. CASE Crash
    BY <1>1, <2>2 DEF Crash, RestoreTypeInv
  <2> QED
    BY <2>1, <2>2
<1>5. RestoreTypeInv'
  BY <1>1, <1>2, <1>3, <1>4 DEF RestoreTypeInv, Scripts
<1>6. TodoInv' /\ CleanInv'
  BY <1>2, <1>3 DEF TodoInv, CleanInv, Scripts
<1> QED
  BY <1>5, <1>6 DEF ScriptsInv

LEMMA OfficeSteps ==
  ASSUME ScriptsInv, Office
  PROVE  ScriptsInv'
<1>1. RestoreTypeInv /\ TodoInv /\ CleanInv
  BY DEF ScriptsInv
<1>2. /\ before' = None /\ UNCHANGED <<file, script, finished>>
      /\ RowsFit(db)' /\ KeysLead(db)'
      /\ DOMAIN serial' = Numbers /\ \A t \in Numbers : serial'[t] \in Nat
      /\ \A t \in AllTables \ {"post_categories"} : DOMAIN db'[t] \subseteq DOMAIN db[t]
  BY <1>1, OfficeWorks
<1>3. RestoreTypeInv'
  BY <1>1, <1>2 DEF RestoreTypeInv
<1>4. \A n : CommandsOf(n)' = CommandsOf(n)
  BY <1>2, SameCommands
<1>5. TodoInv'
  BY <1>1, <1>2, <1>4 DEF TodoInv
<1>6. CleanInv'
  BY <1>1, <1>2, TruncatedAre DEF CleanInv
<1> QED
  BY <1>3, <1>5, <1>6 DEF ScriptsInv

LEMMA ScriptsStep ==
  ASSUME ScriptsInv, [RestoreNext]_restoreVars
  PROVE  ScriptsInv'
<1>1. CASE UNCHANGED restoreVars
  <2>1. UNCHANGED <<db, serial, file, script, finished, before>>
    BY <1>1 DEF restoreVars
  <2>2. \A n : CommandsOf(n)' = CommandsOf(n)
    BY <2>1, SameCommands
  <2> QED
    BY <2>1, <2>2 DEF ScriptsInv, RestoreTypeInv, TodoInv, CleanInv
<1>2. CASE RestoreNext
  <2>1. \/ Export \/ Dump \/ WriteFile \/ (\E name \in Scripts : Begin(name)) \/ Proceed
        \/ Finish \/ Crash \/ Office
    BY <1>2 DEF RestoreNext, Office
  <2> QED
    BY <2>1, ExportSteps, BeginSteps, ProceedSteps, EndSteps, OfficeSteps
<1> QED
  BY <1>1, <1>2

(* For every content of the database the tables stay rows as their columns *)
(* allow them whose foreign keys all lead to a row, what a script has done *)
(* comes before what it has still to do, and the tables that db-truncate   *)
(* has emptied stay empty until it ends, but for categories made meanwhile *)
(* (every command of the five scripts, refused, carried out or cut off).   *)
THEOREM RestoreIsTyped == RestoreSpec => []ScriptsInv
<1>1. RestoreInit => ScriptsInv
  BY ScriptsBegin
<1>2. ScriptsInv /\ [RestoreNext]_restoreVars => ScriptsInv'
  BY ScriptsStep
<1> QED
  BY <1>1, <1>2, PTL DEF RestoreSpec

-----------------------------------------------------------------------------
(* Ids that the sequences hand out are free *)
FreshInv ==
  /\ "seed" \in finished => \A t \in Numbers \ ChatRows : Fresh(t)
  /\ script.run = "seed" =>
       \A q \in CommandsOf("seed") \ script.todo : q[2].do = "setval max" => Fresh(q[2].table)

LEMMA NumberTables == Numbers \cap ChatTexts = {} /\ SeedTables \cap (ChatTexts \cup ChatRows) = {}
BY DEF Numbers, SequenceTables, ChatTexts, ChatRows, SeedTables

LEMMA SectionsBelow ==
  ASSUME NEW t \in AllTables
  PROVE  Section(t) \in 1 .. 29
BY TablesAre DEF SeedTables, ChatTexts, ChatRows, Section

LEMMA SeedSetvals ==
  ASSUME RowsFit(file), NEW p \in CommandsOf("seed")
  PROVE  /\ p[1] \in Place
         /\ IF p[2].do = "setval max" THEN p[1][1] = 30 /\ p[2].table \in Numbers ELSE p[1][1] < 30
         /\ p[2].do # "setval first"
<1>1. "seed" \in Scripts /\ TablesOf("seed") \subseteq AllTables
  BY TablesAre DEF Scripts, TablesOf
<1>2. p[1] \in Place
  BY <1>1, CommandForm
<1>3. CASE \E t \in AllTables : Makes(p, t) \/ Updates(p, t)
  <2>1. p[1][1] < 30
    BY <1>3, SectionsBelow DEF Makes, Updates
  <2>2. p[2].do # "setval max" /\ p[2].do # "setval first"
    BY <1>3 DEF Makes, Updates
  <2> QED
    BY <1>2, <2>1, <2>2
<1>4. CASE Wipes(p) /\ p[1][1] < 30
  BY <1>2, <1>4 DEF Wipes
<1>5. CASE Counts(p, "setval max") /\ p[1][1] = 30
  BY <1>2, <1>5 DEF Counts
<1> QED
  BY <1>1, <1>3, <1>4, <1>5, CommandForm

LEMMA NotAfterLast ==
  ASSUME NEW a \in Place, NEW b \in Place, Before(b, a), b[1] = 30, a[1] < 30
  PROVE  FALSE
BY DEF Before, Place

LEMMA ResetsAll ==
  ASSUME NEW t \in Numbers
  PROVE  \E p \in CommandsOf("seed") : p[2].do = "setval max" /\ p[2].table = t
<1>1. PICK n \in DOMAIN SequenceTables : t = SequenceTables[n]
  BY DEF Numbers
<1> DEFINE p == << <<30, n, 0, 0, 0>>, Command("setval max", SequenceTables[n], << >>, {})>>
<1>2. p \in ResetSequences
  BY DEF ResetSequences
<1>3. p \in CommandsOf("seed")
  BY <1>2, SectionsOfSeed DEF CommandsOf
<1>4. p[2].do = "setval max" /\ p[2].table = t
  BY <1>1 DEF Command
<1> QED
  BY <1>3, <1>4

LEMMA FreshProceeds ==
  ASSUME ScriptsInv, FreshInv, Proceed
  PROVE  FreshInv'
<1>1. RestoreTypeInv /\ TodoInv /\ CleanInv
  BY DEF ScriptsInv
<1>2. UNCHANGED <<file, finished, spent, before>>
  BY <1>1, NextCommand
<1>3. PICK name \in Scripts :
        \E p \in CommandsOf(name) : Takes(name, p) /\ (Stops(p) \/ Passes(p) \/ Does(p))
  BY <1>1, NextCommand
<1>4. PICK p \in CommandsOf(name) : Takes(name, p) /\ (Stops(p) \/ Passes(p) \/ Does(p))
  BY <1>3
<1>5. script.run = name /\ script = [run |-> script.run, todo |-> script.todo, data |-> script.data]
  BY <1>1, <1>4 DEF Takes, RestoreTypeInv
<1>6. RowsFit(file) /\ RowsFit(db)
  BY <1>1, <1>5, ScriptFile DEF RestoreTypeInv
<1>7. \A n : CommandsOf(n)' = CommandsOf(n)
  BY <1>2, SameCommands
<1>8. CASE Stops(p)
  <2>1. script'.run = None /\ db' = db /\ serial' = serial /\ None # "seed"
    BY <1>8, NoScript DEF Stops, Idle, Scripts
  <2> QED
    BY <1>2, <2>1 DEF FreshInv, Fresh
<1>9. CASE Passes(p)
  <2>1. /\ script'.run = name /\ script'.todo = script.todo \ {p} /\ db' = db /\ serial' = serial
        /\ p[2].do = "connect"
    BY <1>5, <1>9 DEF Passes
  <2> QED
    BY <1>2, <1>5, <1>7, <2>1 DEF FreshInv, Fresh
<1>10. CASE Does(p)
  <2>1. /\ script'.run = name /\ script'.todo = script.todo \ {p}
        /\ db' = After(p[2]) /\ serial' = Numbered(p[2])
    BY <1>5, <1>10 DEF Does
  <2>2. Renumbered(serial', p[2])
    <3>1. RowsFit(db) /\ DOMAIN serial = Numbers /\ \A t \in Numbers : serial[t] \in Nat
      BY <1>1 DEF RestoreTypeInv
    <3> QED
      BY <2>1, <3>1, NumberedIs
  <2>3. CASE name = "seed"
    <3>1. "seed" \notin finished
      BY <1>1, <1>5, <2>3 DEF RestoreTypeInv
    <3>2. CASE p[2].do = "setval max"
      <4>1. db' = db /\ p[2].table \in Numbers
        BY <1>4, <1>6, <2>1, <2>3, <3>2, AfterIs, SeedSetvals DEF Writes
      <4>2. ASSUME NEW q \in CommandsOf("seed") \ script'.todo, q[2].do = "setval max"
            PROVE  Fresh(q[2].table)'
        <5>1. q = p \/ q \in CommandsOf("seed") \ script.todo
          BY <2>1, <4>2
        <5>2. CASE q[2].table = p[2].table
          BY <2>2, <3>2, <4>1, <5>2 DEF Fresh, Renumbered
        <5>3. CASE q[2].table # p[2].table
          <6>1. q[2].table \in Numbers /\ Fresh(q[2].table)
            BY <1>5, <1>6, <2>3, <4>2, <5>1, <5>3, SeedSetvals DEF FreshInv
          <6> QED
            BY <2>2, <3>2, <4>1, <5>3, <6>1 DEF Fresh, Renumbered
        <5> QED
          BY <5>2, <5>3
      <4> QED
        BY <1>2, <1>7, <3>1, <4>2 DEF FreshInv
    <3>3. CASE p[2].do # "setval max"
      <4>1. \A q \in CommandsOf("seed") \ script'.todo : q[2].do # "setval max"
        <5> SUFFICES ASSUME NEW q \in CommandsOf("seed") \ script.todo, q[2].do = "setval max"
                     PROVE  FALSE
          BY <2>1, <3>3
        <5>1. Before(q[1], p[1])
          BY <1>1, <1>4, <1>5, <2>3 DEF TodoInv, Takes
        <5>2. /\ p[1] \in Place
              /\ IF p[2].do = "setval max" THEN p[1][1] = 30 /\ p[2].table \in Numbers ELSE p[1][1] < 30
          BY <1>4, <1>6, <2>3, SeedSetvals
        <5>3. /\ q[1] \in Place
              /\ IF q[2].do = "setval max" THEN q[1][1] = 30 /\ q[2].table \in Numbers ELSE q[1][1] < 30
          BY <1>6, SeedSetvals
        <5>4. p[1][1] < 30 /\ q[1][1] = 30
          BY <3>3, <5>2, <5>3
        <5> QED
          BY <5>1, <5>2, <5>3, <5>4, NotAfterLast
      <4> QED
        BY <1>2, <1>7, <3>1, <4>1 DEF FreshInv
    <3> QED
      BY <3>2, <3>3
  <2>4. CASE name \in {"seed chat", "seed chats"}
    <3>1. PICK t \in ChatTexts \cup ChatRows : Changes(p, t)
      BY <1>4, <1>6, <2>4, ChatTextKinds, ChatRowKinds DEF CommandsOf, ChatKind, Orderly, Changes
    <3>2. p[2].do \in Writes /\ p[2].table = t /\ t \in AllTables
      BY <3>1, ChangesDo, TablesAre
    <3>3. serial' = serial
      BY <2>2, <3>2 DEF Writes, Renumbered
    <3>4. WithRows(db', p[2], t)
      BY <1>6, <2>1, <3>2, AfterWrite
    <3>5. \A u \in Numbers \ ChatRows : db'[u] = db[u]
      BY <3>4, NumberTables, NumbersAre DEF WithRows
    <3>6. script'.run # "seed"
      BY <2>1, <2>4
    <3> QED
      BY <1>2, <3>3, <3>5, <3>6 DEF FreshInv, Fresh
  <2>5. CASE name = "clean"
    <3>1. finished = {} /\ script'.run # "seed"
      BY <1>1, <1>5, <2>1, <2>5 DEF RestoreTypeInv
    <3> QED
      BY <1>2, <3>1 DEF FreshInv
  <2> QED
    BY <2>3, <2>4, <2>5 DEF Scripts
<1> QED
  BY <1>4, <1>8, <1>9, <1>10

LEMMA FreshStep ==
  ASSUME ScriptsInv, FreshInv, [RestoreNext]_restoreVars
  PROVE  FreshInv'
<1>1. RestoreTypeInv /\ TodoInv
  BY DEF ScriptsInv
<1>2. None # "seed" /\ "export" # "seed" /\ None \notin Scripts
  BY NoScript DEF Scripts
<1>3. CASE UNCHANGED restoreVars
  <2>1. UNCHANGED <<db, serial, file, script, finished>>
    BY <1>3 DEF restoreVars
  <2>2. \A n : CommandsOf(n)' = CommandsOf(n)
    BY <2>1, SameCommands
  <2> QED
    BY <2>1, <2>2 DEF FreshInv, Fresh
<1>4. CASE Export \/ Dump \/ WriteFile \/ Crash
  <2>1. /\ UNCHANGED <<db, serial>> /\ finished' \in {{}, finished} /\ script'.run # "seed"
    <3>1. CASE Export
      BY <1>2, <3>1 DEF Export
    <3>2. CASE Dump
      BY <1>1, <1>2, <3>2 DEF Dump, RestoreTypeInv
    <3>3. CASE WriteFile \/ Crash
      BY <1>2, <3>3 DEF WriteFile, Crash, Idle
    <3> QED
      BY <1>4, <3>1, <3>2, <3>3
  <2> QED
    BY <2>1 DEF FreshInv, Fresh
<1>5. ASSUME NEW name \in Scripts, Begin(name)
      PROVE  FreshInv'
  <2>1. /\ UNCHANGED <<db, serial, file>> /\ finished' \subseteq finished
        /\ script'.run = name /\ script'.todo = CommandsOf(name)
    BY <1>5 DEF Begin
  <2>2. \A n : CommandsOf(n)' = CommandsOf(n)
    BY <2>1, SameCommands
  <2> QED
    BY <2>1, <2>2 DEF FreshInv, Fresh
<1>6. CASE Finish
  <2>1. /\ UNCHANGED <<db, serial, file>> /\ script'.run = None
        /\ finished' = finished \cup ({script.run} \ {"clean"}) /\ script.todo = {}
    BY <1>6 DEF Finish, Idle
  <2>2. ASSUME "seed" \in finished', NEW t \in Numbers \ ChatRows
        PROVE  Fresh(t)
    <3>1. CASE "seed" \in finished
      BY <2>2, <3>1 DEF FreshInv
    <3>2. CASE script.run = "seed"
      <4>1. PICK q \in CommandsOf("seed") : q[2].do = "setval max" /\ q[2].table = t
        BY <2>2, ResetsAll
      <4>2. q \in CommandsOf("seed") \ script.todo
        BY <2>1
      <4> QED
        BY <3>2, <4>1, <4>2 DEF FreshInv
    <3> QED
      BY <2>1, <2>2, <3>1, <3>2
  <2> QED
    BY <1>2, <2>1, <2>2 DEF FreshInv, Fresh
<1>7. CASE Office
  <2>1. /\ UNCHANGED <<file, script, finished>>
        /\ \A t \in Numbers : Fresh(t) => Fresh(t)'
    BY <1>1, <1>7, OfficeWorks
  <2>2. \A n : CommandsOf(n)' = CommandsOf(n)
    BY <2>1, SameCommands
  <2>3. ASSUME script.run = "seed", NEW q \in CommandsOf("seed") \ script.todo, q[2].do = "setval max"
        PROVE  Fresh(q[2].table)'
    <3>1. RowsFit(file)
      BY <1>1, <2>3, ScriptFile DEF Scripts
    <3>2. q[2].table \in Numbers
      BY <2>3, <3>1, SeedSetvals
    <3> QED
      BY <2>1, <2>3, <3>2 DEF FreshInv
  <2> QED
    BY <2>1, <2>2, <2>3 DEF FreshInv
<1>8. CASE RestoreNext
  <2>1. \/ Export \/ Dump \/ WriteFile \/ (\E name \in Scripts : Begin(name)) \/ Proceed
        \/ Finish \/ Crash \/ Office
    BY <1>8 DEF RestoreNext, Office
  <2> QED
    BY <1>4, <1>5, <1>6, <1>7, <2>1, FreshProceeds
<1> QED
  BY <1>3, <1>8

(* For any rows and any number of crashes, requests of the back office and *)
(* runs of the scripts, after a run of seed-json-data.ts that ends well no *)
(* sequence hands out an id that a row has (resetSequences, which runs     *)
(* last, and the ids that every section before it writes itself).          *)
THEOREM RestoredIdsAreFree == RestoreSpec => []FreshIds
<1>1. RestoreInit => FreshInv
  <2> SUFFICES ASSUME RestoreInit PROVE FreshInv
    OBVIOUS
  <2>1. script.run # "seed" /\ finished = {}
    BY NoScript DEF RestoreInit, Idle, Scripts
  <2> QED
    BY <2>1 DEF FreshInv
<1>2. ScriptsInv /\ FreshInv /\ [RestoreNext]_restoreVars => FreshInv'
  BY FreshStep
<1>3. ScriptsInv /\ FreshInv => FreshIds
  BY DEF ScriptsInv, RestoreTypeInv, FreshInv, FreshIds, Fresh
<1> QED
  BY <1>1, <1>2, <1>3, RestoreIsTyped, PTL DEF RestoreSpec

-----------------------------------------------------------------------------
(* What was exported comes back *)

(* No script empties these tables. *)
Kept == {"canned_response_categories", "chat_programs", "chat_regions", "chat_config"}

(* What the script name has done is in data. *)
DoneIn(data, name, todo) ==
  \A q \in CommandsOf(name) \ todo : \A u \in AllTables : Changes(q, u) => Brought(data, q, u)

(* Command q makes room for the rows that command p creates. *)
Clearing(q, p) ==
  \/ q = Wipe(2, 3, "permissions") /\ MakesPermission(p)
  \/ \E b \in BlockTables : \E x, y \in Nat : Texted(x, y, b) /\ q = Cut(x, y, b) /\ p = Paste(x, y, b)
Roomy(data, todo) ==
  \A q \in CommandsOf("seed") \ todo : \A p \in todo :
    Clearing(q, p) => DOMAIN p[2].rows \cap DOMAIN data[p[2].table] = {}

ReadOf(n) == << <<n, 0, 0, 0, 0>>, Dumps[n]>>

ExportInv ==
  before # None /\ script.run = "export" =>
    /\ db = before
    /\ \A n \in DOMAIN Dumps : ReadOf(n) \notin script.todo =>
         \A t \in Dumps[n] : script.data[t] = db[t]

(* Rows that are there are those of the file, none is missing where no     *)
(* script empties, and all are back where a script has ended well.         *)
Keeps(data) ==
  /\ Matches(data, file)
  /\ \A t \in Kept : DOMAIN file[t] \subseteq DOMAIN data[t]
  /\ \A name \in finished : \A t \in TablesOf(name) : data[t] = file[t]

FileInv ==
  before # None /\ script.run # "export" =>
    /\ RowsFit(file) /\ KeysLead(file) /\ \A t \in AllTables : file[t] = before[t]
    /\ Keeps(db)
    /\ script.run = None /\ script.todo # {} => ParentComesLater

DoneInv ==
  before # None =>
    /\ \A name \in Restoring : script.run = name => DoneIn(db, name, script.todo)
    /\ script.run = "seed" => Roomy(db, script.todo)

HistoryInv == ExportInv /\ FileInv /\ DoneInv

(* The commands that make rows of a table are of its script. *)
LEMMA MakerKind ==
  ASSUME RowsFit(file), NEW name \in Restoring, NEW p \in CommandsOf(name), NEW t \in AllTables,
         Makes(p, t)
  PROVE  /\ t \in TablesOf(name) /\ Orderly(CommandsOf(name), p, t)
         /\ p[2].do = "connect" => t = "_PostPages"
         /\ p[2].do = "create" => t \in BlockTables \cup {"permissions"}
         /\ t \in BlockTables => name = "seed" /\ Pastes(p, t)
         /\ t = "permissions" => name = "seed" /\ MakesPermission(p)
<1>1. p[2].table = t /\ p[2].do \in {"upsert", "create", "fill", "connect"}
  BY DEF Makes
<1>2. CASE name = "seed"
  <2>1. p \in SeedJsonData /\ TablesOf(name) = SeedTables /\ CommandsOf(name) = SeedJsonData
    BY <1>2 DEF CommandsOf, TablesOf
  <2>2. SeedKind(p)
    BY <2>1, SeedKinds
  <2>3. CASE Grants(p)
    BY <1>1, <2>3, GrantKinds
  <2>4. CASE MakesPermission(p) /\ Orderly(SeedJsonData, p, "permissions")
    <3>1. t = "permissions"
      BY <1>1, <2>4 DEF Orderly, Makes
    <3>2. p[2].do = "create"
      BY <2>4 DEF MakesPermission, Command
    <3> QED
      BY <1>2, <2>1, <2>4, <3>1, <3>2 DEF SeedTables, BlockTables
  <2>5. ASSUME NEW b \in BlockTables, Cuts(p, b)
        PROVE  FALSE
    BY <1>1, <2>5, CutKinds
  <2>6. ASSUME NEW b \in BlockTables, Pastes(p, b), Orderly(SeedJsonData, p, b)
        PROVE  t = b /\ t \in SeedTables /\ Pastes(p, t) /\ Orderly(SeedJsonData, p, t)
               /\ p[2].do = "create"
    <3>1. t = b
      BY <1>1, <2>6 DEF Orderly, Makes
    <3>2. p[2].do = "create"
      BY <2>6 DEF Pastes, Paste, Command
    <3> QED
      BY <2>6, <3>1, <3>2 DEF BlockTables, SeedTables
  <2>7. ASSUME NEW u \in UpdateTables, Updates(p, u)
        PROVE  FALSE
    BY <1>1, <2>7 DEF Updates
  <2>8. CASE p \in ResetSequences
    BY <1>1, <2>8, ResetKinds DEF Counts
  <2>9. CASE \E b \in BlockTables : Pastes(p, b) /\ Orderly(SeedJsonData, p, b)
    <3>1. t \in BlockTables /\ t \in SeedTables /\ Pastes(p, t) /\ Orderly(SeedJsonData, p, t)
          /\ p[2].do = "create"
      BY <2>6, <2>9
    <3> QED
      BY <1>2, <2>1, <3>1 DEF BlockTables
  <2>10. CASE \E u \in Plain : /\ Orderly(SeedJsonData, p, u)
                               /\ \/ p[2].do \in {"upsert", "fill"}
                                  \/ p[2].do = "connect" /\ u = "_PostPages"
    <3>1. PICK u \in Plain : /\ Orderly(SeedJsonData, p, u)
                             /\ \/ p[2].do \in {"upsert", "fill"}
                                \/ p[2].do = "connect" /\ u = "_PostPages"
      BY <2>10
    <3>2. u = t
      BY <1>1, <3>1 DEF Orderly, Makes
    <3>3. p[2].do # "create" /\ t \in Plain /\ Orderly(SeedJsonData, p, t)
          /\ (p[2].do = "connect" => t = "_PostPages")
      BY <3>1, <3>2
    <3> QED
      BY <2>1, <3>3 DEF Plain
  <2> QED
    BY <2>2, <2>3, <2>4, <2>5, <2>7, <2>8, <2>9, <2>10 DEF SeedKind
<1>3. CASE name \in {"seed chat", "seed chats"}
  <2>1. ChatKind(CommandsOf(name), TablesOf(name), p)
    BY <1>3, ChatTextKinds, ChatRowKinds DEF CommandsOf, TablesOf
  <2>2. PICK u \in TablesOf(name) : Orderly(CommandsOf(name), p, u) /\ p[2].do = "upsert"
    BY <2>1 DEF ChatKind
  <2>3. u = t
    BY <1>1, <2>2 DEF Orderly, Makes
  <2>4. TablesOf(name) \in {ChatTexts, ChatRows}
    BY <1>3 DEF TablesOf
  <2> QED
    BY <2>2, <2>3, <2>4 DEF ChatTexts, ChatRows, BlockTables
<1> QED
  BY <1>2, <1>3 DEF Restoring

LEMMA UpdaterKind ==
  ASSUME RowsFit(file), NEW name \in Restoring, NEW p \in CommandsOf(name), NEW t, Updates(p, t)
  PROVE  name = "seed" /\ t \in UpdateTables /\ (t = "menu_items" => Moves(p))
<1>1. p[2].table = t /\ p[2].do = "update"
  BY DEF Updates
<1>2. CASE name = "seed"
  <2>1. SeedKind(p)
    BY <1>2, SeedKinds DEF CommandsOf
  <2>2. ~Grants(p) /\ p \notin ResetSequences /\ \A b \in BlockTables : ~Cuts(p, b)
    BY <1>1, GrantKinds, ResetKinds, CutKinds DEF Counts
  <2>3. ~MakesPermission(p) /\ \A b \in BlockTables : ~Pastes(p, b)
    BY <1>1 DEF MakesPermission, Pastes, Paste, Command
  <2>4. ASSUME NEW u \in Plain, Orderly(SeedJsonData, p, u)
        PROVE  FALSE
    BY <1>1, <2>4 DEF Orderly, Makes
  <2>5. PICK u \in UpdateTables : Updates(p, u) /\ (u = "menu_items" => Moves(p))
    BY <2>1, <2>2, <2>3, <2>4 DEF SeedKind
  <2>6. u = t
    BY <1>1, <2>5 DEF Updates
  <2> QED
    BY <1>2, <2>5, <2>6
<1>3. CASE name \in {"seed chat", "seed chats"}
  BY <1>1, <1>3, ChatTextKinds, ChatRowKinds DEF CommandsOf, ChatKind
<1> QED
  BY <1>2, <1>3 DEF Restoring

LEMMA HasAll ==
  ASSUME RowsFit(file), KeysLead(file), NEW name \in Restoring, NEW t \in TablesOf(name),
         NEW x \in DOMAIN file[t]
  PROVE  Has(CommandsOf(name), t, x)
<1>1. CASE name = "seed"
  BY <1>1, SeedHave DEF TablesOf, CommandsOf
<1>2. CASE name = "seed chat"
  BY <1>2, ChatTextsHave DEF TablesOf, CommandsOf
<1>3. CASE name = "seed chats"
  BY <1>3, ChatRowsHave DEF TablesOf, CommandsOf
<1> QED
  BY <1>1, <1>2, <1>3 DEF Restoring

(* Rows of u are made in an earlier section than those of t. *)
Earlier(u, t) ==
  Section(u) < Section(t) /\ \E S \in {SeedTables, ChatTexts, ChatRows} : u \in S /\ t \in S
FromSeed(u, t) == u \in SeedTables /\ t \in ChatTexts \cup ChatRows

LEMMA SectionMakesFirst ==
  ASSUME RowsFit(file), KeysLead(file), NEW name \in Restoring, NEW u \in TablesOf(name),
         NEW z \in DOMAIN file[u], NEW p, p[1] \in Place, Section(u) < p[1][1]
  PROVE  MadeFirst(CommandsOf(name), p, u, z)
<1>1. PICK s \in CommandsOf(name) : Makes(s, u) /\ z \in DOMAIN s[2].rows
  BY HasAll DEF Has
<1>2. s[1] \in Place /\ s[1][1] = Section(u)
  BY <1>1 DEF Makes
<1>3. Before(s[1], p[1])
  BY <1>2 DEF Before
<1> QED
  BY <1>1, <1>3 DEF MadeFirst

LEMMA OwnedComeLater ==
  ASSUME NEW u \in AllTables, NEW t \in Owned(u)
  PROVE  Earlier(u, t) \/ (t \in Nested \cap DOMAIN PartOf /\ u = PartOf[t]) \/ FromSeed(u, t)
<1>1. CASE u = "languages"
  BY <1>1 DEF Owned, Earlier, FromSeed, Section, SeedTables, ChatTexts, ChatRows
<1>2. CASE u = "users"
  BY <1>2 DEF Owned, Earlier, FromSeed, Section, SeedTables, ChatTexts, ChatRows
<1>3. CASE u \in {"roles", "permissions"}
  BY <1>3 DEF Owned, Earlier, Section, SeedTables
<1>4. CASE u \in {"page_templates", "page_translations", "post_translations", "menus", "menu_items",
                  "settings", "chat_sessions", "operator_threads"}
  BY <1>4 DEF Owned, Nested, PartOf
<1>5. CASE u \in {"pages", "canned_responses"}
  BY <1>5 DEF Owned, Earlier, Section, SeedTables, ChatTexts
<1>6. CASE u = "post_categories"
  BY <1>6 DEF Owned, Nested, PartOf, Earlier, Section, SeedTables
<1>7. CASE u = "posts"
  BY <1>7 DEF Owned, Earlier, Section, SeedTables
<1> QED
  BY <1>1, <1>2, <1>3, <1>4, <1>5, <1>6, <1>7 DEF Owned

LEMMA PointingComeLater ==
  ASSUME NEW u \in AllTables, NEW t \in Pointing(u), t # "users"
  PROVE  Earlier(u, t) \/ u \in Kept \/ FromSeed(u, t)
<1>1. CASE u = "users"
  BY <1>1 DEF Pointing, Earlier, FromSeed, Section, SeedTables, ChatRows
<1>2. CASE u \in {"media", "media_folders", "page_templates"}
  BY <1>2 DEF Pointing, Earlier, Section, SeedTables
<1>3. CASE u \in {"canned_response_categories", "chat_programs", "chat_regions"}
  BY <1>3 DEF Kept
<1> QED
  BY <1>1, <1>2, <1>3 DEF Pointing

(* What a row points to is there when its command comes: it was made       *)
(* before, or nothing ever removes it, or the first script has brought it. *)
Supplied(name, p, u, z) ==
  MadeFirst(CommandsOf(name), p, u, z) \/ u \in Kept \/ (u \in SeedTables /\ name # "seed")

LEMMA TablesApart ==
  /\ \A name \in Restoring : TablesOf(name) \in {SeedTables, ChatTexts, ChatRows}
  /\ SeedTables \cap ChatTexts = {} /\ SeedTables \cap ChatRows = {} /\ ChatTexts \cap ChatRows = {}
  /\ \A one, two \in Restoring : one # two => TablesOf(one) \cap TablesOf(two) = {}
<1>1. SeedTables \cap ChatTexts = {} /\ SeedTables \cap ChatRows = {} /\ ChatTexts \cap ChatRows = {}
  BY DEF SeedTables, ChatTexts, ChatRows
<1>2. /\ TablesOf("seed") = SeedTables /\ TablesOf("seed chat") = ChatTexts
      /\ TablesOf("seed chats") = ChatRows
  BY DEF TablesOf
<1>3. \A name \in Restoring : TablesOf(name) \in {SeedTables, ChatTexts, ChatRows}
  BY <1>2, Zenon DEF Restoring
<1>4. ASSUME NEW one \in Restoring, NEW two \in Restoring, one # two, NEW t \in TablesOf(one),
             t \in TablesOf(two)
      PROVE  FALSE
  <2>1. CASE one = "seed"
    BY <1>1, <1>2, <1>4, <2>1 DEF Restoring
  <2>2. CASE one = "seed chat"
    BY <1>1, <1>2, <1>4, <2>2 DEF Restoring
  <2>3. CASE one = "seed chats"
    BY <1>1, <1>2, <1>4, <2>3 DEF Restoring
  <2> QED
    BY <2>1, <2>2, <2>3 DEF Restoring
<1>5. \A one, two \in Restoring : one # two => TablesOf(one) \cap TablesOf(two) = {}
  BY <1>4
<1> QED
  BY <1>1, <1>3, <1>5

LEMMA EarlierSupplied ==
  ASSUME RowsFit(file), KeysLead(file), NEW name \in Restoring, NEW t \in TablesOf(name),
         NEW p, p[1] \in Place, Section(t) <= p[1][1],
         NEW u \in AllTables, Earlier(u, t) \/ FromSeed(u, t), NEW z \in DOMAIN file[u]
  PROVE  Supplied(name, p, u, z)
<1>1. CASE Earlier(u, t)
  <2>1. PICK S \in {SeedTables, ChatTexts, ChatRows} : u \in S /\ t \in S
    BY <1>1 DEF Earlier
  <2>2. u \in TablesOf(name)
    BY <2>1, TablesApart
  <2>3. Section(u) < Section(t) /\ Section(u) \in Nat /\ Section(t) \in Nat
    BY <1>1, <2>2, SectionsBelow, TablesApart, TablesAre DEF Earlier
  <2>4. p[1][1] \in Nat
    BY DEF Place
  <2>5. Section(u) < p[1][1]
    BY <2>3, <2>4
  <2> QED
    BY <2>2, <2>5, SectionMakesFirst DEF Supplied
<1>2. CASE FromSeed(u, t)
  <2>1. name # "seed"
    BY <1>2, TablesApart DEF FromSeed, TablesOf
  <2> QED
    BY <1>2, <2>1 DEF FromSeed, Supplied
<1> QED
  BY <1>1, <1>2

LEMMA CategoriesInTurn ==
  ASSUME RowsFit(file)
  PROVE  OneByOne(SeedJsonData, 19, "post_categories")
<1>1. PostCategories \subseteq SeedJsonData
  BY SectionsOfSeed
<1>2. Upsert(19, "post_categories", {}, {}) \subseteq SeedJsonData
  BY <1>1 DEF PostCategories
<1>3. "post_categories" \in AllTables /\ 19 = Section("post_categories") /\ {} = Later("post_categories")
      /\ 19 \in Nat
  BY CategoryTable DEF Section, Later, InTwoPasses
<1>4. {} \in {{}, {"in"}} /\ {} \cap Later("post_categories") = {}
  OBVIOUS
<1> QED
  BY <1>2, <1>3, <1>4, UpsertsAll

LEMMA ParentSupplied ==
  ASSUME RowsFit(file), NEW p \in SeedJsonData, Orderly(SeedJsonData, p, "post_categories"),
         NEW x \in DOMAIN p[2].rows, NEW z \in DOMAIN file["post_categories"],
         <<"post_categories", z>> \in file["post_categories"][x].parent
  PROVE  MadeFirst(SeedJsonData, p, "post_categories", z) \/ ParentComesLater
<1>1. p[1] = <<19, p[1][2], 0, 0, 0>> /\ DOMAIN p[2].rows = {p[1][2]} /\ p[1] \in Place
      /\ DOMAIN p[2].rows \subseteq DOMAIN file["post_categories"]
  BY DEF Orderly, Makes
<1>2. x \in DOMAIN file["post_categories"] /\ x = p[1][2]
  BY <1>1
<1>3. x \in Nat /\ z \in Nat /\ RowFits("post_categories", x, file["post_categories"][x])
  BY <1>2, NatRows, CategoryTable
<1>4. z # x
  BY <1>3 DEF RowFits
<1>5. CASE x < z
  <2>1. <<"post_categories", z>>[2] > x
    BY <1>3, <1>5
  <2> QED
    BY <1>2, <2>1 DEF ParentComesLater
<1>6. CASE z < x
  <2>1. PICK s \in SeedJsonData :
          Makes(s, "post_categories") /\ s[1] = <<19, z, 0, 0, 0>> /\ DOMAIN s[2].rows = {z}
    BY CategoriesInTurn DEF OneByOne
  <2>2. s[1][1] = 19 /\ s[1][2] = z /\ p[1][1] = 19 /\ p[1][2] = x
    BY <1>1, <1>2, <2>1
  <2>3. Before(s[1], p[1])
    BY <1>6, <2>2 DEF Before
  <2> QED
    BY <2>1, <2>3 DEF MadeFirst
<1> QED
  BY <1>3, <1>4, <1>5, <1>6

LEMMA MakesSupplied ==
  ASSUME RowsFit(file), KeysLead(file), NEW name \in Restoring, NEW p \in CommandsOf(name),
         NEW t \in AllTables, Makes(p, t), NEW x \in DOMAIN p[2].rows,
         NEW c \in Columns \ Later(t), NEW to \in file[t][x][c]
  PROVE  Supplied(name, p, to[1], to[2]) \/ (ParentComesLater /\ t \in Trees)
<1>1. t \in TablesOf(name) /\ Orderly(CommandsOf(name), p, t)
  BY MakerKind
<1>2. x \in DOMAIN file[t] /\ p[1] \in Place /\ p[1][1] = Section(t)
  BY DEF Makes
<1>3. Section(t) \in Nat /\ Section(t) <= p[1][1]
  BY <1>2, SectionsBelow
<1>4. to \in PointsTo(file[t][x])
  BY DEF Columns, PointsTo
<1>5. to[1] \in AllTables /\ to = <<to[1], to[2]>> /\ RowFits(t, x, file[t][x])
  BY <1>2, <1>4, FitsRefs, NatRows
<1>6. to[2] \in DOMAIN file[to[1]]
  BY <1>2, <1>4 DEF KeysLead
<1>7. CASE c = "parent"
  <2>1. to[1] = t /\ t \in Trees /\ to \in file[t][x].parent
    BY <1>5, <1>7 DEF RowFits
  <2>2. t = "post_categories"
    BY <1>7, <2>1 DEF Trees, Later, InTwoPasses
  <2>3. name = "seed" /\ CommandsOf(name) = SeedJsonData
    BY <1>1, <2>2, TablesApart, CategoryTable DEF TablesOf, ChatTexts, ChatRows, Restoring, CommandsOf
  <2>4. <<"post_categories", to[2]>> \in file["post_categories"][x].parent
        /\ to[2] \in DOMAIN file["post_categories"]
    BY <1>5, <1>6, <2>1, <2>2
  <2>5. MadeFirst(SeedJsonData, p, "post_categories", to[2]) \/ ParentComesLater
    BY <1>1, <2>2, <2>3, <2>4, ParentSupplied
  <2> QED
    BY <2>1, <2>2, <2>3, <2>5 DEF Supplied
<1>8. CASE c = "in"
  <2>1. t \in Pointing(to[1])
    BY <1>5, <1>8 DEF RowFits
  <2>2. t # "users"
    BY <1>8 DEF Later
  <2>3. Earlier(to[1], t) \/ to[1] \in Kept \/ FromSeed(to[1], t)
    BY <1>5, <2>1, <2>2, PointingComeLater
  <2>4. CASE to[1] \in Kept
    BY <2>4 DEF Supplied
  <2> QED
    BY <1>1, <1>2, <1>3, <1>5, <1>6, <2>3, <2>4, EarlierSupplied
<1>9. CASE c = "of"
  <2>1. t \in Owned(to[1]) /\ to \in file[t][x].of
    BY <1>5, <1>9 DEF RowFits
  <2>2. CASE t \in Nested \cap DOMAIN PartOf /\ to[1] = PartOf[t]
    <3>1. PICK z \in Nat :
            <<PartOf[t], z>> \in file[t][x].of /\ MadeFirst(CommandsOf(name), p, PartOf[t], z)
      BY <1>1, <2>2 DEF Orderly, AfterOwner
    <3>2. z = to[2]
      BY <1>2, <1>5, <2>1, <2>2, <3>1, OneOwner
    <3> QED
      BY <2>2, <3>1, <3>2 DEF Supplied
  <2>3. CASE Earlier(to[1], t) \/ FromSeed(to[1], t)
    BY <1>1, <1>2, <1>3, <1>5, <1>6, <2>3, EarlierSupplied
  <2> QED
    BY <1>5, <2>1, <2>2, <2>3, OwnedComeLater
<1> QED
  BY <1>7, <1>8, <1>9 DEF Columns

LEMMA UpdateTableIs ==
  ASSUME NEW t \in UpdateTables
  PROVE  /\ t \in SeedTables /\ t \in AllTables
         /\ t = "users" => Later(t) = {"in"}
         /\ t # "users" => Later(t) = {"parent"}
BY TablesAre DEF UpdateTables, SeedTables, Later, InTwoPasses

(* The second pass comes after the first, and to menu items in the section *)
(* of the menus.                                                           *)
LEMMA MovesSupplied ==
  ASSUME RowsFit(file), KeysLead(file), NEW p, Moves(p), NEW y \in DOMAIN p[2].rows,
         NEW z \in DOMAIN file["menu_items"], <<"menu_items", z>> \in file["menu_items"][y].parent
  PROVE  MadeFirst(SeedJsonData, p, "menu_items", z) \/ ParentComesLater
<1>1. PICK m \in DOMAIN file["menus"] : \E item \in Under("menu_items", "menus", m) :
        p = UpdateAt(<<24, m, 2, item, 0>>, "menu_items", item, "parent")
  BY DEF Moves
<1>2. PICK item \in Under("menu_items", "menus", m) :
        p = UpdateAt(<<24, m, 2, item, 0>>, "menu_items", item, "parent")
  BY <1>1
<1>3. y = item /\ p[1] = <<24, m, 2, item, 0>>
  BY <1>2 DEF UpdateAt, Command, Single
<1>4. /\ "menu_items" \in AllTables \cap DOMAIN PartOf /\ PartOf["menu_items"] = "menus"
      /\ "menus" \in AllTables
  BY TablesAre DEF SeedTables, PartOf
<1>5. PICK n \in DOMAIN file["menus"] : z \in Under("menu_items", "menus", n)
  BY <1>4, AnOwner
<1>6. m \in Nat /\ n \in Nat /\ y \in DOMAIN file["menu_items"]
  BY <1>2, <1>3, <1>4, NatRows DEF Under
<1>7. CASE n > m
  <2> DEFINE up == <<"menu_items", z>>
  <2>1. up \in file["menu_items"][y].parent /\ up[2] \in Under("menu_items", "menus", n)
    BY <1>5
  <2>2. y \in Under("menu_items", "menus", m)
    BY <1>2, <1>3
  <2> HIDE DEF up
  <2> QED
    BY <1>6, <1>7, <2>1, <2>2 DEF ParentComesLater
<1>8. CASE ~(n > m)
  <2>1. Menus \subseteq SeedJsonData
    BY SectionsOfSeed
  <2>2. PICK s \in SeedJsonData : /\ Makes(s, "menu_items") /\ DOMAIN s[2].rows = {z}
                                  /\ s[1] = <<24, n, 1, z, 0>>
    BY <1>5, <2>1, MenuItemsMade
  <2>3. /\ s[1][1] = 24 /\ s[1][2] = n /\ s[1][3] = 1
        /\ p[1][1] = 24 /\ p[1][2] = m /\ p[1][3] = 2
    BY <1>3, <2>2
  <2>4. Before(s[1], p[1])
    BY <1>6, <1>8, <2>3 DEF Before
  <2> QED
    BY <2>2, <2>4 DEF MadeFirst
<1> QED
  BY <1>7, <1>8

LEMMA UpdatesFirst ==
  ASSUME RowsFit(file), KeysLead(file), NEW t \in UpdateTables, NEW p, Updates(p, t),
         t = "menu_items" => Moves(p), NEW x \in DOMAIN p[2].rows
  PROVE  MadeFirst(SeedJsonData, p, t, x)
<1>1. CASE t = "menu_items"
  BY <1>1, MovesUpdate, SectionsOfSeed
<1>2. CASE t # "menu_items"
  <2>1. x \in DOMAIN file[t] /\ p[1] \in Place
    BY DEF Updates
  <2>2. Section(t) < p[1][1]
    BY <1>2 DEF Updates, Section
  <2>3. "seed" \in Restoring /\ t \in TablesOf("seed") /\ CommandsOf("seed") = SeedJsonData
    BY UpdateTableIs DEF Restoring, TablesOf, CommandsOf
  <2> QED
    BY <2>1, <2>2, <2>3, SectionMakesFirst
<1> QED
  BY <1>1, <1>2

LEMMA UpdatesSupplied ==
  ASSUME RowsFit(file), KeysLead(file), NEW t \in UpdateTables, NEW p, Updates(p, t),
         t = "menu_items" => Moves(p), NEW x \in DOMAIN p[2].rows,
         NEW c \in Later(t), NEW to \in file[t][x][c]
  PROVE  MadeFirst(SeedJsonData, p, to[1], to[2]) \/ ParentComesLater
<1>1. x \in DOMAIN file[t] /\ p[1] \in Place
  BY DEF Updates
<1>2. c \in {"parent", "in"} /\ to \in PointsTo(file[t][x])
  BY LaterColumns DEF PointsTo
<1>3. to[1] \in AllTables /\ to = <<to[1], to[2]>> /\ RowFits(t, x, file[t][x])
  BY <1>1, <1>2, UpdateTableIs, FitsRefs, NatRows
<1>4. to[2] \in DOMAIN file[to[1]]
  BY <1>1, <1>2, UpdateTableIs DEF KeysLead
<1>5. "seed" \in Restoring /\ TablesOf("seed") = SeedTables /\ CommandsOf("seed") = SeedJsonData
  BY DEF Restoring, TablesOf, CommandsOf
<1>6. CASE t = "users"
  <2>1. c = "in" /\ t \in Pointing(to[1])
    BY <1>3, <1>6, UpdateTableIs DEF RowFits
  <2>2. to[1] = "media"
    BY <1>6, <2>1 DEF Pointing
  <2>3. to[1] \in SeedTables /\ Section(to[1]) < p[1][1]
    BY <1>6, <2>2 DEF SeedTables, Section, Updates
  <2> QED
    BY <1>1, <1>4, <1>5, <2>3, SectionMakesFirst
<1>7. CASE t \in {"media_folders", "pages"}
  <2>1. c = "parent" /\ to[1] = t
    BY <1>3, <1>7, UpdateTableIs DEF RowFits
  <2>2. to[1] \in SeedTables /\ Section(to[1]) < p[1][1]
    BY <1>7, <2>1 DEF SeedTables, Section, Updates
  <2> QED
    BY <1>1, <1>4, <1>5, <2>2, SectionMakesFirst
<1>8. CASE t = "menu_items"
  <2>1. c = "parent" /\ to[1] = "menu_items"
    BY <1>3, <1>8, UpdateTableIs DEF RowFits
  <2>2. /\ <<"menu_items", to[2]>> \in file["menu_items"][x].parent
        /\ to[2] \in DOMAIN file["menu_items"]
    BY <1>3, <1>4, <1>8, <2>1
  <2> QED
    BY <1>8, <2>1, <2>2, MovesSupplied
<1> QED
  BY <1>6, <1>7, <1>8 DEF UpdateTables

(* Every row that has the column of the second pass gets it. *)
LEMMA UpdatesAll ==
  ASSUME RowsFit(file), KeysLead(file), NEW t \in UpdateTables, NEW c \in Later(t),
         NEW x \in DOMAIN file[t], file[t][x][c] # {}
  PROVE  \E p \in SeedJsonData : Updates(p, t) /\ x \in DOMAIN p[2].rows
<1>1. x \in Having(t, c)
  BY DEF Having
<1>2. CASE t # "menu_items"
  <2>1. PICK n \in {13, 15, 17} :
          /\ <<n, t, c>> \in {<<13, "media_folders", "parent">>, <<15, "users", "in">>,
                              <<17, "pages", "parent">>}
          /\ SecondPass(n, t, c) \subseteq SeedJsonData
    <3>1. /\ SecondPass(13, "media_folders", "parent") \subseteq SeedJsonData
          /\ SecondPass(15, "users", "in") \subseteq SeedJsonData
          /\ SecondPass(17, "pages", "parent") \subseteq SeedJsonData
      BY SectionsOfSeed DEF MediaFolders, Avatars, Pages
    <3>2. t = "users" => c = "in"
      BY UpdateTableIs
    <3>3. t # "users" => c = "parent"
      BY UpdateTableIs
    <3>4. CASE t = "media_folders"
      BY <3>1, <3>3, <3>4
    <3>5. CASE t = "users"
      BY <3>1, <3>2, <3>5
    <3>6. CASE t = "pages"
      BY <3>1, <3>3, <3>6
    <3> QED
      BY <1>2, <3>4, <3>5, <3>6 DEF UpdateTables
  <2> DEFINE p == UpdateAt(<<n, x, 0, 0, 0>>, t, x, c)
  <2>2. p \in SecondPass(n, t, c)
    BY <1>1 DEF SecondPass
  <2>3. Updates(p, t)
    BY <2>1, <2>2, SecondPassUpdates
  <2>4. x \in DOMAIN p[2].rows
    BY DEF UpdateAt, Command, Single
  <2> QED
    BY <2>1, <2>2, <2>3, <2>4
<1>3. CASE t = "menu_items"
  <2>1. /\ t \in AllTables \cap DOMAIN PartOf /\ PartOf[t] = "menus" /\ "menus" \in AllTables
        /\ c = "parent"
    BY <1>3, TablesAre, UpdateTableIs DEF SeedTables, PartOf
  <2>2. PICK m \in DOMAIN file["menus"] : x \in Under("menu_items", "menus", m)
    BY <1>3, <2>1, AnOwner
  <2> DEFINE p == UpdateAt(<<24, m, 2, x, 0>>, "menu_items", x, "parent")
  <2>3. p \in Items(m)
    BY <1>1, <1>3, <2>1, <2>2 DEF Items
  <2>4. p \in Menus /\ Menus \subseteq SeedJsonData
    BY <2>2, <2>3, SectionsOfSeed DEF Menus
  <2>5. Moves(p)
    BY <2>2 DEF Moves
  <2>6. Updates(p, t)
    BY <1>3, <2>4, <2>5, MovesUpdate
  <2>7. x \in DOMAIN p[2].rows
    BY DEF UpdateAt, Command, Single
  <2> QED
    BY <2>4, <2>6, <2>7
<1> QED
  BY <1>2, <1>3

(* What a script creates it has made room for. *)
LEMMA RoomIsMade ==
  ASSUME RowsFit(file), NEW p \in SeedJsonData,
         MakesPermission(p) \/ \E b \in BlockTables : Pastes(p, b)
  PROVE  \E q \in SeedJsonData : Clearing(q, p) /\ Before(q[1], p[1])
<1>1. CASE MakesPermission(p)
  <2> DEFINE q == Wipe(2, 3, "permissions")
  <2>1. q \in Permissions
    BY <1>1 DEF MakesPermission, Permissions
  <2>2. q[1][1] = 2 /\ p[1][1] = 3
    BY <1>1 DEF MakesPermission, Wipe
  <2>3. Before(q[1], p[1])
    BY <2>2 DEF Before
  <2> QED
    BY <1>1, <2>1, <2>3, SectionsOfSeed DEF Clearing
<1>2. ASSUME NEW b \in BlockTables, Pastes(p, b)
      PROVE  \E q \in SeedJsonData : Clearing(q, p) /\ Before(q[1], p[1])
  <2>1. PICK x, y \in Nat : Texted(x, y, b) /\ p = Paste(x, y, b)
    BY <1>2 DEF Pastes
  <2> DEFINE translations == PartOf[b]
             t == PartOf[translations]
             n == Section(b)
             q == Cut(x, y, b)
  <2>2. PICK aliases \in {"page_slug_aliases", "post_slug_aliases"} :
          Texts(n, t, translations, b, aliases) \subseteq SeedJsonData
    BY SectionsOfSeed, TextTables DEF PageTexts, PostTexts, BlockTables
  <2>3. q \in Blocks(n, translations, b, x, y)
    BY <2>1 DEF Blocks, Texted, Cut
  <2>4. q \in Texts(n, t, translations, b, aliases)
    BY <2>1, <2>3 DEF Texts, Texted
  <2>5. /\ q[1][1] = n /\ q[1][2] = x /\ q[1][3] = 1 /\ q[1][4] = y /\ q[1][5] = 1
        /\ p[1][1] = n /\ p[1][2] = x /\ p[1][3] = 1 /\ p[1][4] = y /\ p[1][5] = 2
    BY <2>1 DEF Cut, Paste
  <2>6. Before(q[1], p[1])
    BY <2>5 DEF Before
  <2>7. Clearing(q, p)
    BY <2>1 DEF Clearing
  <2> QED
    BY <2>2, <2>4, <2>6, <2>7
<1> QED
  BY <1>1, <1>2

-----------------------------------------------------------------------------
(* Why a command is refused *)

(* A script that restores has the file before it, and what it has done in  *)
(* the database.                                                           *)
Ready(name) ==
  /\ RowsFit(db) /\ KeysLead(db) /\ RowsFit(file) /\ KeysLead(file)
  /\ Matches(db, file) /\ \A u \in Kept : DOMAIN file[u] \subseteq DOMAIN db[u]
  /\ DoneIn(db, name, script.todo)
  /\ name = "seed" => Roomy(db, script.todo)
  /\ name # "seed" => \A u \in SeedTables : DOMAIN file[u] \subseteq DOMAIN db[u]

LEMMA FirstIsThere ==
  ASSUME NEW name \in Restoring, Ready(name), NEW p, Takes(name, p), NEW u \in AllTables, NEW z,
         MadeFirst(CommandsOf(name), p, u, z)
  PROVE  z \in DOMAIN db[u]
<1>1. PICK s \in CommandsOf(name) : Makes(s, u) /\ z \in DOMAIN s[2].rows /\ Before(s[1], p[1])
  BY DEF MadeFirst
<1>2. s \notin script.todo
  BY <1>1 DEF Takes
<1>3. Changes(s, u)
  BY <1>1 DEF Changes
<1>4. Brought(db, s, u)
  BY <1>2, <1>3 DEF Ready, DoneIn
<1> QED
  BY <1>1, <1>4 DEF Brought

LEMMA SuppliedIsThere ==
  ASSUME NEW name \in Restoring, Ready(name), NEW p, Takes(name, p), NEW u \in AllTables,
         NEW z \in DOMAIN file[u], Supplied(name, p, u, z)
  PROVE  z \in DOMAIN db[u]
<1>1. CASE MadeFirst(CommandsOf(name), p, u, z)
  BY <1>1, FirstIsThere
<1>2. CASE u \in Kept
  BY <1>2 DEF Ready
<1>3. CASE u \in SeedTables /\ name # "seed"
  BY <1>3 DEF Ready
<1> QED
  BY <1>1, <1>2, <1>3 DEF Supplied

(* A reference of a row that is written is one that the file's row has, in *)
(* a column that the command brings.                                       *)
LEMMA NewReference ==
  ASSUME RowsFit(db), KeysLead(db), RowsFit(file), NEW t \in AllTables, NEW p, Changes(p, t),
         NEW x \in DOMAIN p[2].rows, Updates(p, t) => x \in DOMAIN db[t],
         NEW to \in PointsTo(Written(p[2], x)), to[2] \notin DOMAIN db[to[1]]
  PROVE  \E c \in Columns : /\ to \in file[t][x][c]
                            /\ Makes(p, t) => c \notin Later(t)
                            /\ Updates(p, t) => c \in Later(t)
<1> DEFINE row == Written(p[2], x)
<1> HIDE DEF row
<1>1. /\ x \in DOMAIN db[t] =>
           \A c \in Columns :
             row[c] = IF p[2].do # "fill" /\ c \in p[2].columns THEN file[t][x][c] ELSE db[t][x][c]
      /\ x \notin DOMAIN db[t] =>
           \A c \in Columns :
             row[c] = IF p[2].do # "update" /\ c \in Later(t) THEN {} ELSE file[t][x][c]
  BY WrittenIs DEF row
<1>2. PICK c \in Columns : to \in row[c]
  BY DEF row, PointsTo, Columns
<1>3. /\ Makes(p, t) => p[2].do # "update" /\ p[2].columns \cap Later(t) = {}
      /\ Updates(p, t) => p[2].columns = Later(t)
  BY DEF Makes, Updates
<1>4. CASE x \in DOMAIN db[t]
  <2>1. to \notin db[t][x][c]
    BY <1>4 DEF KeysLead, PointsTo, Columns
  <2>2. to \in file[t][x][c] /\ c \in p[2].columns
    BY <1>1, <1>2, <1>4, <2>1
  <2> QED
    BY <1>3, <2>2
<1>5. CASE x \notin DOMAIN db[t]
  <2>1. ~Updates(p, t) /\ Makes(p, t)
    BY <1>5 DEF Changes
  <2>2. to \in file[t][x][c] /\ c \notin Later(t)
    BY <1>1, <1>2, <1>3, <1>5, <2>1
  <2> QED
    BY <2>1, <2>2
<1> QED
  BY <1>4, <1>5

(* All that a restoring script stumbles on for good *)
LEMMA RefusedWhy ==
  ASSUME NEW name \in Restoring, Ready(name), NEW p, Takes(name, p), NEW t \in AllTables,
         Changes(p, t), Refused(p[2])
  PROVE  ParentComesLater /\ p[2].do # "connect"
<1>1. RowsFit(db) /\ KeysLead(db) /\ RowsFit(file) /\ KeysLead(file)
  BY DEF Ready
<1>2. p \in CommandsOf(name) /\ p \in script.todo
  BY DEF Takes
<1>3. p[2].table = t /\ DOMAIN p[2].rows \subseteq DOMAIN file[t]
  BY ChangesDo
<1>4. ASSUME Updates(p, t)
      PROVE  /\ name = "seed" /\ CommandsOf(name) = SeedJsonData
             /\ t \in UpdateTables /\ (t = "menu_items" => Moves(p))
             /\ \A x \in DOMAIN p[2].rows : x \in DOMAIN db[t]
  <2>1. name = "seed" /\ t \in UpdateTables /\ (t = "menu_items" => Moves(p))
    BY <1>1, <1>2, <1>4, UpdaterKind
  <2>2. CommandsOf(name) = SeedJsonData
    BY <2>1 DEF CommandsOf
  <2>3. ASSUME NEW x \in DOMAIN p[2].rows
        PROVE  x \in DOMAIN db[t]
    <3>1. MadeFirst(CommandsOf(name), p, t, x)
      BY <1>1, <1>4, <2>1, <2>2, UpdatesFirst
    <3> QED
      BY <3>1, FirstIsThere
  <2> QED
    BY <2>1, <2>2, <2>3
<1>5. ASSUME NEW x \in DOMAIN p[2].rows, NEW to \in PointsTo(Written(p[2], x)),
             to[2] \notin DOMAIN db[to[1]]
      PROVE  ParentComesLater /\ p[2].do # "connect"
  <2>1. Updates(p, t) => x \in DOMAIN db[t]
    BY <1>4
  <2>2. PICK c \in Columns : /\ to \in file[t][x][c]
                             /\ Makes(p, t) => c \notin Later(t)
                             /\ Updates(p, t) => c \in Later(t)
    BY <1>1, <1>5, <2>1, NewReference
  <2>3. to \in PointsTo(file[t][x]) /\ x \in DOMAIN file[t]
    BY <1>3, <2>2 DEF PointsTo, Columns
  <2>4. to[1] \in AllTables
    BY <1>1, <2>3, FitsRefs
  <2>5. to[2] \in DOMAIN file[to[1]]
    BY <1>1, <2>3 DEF KeysLead
  <2>6. ~Supplied(name, p, to[1], to[2])
    BY <1>5, <2>4, <2>5, SuppliedIsThere
  <2>7. CASE Makes(p, t)
    <3>1. ParentComesLater /\ t \in Trees
      BY <1>1, <1>2, <2>2, <2>6, <2>7, MakesSupplied
    <3>2. p[2].do # "connect"
      BY <1>1, <1>2, <2>7, <3>1, MakerKind DEF Trees
    <3> QED
      BY <3>1, <3>2
  <2>8. CASE Updates(p, t)
    <3>1. MadeFirst(SeedJsonData, p, to[1], to[2]) \/ ParentComesLater
      BY <1>1, <1>4, <2>2, <2>8, UpdatesSupplied
    <3>2. ParentComesLater
      BY <1>4, <2>6, <2>8, <3>1 DEF Supplied
    <3> QED
      BY <2>8, <3>2 DEF Updates
  <2> QED
    BY <2>7, <2>8 DEF Changes
<1>6. ASSUME NEW x \in DOMAIN p[2].rows, p[2].do = "create", x \in DOMAIN db[p[2].table]
      PROVE  FALSE
  <2>1. Makes(p, t)
    BY <1>6, ChangesDo DEF Changes
  <2>2. name = "seed" /\ (MakesPermission(p) \/ \E b \in BlockTables : Pastes(p, b))
    BY <1>1, <1>2, <1>6, <2>1, MakerKind
  <2>3. CommandsOf(name) = SeedJsonData
    BY <2>2 DEF CommandsOf
  <2>4. PICK q \in SeedJsonData : Clearing(q, p) /\ Before(q[1], p[1])
    BY <1>1, <1>2, <2>2, <2>3, RoomIsMade
  <2>5. q \in CommandsOf("seed") \ script.todo
    BY <2>2, <2>3, <2>4 DEF Takes
  <2>6. DOMAIN p[2].rows \cap DOMAIN db[p[2].table] = {}
    BY <1>2, <2>2, <2>4, <2>5 DEF Ready, Roomy
  <2> QED
    BY <1>6, <2>6
<1>7. ASSUME NEW x \in DOMAIN p[2].rows, p[2].do = "update", x \notin DOMAIN db[p[2].table]
      PROVE  FALSE
  <2>1. Updates(p, t)
    BY <1>7, ChangesDo DEF Changes
  <2> QED
    BY <1>3, <1>4, <1>7, <2>1
<1> QED
  BY <1>5, <1>6, <1>7 DEF Refused

-----------------------------------------------------------------------------
(* What the commands of the first script make of what it has done *)

LEMMA OwnedFits ==
  ASSUME NEW data, RowsFit(data), NEW u \in AllTables, NEW y \in DOMAIN data[u], NEW t, NEW x
  PROVE  /\ <<t, x>> \in data[u][y].of => u \in Owned(t)
         /\ <<t, x>> \in data[u][y].in => u \in Pointing(t)
         /\ <<t, x>> \in data[u][y].parent => u = t
<1>1. RowFits(u, y, data[u][y])
  BY DEF RowsFit
<1>2. <<t, x>>[1] = t
  OBVIOUS
<1> QED
  BY <1>1, <1>2 DEF RowFits

LEMMA DeletedUntouched ==
  ASSUME RowsFit(db), NEW t, NEW ids, NEW D, D = Deleted(t, ids), NEW u \in AllTables,
         u # t, u \notin Owned(t), u \notin Pointing(t)
  PROVE  D[u] = db[u]
<1>1. DeletedFrom(t, ids, D, u)
  BY DeletedIs
<1>2. TableFits(u, db[u])
  BY RowsFitTables
<1>3. DOMAIN D[u] = DOMAIN db[u]
  <2>1. \A y \in DOMAIN db[u] : y \in Spared(t, ids, u)
    BY OwnedFits DEF Spared
  <2> QED
    BY <1>1, <2>1 DEF DeletedFrom, Spared
<1>4. ASSUME NEW y \in DOMAIN db[u]
      PROVE  D[u][y] = db[u][y]
  <2>1. D[u][y] = [parent |-> Cleared(t, ids, db[u][y].parent),
                   in |-> Cleared(t, ids, db[u][y].in), of |-> db[u][y].of]
    BY <1>1, <1>3, <1>4 DEF DeletedFrom
  <2>2. \A x : <<t, x>> \notin db[u][y].parent /\ <<t, x>> \notin db[u][y].in
    BY <1>4, OwnedFits
  <2>3. Cleared(t, ids, db[u][y].parent) = db[u][y].parent
    BY <2>2 DEF Cleared
  <2>4. Cleared(t, ids, db[u][y].in) = db[u][y].in
    BY <2>2 DEF Cleared
  <2>5. db[u][y] \in TableRow
    BY <1>2, <1>4 DEF TableFits, RowFits
  <2>6. db[u][y] = [parent |-> db[u][y].parent, in |-> db[u][y].in, of |-> db[u][y].of]
    BY <2>5 DEF TableRow
  <2> QED
    BY <2>1, <2>3, <2>4, <2>6
<1>5. D[u] = [y \in DOMAIN D[u] |-> D[u][y]] /\ db[u] = [y \in DOMAIN db[u] |-> db[u][y]]
  BY <1>1, <1>2 DEF DeletedFrom, TableFits
<1>6. [y \in DOMAIN D[u] |-> D[u][y]] = [y \in DOMAIN db[u] |-> db[u][y]]
  BY <1>3, <1>4
<1> QED
  BY <1>5, <1>6

WipedTables == {"user_permissions", "role_permissions", "permissions"} \cup BlockTables

LEMMA WipedApart ==
  ASSUME NEW t \in WipedTables
  PROVE  /\ Owned(t) \subseteq {"user_permissions", "role_permissions"} /\ Pointing(t) = {}
         /\ t \in BlockTables => Owned(t) = {}
<1>1. CASE t = "permissions"
  BY <1>1 DEF Owned, Pointing, BlockTables
<1>2. CASE t \in {"user_permissions", "role_permissions"} \cup BlockTables
  <2>1. Leaf(t)
    BY <1>2, LeafTables
  <2> QED
    BY <2>1 DEF Leaf
<1> QED
  BY <1>1, <1>2 DEF WipedTables

(* Tables that seed-json-data.ts does not empty keep their rows. *)
LEMMA WipeSpares ==
  ASSUME RowsFit(db), NEW t \in WipedTables, NEW ids, NEW D, D = Deleted(t, ids), NEW u \in AllTables,
         u # t, u \notin {"user_permissions", "role_permissions"} \/ t \in BlockTables
  PROVE  D[u] = db[u]
<1>1. u \notin Owned(t) /\ u \notin Pointing(t)
  BY WipedApart
<1> QED
  BY <1>1, DeletedUntouched

(* The rows of two pastes are different. *)
LEMMA OnePaste ==
  ASSUME RowsFit(file), NEW b \in BlockTables, NEW x1, NEW y1, NEW x2, NEW y2, NEW z \in DOMAIN file[b],
         Texted(x1, y1, b), Texted(x2, y2, b),
         <<PartOf[b], y1>> \in file[b][z].of, <<PartOf[b], y2>> \in file[b][z].of
  PROVE  x1 = x2 /\ y1 = y2
<1>1. /\ b \in AllTables \cap DOMAIN PartOf /\ PartOf[b] \in AllTables \cap DOMAIN PartOf
  BY BlockTablesAre, TablesAre
<1>2. y1 = y2
  BY <1>1, OneOwner
<1>3. /\ y1 \in DOMAIN file[PartOf[b]]
      /\ <<PartOf[PartOf[b]], x1>> \in file[PartOf[b]][y1].of
      /\ <<PartOf[PartOf[b]], x2>> \in file[PartOf[b]][y1].of
  BY <1>2 DEF Texted, Under
<1>4. x1 = x2
  BY <1>1, <1>3, OneOwner
<1> QED
  BY <1>2, <1>4

LEMMA PasteRows ==
  ASSUME NEW x, NEW y, NEW b
  PROVE  /\ Paste(x, y, b)[2].table = b /\ Paste(x, y, b)[2].do = "create"
         /\ \A z \in DOMAIN Paste(x, y, b)[2].rows :
              z \in DOMAIN file[b] /\ <<PartOf[b], y>> \in file[b][z].of
BY DEF Paste, Command, Only, Under

(* Clearing commands and those that they clear for *)
LEMMA ClearingIs ==
  ASSUME NEW q, NEW r, Clearing(q, r)
  PROVE  /\ q[2].do \in {"wipe", "wipe under"}
         /\ \/ MakesPermission(r) /\ r[2].table = "permissions"
            \/ \E b \in BlockTables : Pastes(r, b) /\ r[2].table = b
<1>1. CASE q = Wipe(2, 3, "permissions") /\ MakesPermission(r)
  <2>1. q[2].do = "wipe"
    BY <1>1, WipeCommand
  <2>2. r[2].table = "permissions"
    BY <1>1 DEF MakesPermission, Command
  <2> QED
    BY <1>1, <2>1, <2>2
<1>2. ASSUME NEW b \in BlockTables, NEW x \in Nat, NEW y \in Nat,
             Texted(x, y, b), q = Cut(x, y, b), r = Paste(x, y, b)
      PROVE  q[2].do = "wipe under" /\ Pastes(r, b) /\ r[2].table = b
  <2>1. q[2].do = "wipe under"
    <3>1. Cut(x, y, b)[2].do = "wipe under"
      BY DEF Cut, Command
    <3> QED
      BY <1>2, <3>1
  <2>2. r[2].table = b
    <3>1. Paste(x, y, b)[2].table = b
      BY DEF Paste, Command
    <3> QED
      BY <1>2, <3>1
  <2>3. Pastes(r, b)
    BY <1>2 DEF Pastes
  <2> QED
    BY <2>1, <2>2, <2>3
<1> QED
  BY <1>1, <1>2 DEF Clearing

LEMMA OtherRows ==
  ASSUME RowsFit(file), NEW p \in SeedJsonData, NEW r, p # r, NEW t, Changes(p, t),
         \/ MakesPermission(r) /\ t = "permissions"
         \/ \E b \in BlockTables : Pastes(r, b) /\ t = b
  PROVE  DOMAIN p[2].rows \cap DOMAIN r[2].rows = {}
<1>1. t \in AllTables /\ t \notin UpdateTables /\ t \in BlockTables \cup {"permissions"}
  BY TablesAre, BlockTablesAre DEF UpdateTables, BlockTables, SeedTables
<1>2. "seed" \in Restoring /\ p \in CommandsOf("seed")
  BY DEF Restoring, CommandsOf
<1>3. Makes(p, t)
  BY <1>1, <1>2, UpdaterKind DEF Changes
<1>4. CASE t = "permissions"
  <2>1. MakesPermission(p)
    BY <1>1, <1>2, <1>3, <1>4, MakerKind
  <2>2. MakesPermission(r)
    BY <1>4 DEF BlockTables
  <2>3. PICK x \in DOMAIN file["permissions"] :
          p = << <<3, x, 0, 0, 0>>,
                 Command("create", "permissions", Single(x, file["permissions"][x]), {})>>
    BY <2>1 DEF MakesPermission
  <2>4. PICK z \in DOMAIN file["permissions"] :
          r = << <<3, z, 0, 0, 0>>,
                 Command("create", "permissions", Single(z, file["permissions"][z]), {})>>
    BY <2>2 DEF MakesPermission
  <2>5. DOMAIN p[2].rows = {x} /\ DOMAIN r[2].rows = {z}
    BY <2>3, <2>4 DEF Command, Single
  <2>6. x # z
    BY <2>3, <2>4
  <2> QED
    BY <2>5, <2>6
<1>5. CASE t \in BlockTables
  <2>1. PICK x1, y1 \in Nat : Texted(x1, y1, t) /\ p = Paste(x1, y1, t)
    BY <1>1, <1>2, <1>3, <1>5, MakerKind DEF Pastes
  <2>2. Pastes(r, t)
    BY <1>5 DEF BlockTables
  <2>3. PICK x2, y2 \in Nat : Texted(x2, y2, t) /\ r = Paste(x2, y2, t)
    BY <2>2 DEF Pastes
  <2>4. ASSUME NEW z \in DOMAIN p[2].rows, z \in DOMAIN r[2].rows
        PROVE  FALSE
    <3>1. /\ z \in DOMAIN file[t] /\ <<PartOf[t], y1>> \in file[t][z].of
          /\ <<PartOf[t], y2>> \in file[t][z].of
      BY <2>1, <2>3, <2>4, PasteRows
    <3>2. x1 = x2 /\ y1 = y2
      BY <1>5, <2>1, <2>3, <3>1, OnePaste
    <3> QED
      BY <2>1, <2>3, <3>2
  <2> QED
    BY <2>4
<1> QED
  BY <1>1, <1>4, <1>5

LEMMA WriteKeepsRoom ==
  ASSUME RowsFit(db), RowsFit(file), NEW p \in SeedJsonData, NEW t \in AllTables, Changes(p, t),
         Roomy(db, script.todo), NEW D, D = After(p[2])
  PROVE  Roomy(D, script.todo \ {p})
<1> SUFFICES ASSUME NEW q \in CommandsOf("seed") \ (script.todo \ {p}), NEW r \in script.todo \ {p},
                    Clearing(q, r)
             PROVE  DOMAIN r[2].rows \cap DOMAIN D[r[2].table] = {}
  BY DEF Roomy
<1>1. p[2].do \in Writes /\ p[2].table = t
  BY ChangesDo
<1>2. WithRows(D, p[2], t)
  BY <1>1, AfterWrite
<1>3. q # p
  BY <1>1, ClearingIs DEF Writes
<1>4. DOMAIN r[2].rows \cap DOMAIN db[r[2].table] = {}
  BY <1>3 DEF Roomy
<1>5. \/ MakesPermission(r) /\ r[2].table = "permissions"
      \/ \E b \in BlockTables : Pastes(r, b) /\ r[2].table = b
  BY ClearingIs
<1>6. "permissions" \in AllTables /\ BlockTables \subseteq AllTables
  BY TablesAre DEF SeedTables, BlockTables
<1>7. r[2].table \in AllTables
  BY <1>5, <1>6
<1>8. CASE r[2].table # t
  <2>1. D[r[2].table] = db[r[2].table]
    BY <1>2, <1>8, <1>7 DEF WithRows
  <2> QED
    BY <1>4, <2>1
<1>9. CASE r[2].table = t
  <2>1. DOMAIN p[2].rows \cap DOMAIN r[2].rows = {}
    BY <1>5, <1>9, OtherRows
  <2>2. DOMAIN D[t] = DOMAIN db[t] \cup DOMAIN p[2].rows
    BY <1>2 DEF WithRows
  <2> QED
    BY <1>4, <1>9, <2>1, <2>2
<1> QED
  BY <1>8, <1>9

(* The wipes of seed-json-data.ts: rows of three tables, or those that were *)
(* below a translation.                                                     *)
LEMMA SeedWipe ==
  ASSUME RowsFit(db), RowsFit(file), NEW p \in SeedJsonData, Wipes(p), NEW D, D = After(p[2])
  PROVE  \/ /\ p[1] \in Place /\ p[1][1] = 2
            /\ p[2].table \in {"user_permissions", "role_permissions", "permissions"}
            /\ D = Deleted(p[2].table, DOMAIN db[p[2].table])
         \/ \E b \in BlockTables : \E x, y \in Nat :
              /\ p = Cut(x, y, b) /\ Texted(x, y, b)
              /\ D = Deleted(b, WipedUnder(p[2]))
<1>1. "seed" \in Scripts /\ p \in CommandsOf("seed") /\ "seed" # "clean"
  BY DEF Scripts, CommandsOf
<1>2. Grants(p) \/ \E b \in BlockTables : Cuts(p, b)
  BY <1>1, WipeForm
<1>3. CASE Grants(p)
  BY <1>3, GrantKinds, AfterIs
<1>4. ASSUME NEW b \in BlockTables, Cuts(p, b)
      PROVE  \E x, y \in Nat : /\ p = Cut(x, y, b) /\ Texted(x, y, b)
                               /\ D = Deleted(b, WipedUnder(p[2]))
  <2>1. p[2].do = "wipe under" /\ p[2].table = b
    BY <1>4, CutKinds
  <2>2. D = Deleted(b, WipedUnder(p[2]))
    BY <2>1, AfterIs
  <2> QED
    BY <1>4, <2>2 DEF Cuts
<1> QED
  BY <1>2, <1>3, <1>4

LEMMA CutsFirst ==
  ASSUME NEW n \in Nat, NEW x \in Nat, NEW y \in Nat, NEW a, NEW b,
         a[1] = n /\ a[2] = x /\ a[3] = 1 /\ a[4] = y /\ a[5] = 2,
         b[1] = n /\ b[2] = x /\ b[3] = 1 /\ b[4] = y /\ b[5] = 1
  PROVE  ~Before(a, b)
BY DEF Before

(* What a cut cuts out *)
LEMMA CutRows ==
  ASSUME NEW x, NEW y, NEW b, NEW p, p = Cut(x, y, b), NEW z
  PROVE  z \in WipedUnder(p[2]) <=> z \in DOMAIN db[b] /\ <<PartOf[b], y>> \in db[b][z].of
<1>1. p[2].table = b /\ p[2].rows = Single(y, PartOf[b])
  BY DEF Cut, Command
<1>2. DOMAIN Single(y, PartOf[b]) = {y} /\ Single(y, PartOf[b])[y] = PartOf[b]
  BY DEF Single
<1> QED
  BY <1>1, <1>2 DEF WipedUnder

LEMMA MatchedOf ==
  ASSUME Matches(db, file), NEW t \in AllTables, NEW z \in DOMAIN db[t]
  PROVE  z \in DOMAIN file[t] /\ db[t][z].of = file[t][z].of
<1>1. "of" \in Columns /\ "of" \notin Later(t)
  BY LaterColumns DEF Columns
<1>2. Alike(t, db[t][z], file[t][z]) /\ z \in DOMAIN file[t]
  BY DEF Matches, AlikeRows
<1>3. db[t][z]["of"] = file[t][z]["of"]
  BY <1>1, <1>2 DEF Alike
<1> QED
  BY <1>2, <1>3

LEMMA WipeKeepsRoom ==
  ASSUME RowsFit(db), RowsFit(file), Matches(db, file), NEW p \in SeedJsonData, Wipes(p),
         Roomy(db, script.todo), NEW D, D = After(p[2])
  PROVE  Roomy(D, script.todo \ {p})
<1> SUFFICES ASSUME NEW q \in CommandsOf("seed") \ (script.todo \ {p}), NEW r \in script.todo \ {p},
                    Clearing(q, r)
             PROVE  DOMAIN r[2].rows \cap DOMAIN D[r[2].table] = {}
  BY DEF Roomy
<1>1. r[2].table \in AllTables
  <2>1. "permissions" \in AllTables /\ BlockTables \subseteq AllTables
    BY TablesAre DEF SeedTables, BlockTables
  <2> QED
    BY <2>1, ClearingIs
<1>2. PICK t, ids : D = Deleted(t, ids)
  BY SeedWipe
<1>3. DOMAIN D[r[2].table] \subseteq DOMAIN db[r[2].table]
  BY <1>1, <1>2, DeletedShrinks DEF Shrunk
<1>4. CASE q # p
  <2>1. DOMAIN r[2].rows \cap DOMAIN db[r[2].table] = {}
    BY <1>4 DEF Roomy
  <2> QED
    BY <1>3, <2>1
<1>5. CASE q = p
  <2>1. CASE q = Wipe(2, 3, "permissions") /\ MakesPermission(r)
    <3>1. p[2].do = "wipe" /\ p[2].table = "permissions"
      BY <1>5, <2>1, WipeCommand
    <3>2. r[2].table = "permissions"
      BY <2>1 DEF MakesPermission, Command
    <3>3. D = Deleted("permissions", DOMAIN db["permissions"])
      BY <3>1, AfterIs
    <3>4. DeletedFrom("permissions", DOMAIN db["permissions"], D, "permissions")
      BY <1>1, <3>2, <3>3, DeletedIs
    <3>5. DOMAIN D["permissions"] = {}
      BY <3>4 DEF DeletedFrom, Spared
    <3> QED
      BY <3>2, <3>5
  <2>2. ASSUME NEW b \in BlockTables, NEW x \in Nat, NEW y \in Nat,
               Texted(x, y, b), q = Cut(x, y, b), r = Paste(x, y, b)
        PROVE  DOMAIN r[2].rows \cap DOMAIN D[r[2].table] = {}
    <3>1. p[2].do = "wipe under" /\ p[2].table = b
      <4>1. Cuts(p, b)
        BY <1>5, <2>2 DEF Cuts
      <4> QED
        BY <4>1, CutKinds
    <3>2. D = Deleted(b, WipedUnder(p[2])) /\ b \in AllTables
      BY <3>1, AfterIs, BlockTablesAre, TablesAre
    <3>3. DeletedFrom(b, WipedUnder(p[2]), D, b)
      BY <3>2, DeletedIs
    <3>4. r[2].table = b
      BY <2>2 DEF Paste, Command
    <3>5. ASSUME NEW z \in DOMAIN r[2].rows, z \in DOMAIN D[b]
          PROVE  FALSE
      <4>1. z \in DOMAIN db[b] /\ z \notin WipedUnder(p[2])
        BY <3>3, <3>5 DEF DeletedFrom, Spared
      <4>2. <<PartOf[b], y>> \notin db[b][z].of
        BY <1>5, <2>2, <4>1, CutRows
      <4>3. <<PartOf[b], y>> \in file[b][z].of
        BY <2>2, <3>5, PasteRows
      <4> QED
        BY <3>2, <4>1, <4>2, <4>3, MatchedOf
    <3> QED
      BY <3>4, <3>5
  <2> QED
    BY <2>1, <2>2 DEF Clearing
<1> QED
  BY <1>4, <1>5

LEMMA SectionOrder ==
  ASSUME NEW a \in Place, NEW b \in Place, Before(a, b)
  PROVE  a[1] <= b[1]
BY DEF Before, Place

LEMMA WipeKeepsDone ==
  ASSUME RowsFit(db), RowsFit(file), Matches(db, file), NEW p \in SeedJsonData, Wipes(p),
         DoneIn(db, "seed", script.todo), NEW D, D = After(p[2]),
         \A q \in SeedJsonData \ script.todo : Before(q[1], p[1])
  PROVE  DoneIn(D, "seed", script.todo \ {p})
<1>1. CommandsOf("seed") = SeedJsonData /\ "seed" \in Restoring
  BY DEF CommandsOf, Restoring
<1> SUFFICES ASSUME NEW q \in SeedJsonData \ (script.todo \ {p}), NEW u \in AllTables, Changes(q, u)
             PROVE  Brought(D, q, u)
  BY <1>1 DEF DoneIn
<1>2. q[1] \in Place /\ q[2].do \in Writes
  BY ChangesDo DEF Changes, Makes, Updates
<1>3. q # p
  BY <1>2 DEF Wipes, Writes
<1>4. Before(q[1], p[1]) /\ Brought(db, q, u)
  BY <1>1, <1>3 DEF DoneIn
<1>5. ASSUME D[u] = db[u]
      PROVE  Brought(D, q, u)
  BY <1>4, <1>5 DEF Brought
<1>6. u \in WipedTables => Makes(q, u) /\ ~Updates(q, u)
  <2>1. u \in WipedTables => u \notin UpdateTables
    BY DEF WipedTables, BlockTables, UpdateTables
  <2> QED
    BY <1>1, <2>1, UpdaterKind DEF Changes
<1>7. CASE /\ p[1] \in Place /\ p[1][1] = 2
           /\ p[2].table \in {"user_permissions", "role_permissions", "permissions"}
           /\ D = Deleted(p[2].table, DOMAIN db[p[2].table])
  <2>1. u \notin {"user_permissions", "role_permissions", "permissions"}
    <3> SUFFICES ASSUME u \in {"user_permissions", "role_permissions", "permissions"} PROVE FALSE
      OBVIOUS
    <3>1. q[1][1] = Section(u) /\ Section(u) \in {3, 5, 9}
      BY <1>6 DEF WipedTables, Makes, Section
    <3>2. q[1][1] <= p[1][1]
      BY <1>2, <1>4, <1>7, SectionOrder
    <3> QED
      BY <1>7, <3>1, <3>2
  <2>2. D[u] = db[u]
    BY <1>7, <2>1, WipeSpares DEF WipedTables
  <2> QED
    BY <1>5, <2>2
<1>8. ASSUME NEW b \in BlockTables, NEW x \in Nat, NEW y \in Nat,
             p = Cut(x, y, b), Texted(x, y, b), D = Deleted(b, WipedUnder(p[2]))
      PROVE  Brought(D, q, u)
  <2>1. CASE u # b
    <3>1. b \in WipedTables
      BY DEF WipedTables
    <3>2. D[u] = db[u]
      BY <1>8, <2>1, <3>1, WipeSpares
    <3> QED
      BY <1>5, <3>2
  <2>2. CASE u = b
    <3>1. Pastes(q, b)
      BY <1>1, <1>6, <1>8, <2>2, MakerKind DEF WipedTables
    <3>2. PICK v, w \in Nat : Texted(v, w, b) /\ q = Paste(v, w, b)
      BY <3>1 DEF Pastes
    <3>3. DeletedFrom(b, WipedUnder(p[2]), D, b)
      BY <1>8, <2>2, DeletedIs
    <3>4. ASSUME NEW z \in DOMAIN q[2].rows
          PROVE  z \in DOMAIN D[b]
      <4>1. z \in DOMAIN db[b]
        BY <1>4, <2>2, <3>4 DEF Brought
      <4>2. z \in DOMAIN file[b] /\ <<PartOf[b], w>> \in file[b][z].of
        BY <3>2, <3>4, PasteRows
      <4>3. z \notin WipedUnder(p[2])
        <5> SUFFICES ASSUME z \in WipedUnder(p[2]) PROVE FALSE
          OBVIOUS
        <5>1. <<PartOf[b], y>> \in db[b][z].of
          BY <1>8, CutRows
        <5>2. <<PartOf[b], y>> \in file[b][z].of
          BY <2>2, <4>1, <5>1, MatchedOf
        <5>3. v = x /\ w = y
          BY <1>8, <3>2, <4>2, <5>2, OnePaste
        <5>4. /\ q[1][1] = Section(b) /\ q[1][2] = x /\ q[1][3] = 1 /\ q[1][4] = y /\ q[1][5] = 2
              /\ p[1][1] = Section(b) /\ p[1][2] = x /\ p[1][3] = 1 /\ p[1][4] = y /\ p[1][5] = 1
          BY <1>8, <3>2, <5>3 DEF Cut, Paste
        <5>5. Section(b) \in Nat
          BY BlockTablesAre
        <5> QED
          BY <1>4, <5>4, <5>5, CutsFirst
      <4>4. \A i \in WipedUnder(p[2]) : <<b, i>> \notin db[b][z].of
        <5>1. b \notin Owned(b)
          BY WipedApart DEF WipedTables
        <5> QED
          BY <2>2, <4>1, <5>1, OwnedFits
      <4> QED
        BY <3>3, <4>1, <4>3, <4>4 DEF DeletedFrom, Spared
    <3>5. ~Updates(q, u)
      BY <1>6, <2>2 DEF WipedTables
    <3> QED
      BY <2>2, <3>4, <3>5 DEF Brought
  <2> QED
    BY <2>1, <2>2
<1> QED
  BY <1>7, <1>8, SeedWipe

LEMMA WriteKeepsDone ==
  ASSUME RowsFit(db), RowsFit(file), NEW name \in Restoring, NEW p \in CommandsOf(name),
         NEW t \in AllTables, Changes(p, t), DoneIn(db, name, script.todo), NEW D, D = After(p[2])
  PROVE  DoneIn(D, name, script.todo \ {p})
<1> SUFFICES ASSUME NEW q \in CommandsOf(name) \ (script.todo \ {p}), NEW u \in AllTables, Changes(q, u)
             PROVE  Brought(D, q, u)
  BY DEF DoneIn
<1>1. CASE q # p
  <2>1. Brought(db, q, u)
    BY <1>1 DEF DoneIn
  <2> QED
    BY <2>1, WriteKeepsBrought
<1>2. CASE q = p
  <2>1. u = t
    BY <1>2, ChangesDo
  <2> QED
    BY <1>2, <2>1, WriteBrings
<1> QED
  BY <1>1, <1>2

-----------------------------------------------------------------------------
(* What was exported comes back: step by step *)

LEMMA ReadyIs ==
  ASSUME RestoreTypeInv, HistoryInv, before # None, NEW name \in Restoring, script.run = name
  PROVE  Ready(name)
<1>1. script.run # "export" /\ name \in Scripts
  BY DEF Restoring, Scripts
<1>2. RowsFit(file) /\ KeysLead(file) /\ Keeps(db)
  BY <1>1 DEF HistoryInv, FileInv
<1>3. RowsFit(db) /\ KeysLead(db)
  BY DEF RestoreTypeInv
<1>4. DoneIn(db, name, script.todo) /\ (name = "seed" => Roomy(db, script.todo))
  BY DEF HistoryInv, DoneInv
<1>5. ASSUME name # "seed", NEW u \in SeedTables
      PROVE  DOMAIN file[u] \subseteq DOMAIN db[u]
  <2>1. "seed" \in finished
    BY <1>5 DEF RestoreTypeInv, Restoring
  <2>2. TablesOf("seed") = SeedTables
    BY DEF TablesOf
  <2>3. db[u] = file[u]
    BY <1>2, <2>1, <2>2 DEF Keeps
  <2> QED
    BY <2>3
<1> QED
  BY <1>2, <1>3, <1>4, <1>5 DEF Ready, Keeps

LEMMA KeptTables ==
  /\ Kept \subseteq AllTables
  /\ \A t \in Kept : \A n \in 1 .. 40 : TruncateOrder[n] # t
  /\ \A t \in Kept : \A u : t \notin Owned(u)
<1>1. Kept \subseteq AllTables
  BY TablesAre DEF Kept, ChatTexts
<1>2. \A t \in Kept : \A n \in 1 .. 40 : TruncateOrder[n] # t
  BY DEF Kept, TruncateOrder
<1>3. \A t \in Kept : \A u : t \notin Owned(u)
  BY DEF Kept, Owned
<1> QED
  BY <1>1, <1>2, <1>3

(* Rows that are put in *)
LEMMA WriteKeeps ==
  ASSUME RowsFit(db), RowsFit(file), Keeps(db), NEW name \in Restoring, name \notin finished,
         finished \subseteq Restoring, NEW t \in TablesOf(name), NEW p, Changes(p, t),
         NEW D, D = After(p[2])
  PROVE  Keeps(D)
<1>1. t \in AllTables
  BY TablesApart, TablesAre
<1>2. WithRows(D, p[2], t)
  BY <1>1, ChangesDo, AfterWrite
<1>3. Matches(D, file)
  BY <1>1, WriteMatches DEF Keeps
<1>4. \A u \in AllTables : DOMAIN db[u] \subseteq DOMAIN D[u]
  <2>1. \A u \in AllTables : u = t \/ D[u] = db[u]
    BY <1>2 DEF WithRows
  <2>2. DOMAIN db[t] \subseteq DOMAIN D[t]
    BY <1>2 DEF WithRows
  <2> QED
    BY <2>1, <2>2
<1>5. \A u \in Kept : DOMAIN file[u] \subseteq DOMAIN D[u]
  BY <1>4, KeptTables DEF Keeps
<1>6. ASSUME NEW other \in finished, NEW u \in TablesOf(other)
      PROVE  D[u] = file[u]
  <2>1. other \in Restoring /\ other # name
    OBVIOUS
  <2>2. u # t /\ u \in AllTables
    BY <2>1, TablesApart, TablesAre
  <2> QED
    BY <1>2, <2>2 DEF WithRows, Keeps
<1> QED
  BY <1>3, <1>5, <1>6 DEF Keeps

(* Rows that go *)
LEMMA DeletedKeeps ==
  ASSUME RowsFit(db), RowsFit(file), Keeps(db), NEW t, NEW ids, Clears(t, ids),
         NEW D, D = Deleted(t, ids), t \notin Kept,
         \A other \in finished : \A u \in TablesOf(other) : D[u] = db[u]
  PROVE  Keeps(D)
<1>1. t \in AllTables
  BY DEF Clears
<1>2. Matches(D, file)
  BY <1>1, WipeMatches DEF Clears, Keeps
<1>3. ASSUME NEW u \in Kept
      PROVE  DOMAIN file[u] \subseteq DOMAIN D[u]
  <2>1. u \in AllTables /\ u \notin Owned(t) /\ u # t
    BY KeptTables
  <2>2. DeletedFrom(t, ids, D, u)
    BY <2>1, DeletedIs
  <2>3. \A y \in DOMAIN db[u] : y \in Spared(t, ids, u)
    BY <2>1, OwnedFits DEF Spared
  <2> QED
    BY <2>2, <2>3 DEF DeletedFrom, Keeps
<1> QED
  BY <1>2, <1>3 DEF Keeps

LEMMA WipeKeeps ==
  ASSUME RestoreTypeInv, CleanInv, RowsFit(file), Keeps(db), NEW name \in Scripts, NEW p,
         Takes(name, p), Wipes(p), NEW D, D = After(p[2])
  PROVE  Keeps(D)
<1>1. RowsFit(db) /\ p \in CommandsOf(name) /\ script.run = name
  BY DEF RestoreTypeInv, Takes
<1> DEFINE t == p[2].table
<1>2. PICK ids : Clears(t, ids) /\ D = Deleted(t, ids)
  BY WipeClears
<1>3. CASE name = "clean"
  <2>1. PICK n \in 1 .. 40 : p = Wipe(1, n, TruncateOrder[n])
    BY <1>1, <1>3, WipeForm
  <2>2. t = TruncateOrder[n]
    BY <2>1, WipeCommand
  <2>3. finished = {}
    BY <1>1, <1>3 DEF RestoreTypeInv
  <2>4. t \notin Kept
    BY <2>2, KeptTables
  <2> HIDE DEF t
  <2> QED
    BY <1>1, <1>2, <2>3, <2>4, DeletedKeeps
<1>4. CASE name # "clean"
  <2>1. name = "seed" /\ (Grants(p) \/ \E b \in BlockTables : Cuts(p, b))
    BY <1>1, <1>4, WipeForm
  <2>2. t \in WipedTables
    <3>1. CASE Grants(p)
      BY <3>1, GrantKinds DEF WipedTables
    <3>2. CASE \E b \in BlockTables : Cuts(p, b)
      BY <3>2, CutKinds DEF WipedTables
    <3> QED
      BY <2>1, <3>1, <3>2
  <2>3. "seed" \notin finished /\ finished \subseteq Restoring
    BY <1>1, <2>1 DEF RestoreTypeInv
  <2>4. ASSUME NEW other \in finished, NEW u \in TablesOf(other)
        PROVE  D[u] = db[u]
    <3>1. u \in ChatTexts \cup ChatRows
      BY <2>3 DEF Restoring, TablesOf
    <3>2. u \in AllTables /\ u \notin WipedTables
      BY <3>1, TablesAre DEF ChatTexts, ChatRows, WipedTables, BlockTables
    <3>3. u # t /\ u \notin {"user_permissions", "role_permissions"}
      BY <2>2, <3>2 DEF WipedTables
    <3> HIDE DEF t
    <3> QED
      BY <1>1, <1>2, <2>2, <3>2, <3>3, WipeSpares
  <2>5. t \notin Kept
    BY <2>2 DEF WipedTables, BlockTables, Kept
  <2> HIDE DEF t
  <2> QED
    BY <1>1, <1>2, <2>4, <2>5, DeletedKeeps
<1> QED
  BY <1>3, <1>4

(* One command that is carried out *)
LEMMA DoesKeep ==
  ASSUME RestoreTypeInv, TodoInv, CleanInv, HistoryInv, before # None,
         NEW name \in Scripts, NEW p, Takes(name, p), NEW D, D = After(p[2])
  PROVE  /\ Keeps(D)
         /\ name \in Restoring => DoneIn(D, name, script.todo \ {p})
         /\ name = "seed" => Roomy(D, script.todo \ {p})
<1>1. /\ p \in CommandsOf(name) /\ p \in script.todo /\ script.run = name
      /\ script.run # "export" /\ RowsFit(db)
  BY DEF Takes, Scripts, RestoreTypeInv
<1>2. RowsFit(file) /\ Keeps(db) /\ Matches(db, file)
  BY <1>1 DEF HistoryInv, FileInv, Keeps
<1>3. /\ name \in Restoring => DoneIn(db, name, script.todo)
      /\ name = "seed" => Roomy(db, script.todo)
  BY <1>1 DEF HistoryInv, DoneInv
<1>4. /\ name \notin finished /\ finished \subseteq Restoring
      /\ \A q \in CommandsOf(name) \ script.todo : Before(q[1], p[1])
  BY <1>1 DEF RestoreTypeInv, TodoInv
<1>5. name = "seed" => CommandsOf(name) = SeedJsonData
  BY DEF CommandsOf
<1>6. ASSUME name \in Restoring, NEW t \in TablesOf(name), Makes(p, t) \/ Updates(p, t)
      PROVE  /\ Keeps(D) /\ DoneIn(D, name, script.todo \ {p})
             /\ name = "seed" => Roomy(D, script.todo \ {p})
  <2>1. Changes(p, t) /\ t \in AllTables
    BY <1>6, TablesApart, TablesAre DEF Changes
  <2>2. Keeps(D)
    BY <1>1, <1>2, <1>4, <1>6, <2>1, WriteKeeps
  <2>3. DoneIn(D, name, script.todo \ {p})
    BY <1>1, <1>2, <1>3, <1>6, <2>1, WriteKeepsDone
  <2>4. name = "seed" => Roomy(D, script.todo \ {p})
    BY <1>1, <1>2, <1>3, <1>5, <2>1, WriteKeepsRoom
  <2> QED
    BY <2>2, <2>3, <2>4
<1>7. CASE name = "seed" /\ Wipes(p)
  <2>1. Keeps(D)
    BY <1>2, <1>7, WipeKeeps
  <2>2. DoneIn(D, "seed", script.todo \ {p})
    BY <1>1, <1>2, <1>3, <1>4, <1>5, <1>7, WipeKeepsDone DEF Restoring
  <2>3. Roomy(D, script.todo \ {p})
    BY <1>1, <1>2, <1>3, <1>5, <1>7, WipeKeepsRoom
  <2> QED
    BY <1>7, <2>1, <2>2, <2>3
<1>8. CASE name = "clean" /\ Wipes(p)
  <2>1. Keeps(D)
    BY <1>2, <1>8, WipeKeeps
  <2> QED
    BY <1>8, <2>1 DEF Restoring
<1>9. CASE Counts(p, "setval max") \/ Counts(p, "setval first")
  <2>1. p[2].do \in {"setval max", "setval first"} /\ D = db
    BY <1>9, AfterIs DEF Counts, Writes
  <2>2. \A u : ~Changes(p, u)
    BY <2>1, ChangesDo DEF Writes
  <2>3. \A r : ~Clearing(p, r)
    BY <2>1, ClearingIs
  <2>4. name \in Restoring => DoneIn(D, name, script.todo \ {p})
    <3> SUFFICES ASSUME name \in Restoring, NEW q \in CommandsOf(name) \ (script.todo \ {p}),
                        NEW u \in AllTables, Changes(q, u)
                 PROVE  Brought(D, q, u)
      BY DEF DoneIn
    <3>1. q \in CommandsOf(name) \ script.todo
      BY <2>2
    <3> QED
      BY <1>3, <2>1, <3>1 DEF DoneIn
  <2>5. name = "seed" => Roomy(D, script.todo \ {p})
    BY <1>3, <2>1, <2>3 DEF Roomy
  <2> QED
    BY <1>2, <2>1, <2>4, <2>5
<1> QED
  BY <1>1, <1>2, <1>6, <1>7, <1>8, <1>9, CommandForm

(* A command at which a script stops *)
LEMMA StopsWhy ==
  ASSUME RestoreTypeInv, HistoryInv, before # None, NEW name \in Scripts, NEW p, Takes(name, p),
         Refused(p[2])
  PROVE  ParentComesLater /\ p[2].do # "connect"
<1>1. p \in CommandsOf(name) /\ script.run = name /\ RowsFit(file) /\ p[2].do \in Writes
  BY ScriptFile DEF Takes, Refused
<1>2. ~Wipes(p) /\ ~Counts(p, "setval max") /\ ~Counts(p, "setval first")
  BY <1>1 DEF Wipes, Counts, Writes
<1>3. name \in Restoring
  BY <1>1, <1>2, CommandForm
<1>4. PICK t \in TablesOf(name) : Makes(p, t) \/ Updates(p, t)
  BY <1>1, <1>2, CommandForm
<1>5. t \in AllTables /\ Changes(p, t)
  BY <1>3, <1>4, TablesApart, TablesAre DEF Changes
<1>6. Ready(name)
  BY <1>1, <1>3, ReadyIs
<1> QED
  BY <1>3, <1>5, <1>6, RefusedWhy

(* While the file is the same, so is what is said of its commands. *)
LEMMA SameHistory ==
  ASSUME file' = file
  PROVE  /\ \A p, t : Changes(p, t)' <=> Changes(p, t)
         /\ \A data, p, t : Brought(data, p, t)' <=> Brought(data, p, t)
         /\ \A q, p : Clearing(q, p)' <=> Clearing(q, p)
         /\ \A data, name, todo : DoneIn(data, name, todo)' <=> DoneIn(data, name, todo)
         /\ \A data, todo : Roomy(data, todo)' <=> Roomy(data, todo)
         /\ ParentComesLater' <=> ParentComesLater
<1>1. \A p, t : (Makes(p, t)' <=> Makes(p, t)) /\ (Updates(p, t)' <=> Updates(p, t))
  BY DEF Makes, Updates
<1>2. \A p, t : Changes(p, t)' <=> Changes(p, t)
  BY <1>1 DEF Changes
<1>3. \A data, p, t : Brought(data, p, t)' <=> Brought(data, p, t)
  BY <1>1 DEF Brought
<1>4. \A t, owner, x : Under(t, owner, x)' = Under(t, owner, x)
  BY SameParts
<1>5. \A x, y, b : (Texted(x, y, b)' <=> Texted(x, y, b)) /\ Paste(x, y, b)' = Paste(x, y, b)
  BY <1>4 DEF Texted, Paste
<1>6. \A p : MakesPermission(p)' <=> MakesPermission(p)
  BY DEF MakesPermission
<1>7. \A q, p : Clearing(q, p)' <=> Clearing(q, p)
  BY <1>5, <1>6 DEF Clearing
<1>8. \A name : CommandsOf(name)' = CommandsOf(name)
  BY SameCommands
<1>9. \A data, name, todo : DoneIn(data, name, todo)' <=> DoneIn(data, name, todo)
  BY <1>2, <1>3, <1>8 DEF DoneIn
<1>10. \A data, todo : Roomy(data, todo)' <=> Roomy(data, todo)
  BY <1>7, <1>8 DEF Roomy
<1>11. ParentComesLater' <=> ParentComesLater
  BY <1>4 DEF ParentComesLater
<1> QED
  BY <1>2, <1>3, <1>7, <1>9, <1>10, <1>11

(* A script that has done all has brought its tables back. *)
LEMMA AllBack ==
  ASSUME NEW name \in Restoring, Ready(name), script.todo = {}, NEW t \in TablesOf(name)
  PROVE  db[t] = file[t]
<1>1. t \in AllTables
  BY TablesApart, TablesAre
<1>2. RowsFit(db) /\ RowsFit(file) /\ KeysLead(file)
  BY DEF Ready
<1>3. \A q \in CommandsOf(name) : Changes(q, t) => Brought(db, q, t)
  BY <1>1 DEF Ready, DoneIn
<1>4. TableFits(t, db[t]) /\ TableFits(t, file[t]) /\ AlikeRows(t, db[t], file[t])
  BY <1>1, <1>2, RowsFitTables DEF Ready, Matches
<1>5. ASSUME NEW x \in DOMAIN file[t]
      PROVE  x \in DOMAIN db[t]
  <2>1. PICK q \in CommandsOf(name) : Makes(q, t) /\ x \in DOMAIN q[2].rows
    BY <1>2, HasAll DEF Has
  <2> QED
    BY <1>3, <2>1 DEF Changes, Brought
<1>6. DOMAIN db[t] = DOMAIN file[t]
  BY <1>4, <1>5 DEF AlikeRows
<1>7. ASSUME NEW x \in DOMAIN file[t]
      PROVE  db[t][x] = file[t][x]
  <2>1. Alike(t, db[t][x], file[t][x])
    BY <1>4, <1>6 DEF AlikeRows
  <2>2. ASSUME NEW c \in Columns
        PROVE  db[t][x][c] = file[t][x][c]
    <3>1. CASE c \notin Later(t)
      BY <2>1, <3>1 DEF Alike
    <3>2. CASE c \in Later(t) /\ file[t][x][c] = {}
      BY <2>1, <3>2 DEF Alike
    <3>3. CASE c \in Later(t) /\ file[t][x][c] # {}
      <4>1. t \in UpdateTables
        BY <3>3 DEF Later, InTwoPasses, UpdateTables
      <4>2. t \in SeedTables
        BY <4>1 DEF UpdateTables, SeedTables
      <4>3. name = "seed"
        BY <4>2, TablesApart DEF Restoring, TablesOf
      <4>4. CommandsOf(name) = SeedJsonData
        BY <4>3 DEF CommandsOf
      <4>5. PICK q \in SeedJsonData : Updates(q, t) /\ x \in DOMAIN q[2].rows
        BY <1>2, <3>3, <4>1, UpdatesAll
      <4> QED
        BY <1>3, <3>3, <4>4, <4>5 DEF Changes, Brought
    <3> QED
      BY <3>1, <3>2, <3>3
  <2>3. db[t][x].parent = file[t][x].parent /\ db[t][x].in = file[t][x].in
        /\ db[t][x].of = file[t][x].of
    <3>1. db[t][x]["parent"] = file[t][x]["parent"] /\ db[t][x]["in"] = file[t][x]["in"]
          /\ db[t][x]["of"] = file[t][x]["of"]
      BY <2>2 DEF Columns
    <3> QED
      BY <3>1
  <2>4. db[t][x] \in TableRow /\ file[t][x] \in TableRow
    BY <1>4, <1>6, <1>7 DEF TableFits, RowFits
  <2> QED
    BY <2>3, <2>4 DEF TableRow
<1>8. db[t] = [x \in DOMAIN db[t] |-> db[t][x]] /\ file[t] = [x \in DOMAIN file[t] |-> file[t][x]]
  BY <1>4 DEF TableFits
<1>9. [x \in DOMAIN db[t] |-> db[t][x]] = [x \in DOMAIN file[t] |-> file[t][x]]
  BY <1>6, <1>7
<1> QED
  BY <1>8, <1>9

LEMMA SameKeys ==
  ASSUME NEW old, RowsFit(old), KeysLead(old), NEW new, \A t \in AllTables : new[t] = old[t]
  PROVE  KeysLead(new)
<1> SUFFICES ASSUME NEW t \in AllTables, NEW x \in DOMAIN new[t], NEW to \in PointsTo(new[t][x])
             PROVE  to[2] \in DOMAIN new[to[1]]
  BY DEF KeysLead
<1>1. new[t] = old[t]
  OBVIOUS
<1>2. x \in DOMAIN old[t] /\ to \in PointsTo(old[t][x])
  BY <1>1
<1>3. to[1] \in AllTables /\ to[2] \in DOMAIN old[to[1]]
  BY <1>2, FitsRefs DEF KeysLead
<1> QED
  BY <1>3

LEMMA SameMatches ==
  ASSUME NEW old, RowsFit(old), NEW new, \A t \in AllTables : new[t] = old[t]
  PROVE  Matches(old, new) /\ \A t \in Kept : DOMAIN new[t] \subseteq DOMAIN old[t]
<1>1. ASSUME NEW t \in AllTables
      PROVE  AlikeRows(t, old[t], new[t])
  BY DEF AlikeRows, Alike
<1> QED
  BY <1>1, KeptTables DEF Matches

(* The export *)
LEMMA HistoryExports ==
  ASSUME ScriptsInv, HistoryInv, Export \/ Dump \/ WriteFile
  PROVE  HistoryInv'
<1>1. RestoreTypeInv /\ None # "export"
  BY NoScript DEF ScriptsInv
<1>2. CASE Export
  <2>1. script'.run = "export" /\ script'.todo = Reads /\ db' = db /\ before' = db
    BY <1>2 DEF Export
  <2>2. \A n \in DOMAIN Dumps : ReadOf(n) \in Reads
    BY DEF ReadOf, Reads
  <2>3. ExportInv'
    BY <2>1, <2>2 DEF ExportInv
  <2>4. "export" \notin Restoring /\ "export" # "seed"
    BY DEF Restoring
  <2> QED
    BY <2>1, <2>3, <2>4 DEF HistoryInv, FileInv, DoneInv
<1>3. CASE Dump
  <2>1. script.run = "export" /\ db' = db /\ script.todo \subseteq Reads /\ RowsFit(script.data)
        /\ script = [run |-> script.run, todo |-> script.todo, data |-> script.data]
    BY <1>1, <1>3 DEF Dump, RestoreTypeInv
  <2>2. PICK p \in script.todo :
          \/ /\ script' = [script EXCEPT !.todo = @ \ {p},
                  !.data = [t \in DOMAIN @ |-> IF t \in p[2] THEN db[t] ELSE @[t]]]
             /\ UNCHANGED <<before, spent>>
          \/ script' = [script EXCEPT !.todo = @ \ {p}] /\ before' = None
    BY <1>3 DEF Dump
  <2>3. script'.run = "export"
    BY <2>1, <2>2
  <2>4. "export" \notin Restoring /\ "export" # "seed"
    BY DEF Restoring
  <2>5. FileInv' /\ DoneInv'
    BY <2>3, <2>4 DEF FileInv, DoneInv
  <2>6. CASE before' = None
    BY <2>5, <2>6 DEF HistoryInv, ExportInv
  <2>7. CASE before' # None
    <3>1. /\ before' = before /\ script'.todo = script.todo \ {p}
          /\ script'.data =
               [t \in DOMAIN script.data |-> IF t \in p[2] THEN db[t] ELSE script.data[t]]
      BY <2>1, <2>2, <2>7
    <3>2. DOMAIN script.data = AllTables
      BY <2>1 DEF RowsFit
    <3>3. db = before /\ \A n \in DOMAIN Dumps : ReadOf(n) \notin script.todo =>
                            \A t \in Dumps[n] : script.data[t] = db[t]
      BY <2>1, <2>7, <3>1 DEF HistoryInv, ExportInv
    <3>4. ASSUME NEW n \in DOMAIN Dumps, ReadOf(n) \notin script'.todo, NEW t \in Dumps[n]
          PROVE  script'.data[t] = db[t]
      <4>1. t \in AllTables
        BY DEF AllTables
      <4>2. CASE ReadOf(n) = p
        <5>1. p[2] = Dumps[n]
          BY <4>2 DEF ReadOf
        <5> QED
          BY <3>1, <3>2, <4>1, <5>1
      <4>3. CASE ReadOf(n) # p
        <5>1. script.data[t] = db[t]
          BY <3>1, <3>3, <3>4, <4>3
        <5> QED
          BY <3>1, <3>2, <4>1, <5>1
      <4> QED
        BY <4>2, <4>3
    <3>5. ExportInv'
      BY <2>1, <3>1, <3>3, <3>4 DEF ExportInv, ReadOf
    <3> QED
      BY <2>5, <3>5 DEF HistoryInv
  <2> QED
    BY <2>6, <2>7
<1>4. CASE WriteFile
  <2>1. /\ script.run = "export" /\ script.todo = {} /\ file' = script.data
        /\ script'.run = None /\ script'.todo = {} /\ UNCHANGED <<db, finished, before>>
    BY <1>4 DEF WriteFile, Idle
  <2>2. RowsFit(script.data) /\ RowsFit(db) /\ finished = {}
    BY <1>1, <2>1 DEF RestoreTypeInv
  <2>3. ExportInv' /\ DoneInv'
    BY <1>1, <2>1, NoScript DEF ExportInv, DoneInv, Restoring, Scripts
  <2>4. ASSUME before # None
        PROVE  /\ RowsFit(file)' /\ KeysLead(file') /\ \A t \in AllTables : file'[t] = before[t]
               /\ Matches(db, file') /\ \A t \in Kept : DOMAIN file'[t] \subseteq DOMAIN db[t]
    <3>1. db = before /\ RowsFit(before) /\ KeysLead(before)
      BY <1>1, <2>1, <2>4 DEF HistoryInv, ExportInv, RestoreTypeInv
    <3>2. ASSUME NEW t \in AllTables
          PROVE  file'[t] = before[t]
      <4>1. PICK n \in DOMAIN Dumps : t \in Dumps[n]
        BY DEF AllTables
      <4> QED
        BY <2>1, <2>4, <4>1 DEF HistoryInv, ExportInv
    <3>3. RowsFit(file)'
      BY <2>1, <2>2 DEF RowsFit
    <3>4. KeysLead(file')
      BY <3>1, <3>2, SameKeys
    <3>5. Matches(db, file') /\ \A t \in Kept : DOMAIN file'[t] \subseteq DOMAIN db[t]
      BY <3>1, <3>2, SameMatches
    <3> QED
      BY <3>2, <3>3, <3>4, <3>5
  <2>5. FileInv'
    BY <2>1, <2>2, <2>4 DEF FileInv, Keeps
  <2> QED
    BY <2>3, <2>5 DEF HistoryInv
<1> QED
  BY <1>2, <1>3, <1>4

LEMMA HistoryBegins ==
  ASSUME ScriptsInv, HistoryInv, NEW name \in Scripts, Begin(name)
  PROVE  HistoryInv'
<1>1. /\ script.run = None /\ script'.run = name /\ script'.todo = CommandsOf(name)
      /\ finished' \subseteq finished /\ UNCHANGED <<db, file, before>>
  BY DEF Begin
<1>2. None # "export" /\ name # "export" /\ name # None
  BY NoScript DEF Scripts
<1>3. CommandsOf(name)' = CommandsOf(name)
  BY <1>1, SameCommands
<1>4. FileInv'
  <2>1. before # None =>
          RowsFit(file) /\ KeysLead(file) /\ (\A t \in AllTables : file[t] = before[t]) /\ Keeps(db)
    BY <1>1, <1>2 DEF HistoryInv, FileInv
  <2>2. before # None => RowsFit(file)' /\ KeysLead(file)' /\ (\A t \in AllTables : file'[t] = before'[t])
    BY <1>1, <2>1 DEF RowsFit, KeysLead
  <2>3. before # None => Keeps(db)'
    BY <1>1, <2>1 DEF Keeps
  <2> QED
    BY <1>1, <1>2, <2>2, <2>3 DEF FileInv
<1>5. DoneInv'
  BY <1>1, <1>3 DEF DoneInv, DoneIn, Roomy
<1> QED
  BY <1>1, <1>2, <1>4, <1>5 DEF HistoryInv, ExportInv

(* No script runs any more, and nothing else has changed but, perhaps,     *)
(* which scripts have ended well.                                          *)
LEMMA HistoryRests ==
  ASSUME HistoryInv, script.run # "export", script'.run = None, UNCHANGED <<db, file, before>>,
         before # None => \A name \in finished' : \A t \in TablesOf(name) : db[t] = file[t],
         before # None /\ script'.todo # {} => ParentComesLater
  PROVE  HistoryInv'
<1>1. None # "export" /\ None # "seed" /\ None \notin Restoring
  BY NoScript DEF Scripts, Restoring
<1>2. before # None =>
        RowsFit(file) /\ KeysLead(file) /\ (\A t \in AllTables : file[t] = before[t]) /\ Keeps(db)
  BY DEF HistoryInv, FileInv
<1>3. before # None => RowsFit(file)' /\ KeysLead(file)' /\ (\A t \in AllTables : file'[t] = before'[t])
  BY <1>2 DEF RowsFit, KeysLead
<1>4. before # None => Keeps(db)'
  BY <1>2 DEF Keeps
<1>5. ParentComesLater' <=> ParentComesLater
  BY SameHistory
<1> QED
  BY <1>1, <1>3, <1>4, <1>5 DEF HistoryInv, ExportInv, FileInv, DoneInv

LEMMA HistoryEnds ==
  ASSUME ScriptsInv, HistoryInv, Finish \/ Crash
  PROVE  HistoryInv'
<1>1. RestoreTypeInv
  BY DEF ScriptsInv
<1>2. /\ script'.run = None /\ script'.todo = {} /\ UNCHANGED <<db, file>>
      /\ before' \in {before, None}
  BY DEF Finish, Crash, Idle
<1>3. CASE before' = None
  BY <1>3 DEF HistoryInv, ExportInv, FileInv, DoneInv
<1>4. CASE before' # None
  <2>1. before' = before /\ script.run # "export" /\ before # None
    BY <1>2, <1>4 DEF Finish, Crash
  <2>2. Keeps(db)
    BY <2>1 DEF HistoryInv, FileInv
  <2>3. ASSUME NEW name \in finished', NEW t \in TablesOf(name)
        PROVE  db[t] = file[t]
    <3>1. CASE name \in finished
      BY <2>2, <3>1 DEF Keeps
    <3>2. CASE name \notin finished
      <4>1. /\ Finish /\ finished' = finished \cup ({script.run} \ {"clean"}) /\ script.todo = {}
            /\ script.run \notin {None, "export"}
        BY <3>2 DEF Finish, Crash
      <4>2. name = script.run /\ name # "clean"
        BY <3>2, <4>1
      <4>3. name \in Restoring
        BY <1>1, <4>1, <4>2 DEF RestoreTypeInv, Scripts, Restoring
      <4>4. Ready(name)
        BY <1>1, <2>1, <4>2, <4>3, ReadyIs
      <4> QED
        BY <4>1, <4>3, <4>4, AllBack
    <3> QED
      BY <3>1, <3>2
  <2> QED
    BY <1>2, <2>1, <2>3, HistoryRests
<1> QED
  BY <1>3, <1>4

LEMMA HistoryProceeds ==
  ASSUME ScriptsInv, HistoryInv, Proceed
  PROVE  HistoryInv'
<1>1. RestoreTypeInv /\ TodoInv /\ CleanInv
  BY DEF ScriptsInv
<1>2. UNCHANGED <<file, finished, spent, before>>
  BY <1>1, NextCommand
<1>3. PICK name \in Scripts :
        \E p \in CommandsOf(name) : Takes(name, p) /\ (Stops(p) \/ Passes(p) \/ Does(p))
  BY <1>1, NextCommand
<1>4. PICK p \in CommandsOf(name) : Takes(name, p) /\ (Stops(p) \/ Passes(p) \/ Does(p))
  BY <1>3
<1>5. CASE before = None
  BY <1>2, <1>5 DEF HistoryInv, ExportInv, FileInv, DoneInv
<1>6. CASE before # None
  <2>1. /\ script.run = name /\ script = [run |-> script.run, todo |-> script.todo, data |-> script.data]
        /\ script.run # "export" /\ name # None
    BY <1>1, <1>4, NoScript DEF Takes, RestoreTypeInv, Scripts
  <2>2. RowsFit(file) /\ KeysLead(file) /\ (\A t \in AllTables : file[t] = before[t]) /\ Keeps(db)
    BY <1>6, <2>1 DEF HistoryInv, FileInv
  <2>3. CASE Stops(p)
    <3>1. script'.run = None /\ script'.todo = {p} /\ db' = db
      BY <2>3 DEF Stops, Idle
    <3>2. ParentComesLater
      BY <1>1, <1>4, <1>6, <2>3, StopsWhy DEF Stops
    <3>3. \A n \in finished' : \A t \in TablesOf(n) : db[t] = file[t]
      BY <1>2, <2>2 DEF Keeps
    <3> QED
      BY <1>2, <2>1, <3>1, <3>2, <3>3, HistoryRests
  <2>4. ~Passes(p)
    BY <1>1, <1>4, <1>6, StopsWhy DEF Passes
  <2>5. CASE Does(p)
    <3>1. script'.run = name /\ script'.todo = script.todo \ {p} /\ db' = After(p[2])
      BY <2>1, <2>5 DEF Does
    <3>2. /\ Keeps(db')
          /\ name \in Restoring => DoneIn(db', name, script.todo \ {p})
          /\ name = "seed" => Roomy(db', script.todo \ {p})
      BY <1>1, <1>4, <1>6, <3>1, DoesKeep
    <3>3. RowsFit(file)' /\ KeysLead(file)' /\ (\A t \in AllTables : file'[t] = before'[t])
      BY <1>2, <2>2 DEF RowsFit, KeysLead
    <3>4. Keeps(db)'
      BY <1>2, <3>2 DEF Keeps
    <3>5. name \in Restoring => DoneIn(db, name, script.todo)'
      <4>1. /\ \A q, t : Changes(q, t)' <=> Changes(q, t)
            /\ \A data, q, t : Brought(data, q, t)' <=> Brought(data, q, t)
        BY <1>2, SameHistory
      <4>2. CommandsOf(name)' = CommandsOf(name)
        BY <1>2, SameCommands
      <4>3. \A q, t : Brought(db, q, t)' <=> Brought(db', q, t)
        BY <1>2, SameHistory DEF Brought, Updates
      <4> QED
        BY <3>1, <3>2, <4>1, <4>2, <4>3 DEF DoneIn
    <3>6. name = "seed" => Roomy(db, script.todo)'
      <4>1. \A q, r : Clearing(q, r)' <=> Clearing(q, r)
        BY <1>2, SameHistory
      <4>2. CommandsOf("seed")' = CommandsOf("seed")
        BY <1>2, SameCommands
      <4> QED
        BY <3>1, <3>2, <4>1, <4>2 DEF Roomy
    <3>7. FileInv'
      BY <2>1, <3>1, <3>3, <3>4 DEF FileInv
    <3>8. DoneInv'
      BY <3>1, <3>5, <3>6 DEF DoneInv
    <3> QED
      BY <2>1, <3>1, <3>7, <3>8 DEF HistoryInv, ExportInv
  <2> QED
    BY <1>4, <2>3, <2>4, <2>5
<1> QED
  BY <1>5, <1>6

LEMMA HistoryStep ==
  ASSUME ScriptsInv, HistoryInv, [RestoreNext]_restoreVars
  PROVE  HistoryInv'
<1>1. CASE UNCHANGED restoreVars
  <2>1. UNCHANGED <<db, serial, file, script, finished, before>>
    BY <1>1 DEF restoreVars
  <2>2. \A name : CommandsOf(name)' = CommandsOf(name)
    BY <2>1, SameCommands
  <2>3. ExportInv'
    BY <2>1 DEF HistoryInv, ExportInv
  <2>4. FileInv'
    BY <2>1, SameHistory DEF HistoryInv, FileInv, Keeps, RowsFit, KeysLead
  <2>5. DoneInv'
    <3>1. \A name \in Restoring : DoneIn(db, name, script.todo) => DoneIn(db, name, script.todo)'
      BY <2>1, <2>2, SameHistory DEF DoneIn, Brought, Updates
    <3>2. Roomy(db, script.todo) => Roomy(db, script.todo)'
      BY <2>1, <2>2, SameHistory DEF Roomy
    <3> QED
      BY <2>1, <3>1, <3>2 DEF HistoryInv, DoneInv
  <2> QED
    BY <2>3, <2>4, <2>5 DEF HistoryInv
<1>2. CASE Office
  <2>1. before' = None
    BY <1>2, OfficeWorks DEF ScriptsInv
  <2> QED
    BY <2>1 DEF HistoryInv, ExportInv, FileInv, DoneInv
<1>3. CASE RestoreNext
  <2>1. \/ Export \/ Dump \/ WriteFile \/ (\E name \in Scripts : Begin(name)) \/ Proceed
        \/ Finish \/ Crash \/ Office
    BY <1>3 DEF RestoreNext, Office
  <2> QED
    BY <1>2, <2>1, HistoryExports, HistoryBegins, HistoryProceeds, HistoryEnds
<1> QED
  BY <1>1, <1>3

(* For any rows and any number of crashes, a script that ends well leaves  *)
(* its tables as they were exported as long as the back office rests and   *)
(* every table was read, and what stops it for good is a category listed   *)
(* before its parent or a menu item whose parent is of a later menu        *)
(* (seed-json-data.ts, written to be run again: every section writes its   *)
(* rows whatever it finds, and first what they point to).                  *)
THEOREM RestoreGivesBackTheExport == RestoreSpec => []RestoredAsExported
<1>1. RestoreInit => HistoryInv
  BY DEF RestoreInit, HistoryInv, ExportInv, FileInv, DoneInv
<1>2. ScriptsInv /\ HistoryInv /\ [RestoreNext]_restoreVars => HistoryInv'
  BY HistoryStep
<1>3. ScriptsInv /\ HistoryInv => RestoredAsExported
  <2> SUFFICES ASSUME ScriptsInv, HistoryInv, before # None
               PROVE  /\ \A name \in finished : \A t \in RestoredBy(name) : db[t] = before[t]
                      /\ script.run = None /\ script.todo # {} => ParentComesLater
    BY DEF RestoredAsExported
  <2>1. RestoreTypeInv /\ DOMAIN db = AllTables
    BY DEF ScriptsInv, RestoreTypeInv, RowsFit
  <2>2. ASSUME NEW name \in finished, NEW t \in RestoredBy(name)
        PROVE  db[t] = before[t]
    <3>1. script.run # "export" /\ name \in Restoring
      BY <2>1 DEF RestoreTypeInv
    <3>2. t \in TablesOf(name)
      BY <2>1, <3>1, TablesAre DEF RestoredBy, TablesOf, Restoring
    <3>3. t \in AllTables
      BY <3>1, <3>2, TablesApart, TablesAre
    <3> QED
      BY <3>1, <3>2, <3>3 DEF HistoryInv, FileInv, Keeps
  <2>3. None # "export"
    BY NoScript
  <2> QED
    BY <2>2, <2>3 DEF HistoryInv, FileInv
<1> QED
  BY <1>1, <1>2, <1>3, RestoreIsTyped, PTL DEF RestoreSpec
=============================================================================
