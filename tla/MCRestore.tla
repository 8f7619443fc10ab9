-------------------------------- MODULE MCRestore --------------------------------
(* A database with a row in every table, two where rows hang from each other;    *)
(* and one that has but two menus, with an item of the first below one of the    *)
(* second.                                                                       *)
EXTENDS Restore, TLC

Row(parent, in, of) == [parent |-> parent, in |-> in, of |-> of]
One(in, of) == 1 :> Row({}, in, of)
Alone == One({}, {})
Two(t, in, of) == (1 :> Row({<<t, 2>>}, in, of)) @@ (2 :> Row({}, in, of))
Ka == <<"languages", 1>>
User == <<"users", 1>>
Text(t, x) == One({}, {<<t, x>>, Ka})

MCRows ==
  ("languages" :> Alone) @@ ("permissions" :> Alone) @@ ("roles" :> Alone) @@
  ("role_permissions" :> One({}, {<<"roles", 1>>, <<"permissions", 1>>})) @@
  ("role_management" :> One({}, {<<"roles", 1>>})) @@
  ("users" :> One({<<"media", 1>>}, {})) @@
  ("user_roles" :> One({}, {User, <<"roles", 1>>})) @@
  ("user_permissions" :> One({}, {User, <<"permissions", 1>>})) @@
  ("block_type_definitions" :> Alone) @@
  ("page_templates" :> One({User}, {})) @@
  ("page_template_translations" :> Text("page_templates", 1)) @@
  ("media_folders" :> Two("media_folders", {}, {})) @@
  ("media" :> One({<<"media_folders", 1>>}, {})) @@
  ("pages" :> Two("pages", {<<"page_templates", 1>>, <<"media", 1>>, User}, {})) @@
  ("page_translations" :> Text("pages", 1)) @@
  ("page_content_blocks" :> One({}, {<<"page_translations", 1>>})) @@
  ("page_slug_aliases" :> Text("pages", 1)) @@
  ("page_versions" :> Text("pages", 1)) @@
  ("post_categories" :> ((1 :> Row({}, {}, {})) @@ (2 :> Row({<<"post_categories", 1>>}, {}, {})))) @@
  ("post_category_translations" :> Text("post_categories", 1)) @@
  ("posts" :> One({<<"media", 1>>}, {User})) @@
  ("post_translations" :> Text("posts", 1)) @@
  ("post_content_blocks" :> One({}, {<<"post_translations", 1>>})) @@
  ("post_slug_aliases" :> Text("posts", 1)) @@
  ("post_versions" :> Text("posts", 1)) @@
  ("post_category_posts" :> One({}, {<<"posts", 1>>, <<"post_categories", 1>>})) @@
  ("_PostPages" :> One({}, {<<"posts", 1>>, <<"pages", 1>>})) @@
  ("menus" :> Alone) @@
  ("menu_items" :> Two("menu_items", {}, {<<"menus", 1>>})) @@
  ("menu_item_translations" :> Text("menu_items", 1)) @@
  ("settings" :> Alone) @@
  ("setting_global_contents" :> One({}, {<<"settings", 1>>})) @@
  ("setting_localized_contents" :> Text("settings", 1)) @@
  ("notifications" :> One({User}, {})) @@
  ("user_notification_states" :> One({}, {User})) @@
  ("canned_response_categories" :> Alone) @@
  ("canned_responses" :> One({<<"canned_response_categories", 1>>}, {User})) @@
  ("canned_response_translations" :> Text("canned_responses", 1)) @@
  ("chat_programs" :> Alone) @@ ("chat_regions" :> Alone) @@ ("chat_config" :> Alone) @@
  ("chat_sessions" :> One({User, <<"chat_programs", 1>>, <<"chat_regions", 1>>}, {})) @@
  ("chat_messages" :> One({}, {<<"chat_sessions", 1>>, User})) @@
  ("operator_threads" :> One({}, {User})) @@
  ("operator_messages" :> One({}, {<<"operator_threads", 1>>, User})) @@
  ("audit_logs" :> One({User}, {})) @@ ("activity_logs" :> Alone)

MCMenus ==
  ("menus" :> ((1 :> Row({}, {}, {})) @@ (2 :> Row({}, {}, {})))) @@
  ("menu_items" :> ((1 :> Row({<<"menu_items", 2>>}, {}, {<<"menus", 1>>})) @@
                    (2 :> Row({}, {}, {<<"menus", 2>>})))) @@
  [t \in AllTables |-> << >>]

MCContents == {MCRows, MCMenus}

-----------------------------------------------------------------------------
(* Categories are moved before an export; one that is made later is made   *)
(* while nothing breaks off, and so is a file that lacks a table.          *)
RestoreBound ==
  /\ spent.moved > 0 => before # None \/ file = None
  /\ spent.made > 0 => spent.crashes = 0 /\ (finished # {} /\ before = None => script.run # "clean")
  /\ spent.undrawn > 0 => spent.made + spent.moved + spent.crashes = 0 /\ script.run # "clean"
=============================================================================
