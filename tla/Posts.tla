--------------------------------- MODULE Posts ---------------------------------
(***************************************************************************)
(* Posts (PostsService over its repository), beside the pages.  An update  *)
(* is read three times (controller, service, repository) before it is      *)
(* written, and what becomes an alias and a version is decided by a read   *)
(* outside of the transaction, where a page looks inside.                  *)
(*                                                                         *)
(* A post has a type, which says under which page the site shows it;       *)
(* its categories, views, cover and author are left out.                   *)
(***************************************************************************)
EXTENDS Pages

CONSTANTS
  PostEditors,  \* requests about posts in flight
  PostTypes,
  MaxPosts,     \* bound: posts ever made
  MaxPostTexts  \* bound: texts of posts ever written

ASSUME PostBounds == MaxPosts \in Nat /\ MaxPostTexts \in Nat

VARIABLES
  posts,        \* id -> translations, type, published, trashed
  postAliases,  \* table post_slug_aliases: slug (unique) -> post and language
  postVersions, \* table post_versions: id of post -> translations kept
  nextPost, nextPostText,
  postHeld,     \* history: id -> every language and slug it has had
  postEdit      \* what each request has read

postTables == <<posts, postAliases, postVersions, nextPost, nextPostText, postHeld>>
postVars == <<postTables, postEdit>>

NoPostEdit ==
  [at |-> "idle", id |-> 0, lang |-> None, slug |-> None, text |-> 0, published |-> FALSE,
   seen |-> << >>]

PostsInit ==
  /\ posts = << >> /\ postAliases = << >> /\ postVersions = << >> /\ postHeld = << >>
  /\ nextPost = 1 /\ nextPostText = 1
  /\ postEdit = [e \in PostEditors |-> NoPostEdit]

-----------------------------------------------------------------------------
(* The unique index over the slugs of all posts and languages. *)
PostSlugOfOther(p, l, s) ==
  \E q \in DOMAIN posts, k \in Langs :
    <<q, k>> # <<p, l>> /\ k \in DOMAIN posts[q].tr /\ posts[q].tr[k].slug = s

(* isSlugUnique looks at one language only. *)
IsSlugUnique(p, l, s) ==
  ~\E q \in DOMAIN posts \ {p} : l \in DOMAIN posts[q].tr /\ posts[q].tr[l].slug = s

FindPostBySlug(l, s) ==
  LET current == {p \in DOMAIN posts : l \in DOMAIN posts[p].tr /\ posts[p].tr[l].slug = s}
  IN  IF current # {} THEN CHOOSE p \in current : TRUE
      ELSE IF s \in DOMAIN postAliases /\ postAliases[s].lang = l THEN postAliases[s].post ELSE 0

(* createVersion of translations, those that are there. *)
NoVersions(p, tr) == postVersions
PostVersionsWith(p, tr) ==
  Put(postVersions, p, postVersions[p] \cup {[lang |-> l, tr |-> tr[l]] : l \in DOMAIN tr})

-----------------------------------------------------------------------------
CreatePostAggregateDto ==
  [translations : CreatePageTranslations, type : PostTypes, published : BOOLEAN]

(* createAggregate: each slug is looked up, then all is written at once.   *)
(* (Writes in between are met by the index in any case.)                   *)
CreatePost(tr, type, published) ==
  LET p == nextPost IN
    /\ p <= MaxPosts
    /\ \A l \in DOMAIN tr : IsSlugUnique(p, l, tr[l]) /\ ~PostSlugOfOther(p, l, tr[l])
    /\ \A l, k \in DOMAIN tr : l # k => tr[l] # tr[k]
    /\ posts' = Put(posts, p,
         [tr |-> [l \in DOMAIN tr |-> [slug |-> tr[l], text |-> 0]],
          type |-> type, published |-> published, trashed |-> FALSE])
    /\ postVersions' = Put(postVersions, p, {})
    /\ postHeld' = Put(postHeld, p, {[lang |-> l, slug |-> tr[l]] : l \in DOMAIN tr})
    /\ nextPost' = p + 1
    /\ UNCHANGED <<postAliases, nextPostText, postEdit>>

(* PATCH :id of one translation, and whether the post is published. *)
UpdatePostAggregateDto ==
  {dto \in [lang : Langs, slug : Slugs, newText : BOOLEAN, published : BOOLEAN \cup {None}] :
     dto.newText => dto.published = None}

(* The controller reads the post for what the request leaves out, ... *)
StartUpdatePost(e, p, dto) ==
  /\ postEdit[e].at = "idle"
  /\ p \in DOMAIN posts
  /\ dto.newText \/ dto.lang \in DOMAIN posts[p].tr
  /\ dto.newText => nextPostText <= MaxPostTexts
  /\ postEdit' = [postEdit EXCEPT ![e] =
       [NoPostEdit EXCEPT !.at = "checking", !.id = p, !.lang = dto.lang, !.slug = dto.slug,
          !.text = IF dto.newText THEN nextPostText ELSE posts[p].tr[dto.lang].text,
          !.published = Flag(dto.published, posts[p].published)]]
  /\ nextPostText' = IF dto.newText THEN nextPostText + 1 ELSE nextPostText
  /\ UNCHANGED <<posts, postAliases, postVersions, nextPost, postHeld>>

(* ... updateAggregate reads it again, writes a version of the translation *)
(* if it would change, and looks a new slug up: if it is taken, the        *)
(* request ends and the version stays, ...                                 *)
CheckPost(e) ==
  LET p == postEdit[e].id  l == postEdit[e].lang
      new == [slug |-> postEdit[e].slug, text |-> postEdit[e].text]
      old == IF l \in DOMAIN posts[p].tr THEN posts[p].tr[l] ELSE None
  IN
    /\ postEdit[e].at = "checking"
    /\ p \in DOMAIN posts /\ ~posts[p].trashed
    /\ postVersions' = IF Changed(old, new) THEN PostVersionsWith(p, [k \in {l} |-> old])
                                            ELSE postVersions
    /\ postEdit' = IF IsSlugUnique(p, l, new.slug) \/ (old # None /\ ~SlugChanged(old, new))
                     THEN [postEdit EXCEPT ![e].at = "reading"]
                     ELSE [postEdit EXCEPT ![e] = NoPostEdit]
    /\ UNCHANGED <<posts, postAliases, nextPost, nextPostText, postHeld>>

(* ... and the repository reads it once more, and writes a version of      *)
(* every translation, changed or not.                                      *)
ReadPost(e) ==
  LET p == postEdit[e].id IN
    /\ postEdit[e].at = "reading"
    /\ p \in DOMAIN posts
    /\ postVersions' = PostVersionsWith(p, posts[p].tr)
    /\ postEdit' = [postEdit EXCEPT ![e].at = "writing", ![e].seen = posts[p].tr]
    /\ UNCHANGED <<posts, postAliases, nextPost, nextPostText, postHeld>>

(* The transaction.  The slug that the read has seen becomes an alias; the *)
(* slug that is overwritten may be another by now.                         *)
SeenGivesUp(e) ==
  LET l == postEdit[e].lang  seen == postEdit[e].seen
  IN  l \in DOMAIN seen /\ seen[l].slug # postEdit[e].slug

NoPostAlias(e) == postAliases
PostAliasKept(e) ==
  IF SeenGivesUp(e)
    THEN Put(postAliases, postEdit[e].seen[postEdit[e].lang].slug,
             [post |-> postEdit[e].id, lang |-> postEdit[e].lang])
    ELSE postAliases

PostIndexAllows(e) ==
  /\ ~PostSlugOfOther(postEdit[e].id, postEdit[e].lang, postEdit[e].slug)
  /\ SeenGivesUp(e) => postEdit[e].seen[postEdit[e].lang].slug \notin DOMAIN postAliases

WritePost(e) ==
  LET p == postEdit[e].id  l == postEdit[e].lang
      new == [slug |-> postEdit[e].slug, text |-> postEdit[e].text]
  IN
    /\ postEdit[e].at = "writing"
    /\ p \in DOMAIN posts
    /\ PostIndexAllows(e)
    /\ postAliases' = PostAliasKept(e)
    /\ posts' = [posts EXCEPT ![p].tr = Put(@, l, new),
                  ![p].published = Flag(postEdit[e].published, @)]
    /\ postHeld' = [postHeld EXCEPT ![p] = @ \cup {[lang |-> l, slug |-> new.slug]}]
    /\ postEdit' = [postEdit EXCEPT ![e] = NoPostEdit]
    /\ UNCHANGED <<postVersions, nextPost, nextPostText>>

(* The post has gone or is in the trash, or the index refuses. *)
UpdatePostFails(e) ==
  LET p == postEdit[e].id IN
    /\ postEdit[e].at # "idle"
    /\ \/ p \notin DOMAIN posts
       \/ postEdit[e].at = "checking" /\ p \in DOMAIN posts /\ posts[p].trashed
       \/ postEdit[e].at = "writing" /\ p \in DOMAIN posts /\ ~PostIndexAllows(e)
    /\ postEdit' = [postEdit EXCEPT ![e] = NoPostEdit]
    /\ UNCHANGED postTables

(* restoreVersion: the version is read, and the repository updates with it *)
(* as with any request, leaving the flags alone.                           *)
RestorePostVersion(e, p, v) ==
  /\ postEdit[e].at = "idle"
  /\ p \in DOMAIN posts /\ v \in postVersions[p]
  /\ postEdit' = [postEdit EXCEPT ![e] =
       [NoPostEdit EXCEPT !.at = "reading", !.id = p, !.lang = v.lang, !.slug = v.tr.slug,
                          !.text = v.tr.text, !.published = None]]
  /\ UNCHANGED postTables

-----------------------------------------------------------------------------
(* softDelete, restore and their bulk forms. *)
TrashPosts(ids, b) ==
  /\ posts' = [p \in DOMAIN posts |->
                 IF p \in ids THEN [posts[p] EXCEPT !.trashed = b] ELSE posts[p]]
  /\ UNCHANGED <<postAliases, postVersions, nextPost, nextPostText, postHeld, postEdit>>

(* publishMany, unpublishMany. *)
PublishPosts(ids, b) ==
  /\ posts' = [p \in DOMAIN posts |->
                 IF p \in ids THEN [posts[p] EXCEPT !.published = b] ELSE posts[p]]
  /\ UNCHANGED <<postAliases, postVersions, nextPost, nextPostText, postHeld, postEdit>>

(* hardDelete and hardDeleteMany, with the cascade. *)
DeletePosts(ids) ==
  LET left == DOMAIN posts \ ids IN
    /\ posts' = Only(posts, left)
    /\ postVersions' = Only(postVersions, left) /\ postHeld' = Only(postHeld, left)
    /\ postAliases' = Only(postAliases, {s \in DOMAIN postAliases : postAliases[s].post \in left})
    /\ UNCHANGED <<nextPost, nextPostText, postEdit>>

(* DELETE :id, PATCH :id/restore, DELETE :id/hard. *)
PostRowRoutes(p) ==
  TrashPosts({p}, TRUE) \/ TrashPosts({p}, FALSE) \/ DeletePosts({p})

-----------------------------------------------------------------------------
PostRoutes(e) ==
  \/ \E p \in DOMAIN posts, dto \in UpdatePostAggregateDto : StartUpdatePost(e, p, dto)
  \/ CheckPost(e) \/ ReadPost(e) \/ WritePost(e) \/ UpdatePostFails(e)
  \/ \E p \in DOMAIN posts : \E v \in postVersions[p] : RestorePostVersion(e, p, v)

PostBulkAction ==
  \E ids \in (SUBSET DOMAIN posts) \ {{}} :
    DeletePosts(ids) \/ \E b \in BOOLEAN : TrashPosts(ids, b) \/ PublishPosts(ids, b)

PostBulkRoutes ==
  \/ \E dto \in CreatePostAggregateDto : CreatePost(dto.translations, dto.type, dto.published)
  \/ \E p \in DOMAIN posts : PostRowRoutes(p)
  \/ PostBulkAction

PostsNext == (PostBulkRoutes \/ \E e \in PostEditors : PostRoutes(e)) /\ UNCHANGED pageVars

PostsSpec == PostsInit /\ [][PostsNext]_postVars

-----------------------------------------------------------------------------
Kept(p, h) ==
  \/ h.lang \in DOMAIN posts[p].tr /\ posts[p].tr[h.lang].slug = h.slug
  \/ h.slug \in DOMAIN postAliases /\ postAliases[h.slug] = [post |-> p, lang |-> h.lang]

SlugLost(p) == \E h \in postHeld[p] : Kept(p, h) /\ ~Kept(p, h)'
TextLost(p) ==
  \E l \in DOMAIN posts[p].tr :
    LET old == posts[p].tr[l] IN
      /\ old.text # posts'[p].tr[l].text
      /\ \A v \in postVersions[p] : v.lang = l => v.tr.text # old.text

(* A post keeps every slug that it had, as its own or as an alias, and     *)
(* every text that is replaced in a version, unless an update overwrites   *)
(* it that has not seen it, because another came between its read and its  *)
(* write.                                                                  *)
PostLosesByCrossingOnly ==
  [][\A p \in DOMAIN posts \cap DOMAIN posts' :
       SlugLost(p) \/ TextLost(p) =>
         \E e \in PostEditors : /\ postEdit[e].at = "writing" /\ postEdit'[e].at = "idle"
                                /\ postEdit[e].seen # posts[p].tr]_postVars
=============================================================================
