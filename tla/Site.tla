---------------------------------- MODULE Site ----------------------------------
(***************************************************************************)
(* The public site (SiteService): what an address shows, which address it  *)
(* sends the visitor on to, and which addresses it prints for posts and    *)
(* pages.  A post is shown under the page of its section: the one whose    *)
(* template is for posts of that type, or else one that has the name of    *)
(* the type in its slugs or its template.                                  *)
(*                                                                         *)
(* A template is a record of a slug and a postType, which may be None.     *)
(* Aliases are no addresses of the site.  Texts, blocks, media, layout     *)
(* settings and the home page are left out.                                *)
(***************************************************************************)
EXTENDS Posts

CONSTANT DefaultLang    \* the language of requests that name none

ASSUME SiteLanguages == DefaultLang \in Langs

VARIABLE visit   \* the address a visitor is at, what it shows, redirects so far

siteVars == <<pageVars, postVars, visit>>

Nowhere == [lang |-> None, page |-> None, post |-> None]
NoVisit == [path |-> Nowhere, shows |-> {}, hops |-> 0, going |-> FALSE]

SiteInit == PagesInit /\ PostsInit /\ visit = NoVisit

-----------------------------------------------------------------------------
(* Which rows the site knows of. *)
OpenPages == {p \in DOMAIN pages : pages[p].published /\ ~pages[p].trashed}
OpenPosts == {p \in DOMAIN posts : posts[p].published /\ ~posts[p].trashed}

SlugsOf(row) == {row.tr[l].slug : l \in DOMAIN row.tr}
HasSlug(row, l, s) == l \in DOMAIN row.tr /\ row.tr[l].slug = s

(* The slug of a row in the language asked for, which it has. *)
FirstSlug(row, l) == row.tr[CHOOSE k \in DOMAIN row.tr : TRUE].slug
CorrectSlug(row, l) == row.tr[l].slug

(* findFirst: some row, or by its id.                                      *)
AnyOf(S) == CHOOSE x \in S : TRUE
FirstOf(S) == CHOOSE x \in S : \A y \in S : x <= y
LastOf(S) == CHOOSE x \in S : \A y \in S : y <= x

(* findPageTranslation, findPostTranslation: at most one row.  Rows that   *)
(* have the slug in some language, and are there in the one asked for.     *)
FindPageTranslation(s, l) == {p \in OpenPages : HasSlug(pages[p], l, s)}
FindPostTranslation(s, l) == {p \in OpenPosts : HasSlug(posts[p], l, s)}
OtherPages(s, l) == {p \in OpenPages : s \in SlugsOf(pages[p]) /\ l \in DOMAIN pages[p].tr}
OtherPosts(s, l) == {p \in OpenPosts : s \in SlugsOf(posts[p]) /\ l \in DOMAIN posts[p].tr}

(* inferPostTypeFromPage: the template's type, else a slug of the page     *)
(* that is the name of a type, else the template's slug.                   *)
InferPostTypes(row) ==
  IF row.template.postType # None THEN {row.template.postType}
  ELSE IF SlugsOf(row) \cap PostTypes # {} THEN SlugsOf(row) \cap PostTypes
  ELSE {row.template.slug} \cap PostTypes

(* getSectionSlugsByType: pages made for the type win, the last of them;   *)
(* of the others the first.  The rows come in the order of their ids.      *)
MadeFor(t) == {p \in OpenPages : pages[p].template.postType = t}
MadeLike(t) ==
  {p \in OpenPages : pages[p].template.postType = None /\ t \in InferPostTypes(pages[p])}

SectionPageOfAll(t) ==
  LET made == {p \in DOMAIN pages : pages[p].template.postType = t}
  IN  IF made # {} THEN {LastOf(made)} ELSE {}
SectionPage(t) ==
  IF MadeFor(t) # {} THEN {LastOf(MadeFor(t))}
  ELSE IF MadeLike(t) # {} THEN {FirstOf(MadeLike(t))} ELSE {}

SectionSlug(t, l) == {pages[p].tr[l].slug : p \in {q \in SectionPage(t) : l \in DOMAIN pages[q].tr}}

(* findSectionPageTranslation: the page asked for if it is for the type,   *)
(* else the first page in the language that could be.                      *)
AnySectionPage(l, t) ==
  {p \in OpenPages :
     /\ l \in DOMAIN pages[p].tr
     /\ \/ pages[p].template.postType = t
        \/ t \in SlugsOf(pages[p])
        \/ pages[p].template.slug = t}

AskedSectionPage(l, t, s) ==
  {p \in FindPageTranslation(s, l) : t \in InferPostTypes(pages[p])}

FindSectionPage(l, t, s) ==
  IF AskedSectionPage(l, t, s) # {} THEN AskedSectionPage(l, t, s)
  ELSE IF AnySectionPage(l, t) # {} THEN {FirstOf(AnySectionPage(l, t))} ELSE {}

-----------------------------------------------------------------------------
(* Answers: rows that are shown, or an address to go on to, or neither.    *)
Show(ids) == [shows |-> ids, to |-> Nowhere]
Redirect(path) == [shows |-> {}, to |-> path]
NotFound == [shows |-> {}, to |-> Nowhere]

(* getPageBundleByCode: the page with this slug, or the address that the   *)
(* page with this slug in another language has in this one.                *)
PageBundle(path) ==
  LET exact == FindPageTranslation(path.page, path.lang)
      other == OtherPages(path.page, path.lang)
  IN  IF exact # {} THEN Show({[kind |-> "page", id |-> p] : p \in exact})
      ELSE IF other = {} THEN NotFound
      ELSE Redirect([path EXCEPT !.page = CorrectSlug(pages[AnyOf(other)], path.lang)])

(* getPostBundleByCode: the same of a post. *)
PostBundle(path) ==
  LET exact == FindPostTranslation(path.post, path.lang)
      other == OtherPosts(path.post, path.lang)
  IN  IF exact # {} THEN Show({[kind |-> "post", id |-> p] : p \in exact})
      ELSE IF other = {} THEN NotFound
      ELSE Redirect([path EXCEPT !.post = CorrectSlug(posts[AnyOf(other)], path.lang)])

(* The slug that a post of the type has its section under, once the pages  *)
(* are read: of the section if there is one, else of the page found.       *)
CanonicalSection(l, t, s) ==
  IF SectionPage(t) # {} /\ SectionSlug(t, l) # {} THEN SectionSlug(t, l)
  ELSE {pages[p].tr[l].slug : p \in FindSectionPage(l, t, s)}

(* getPagePostBundleByCode, when the post has this slug in the language, *)
ExactPostBundle(path, p) ==
  LET t == posts[p].type
      section == CanonicalSection(path.lang, t, path.page)
      found == FindSectionPage(path.lang, t, path.page)
      page == IF found # {} THEN found ELSE FindPageTranslation(path.page, path.lang)
  IN  IF section = {} THEN NotFound
      ELSE IF path.page \notin section
        THEN Redirect([path EXCEPT !.page = AnyOf(section)])
      ELSE IF page = {} THEN NotFound
      ELSE Show({[kind |-> "post", id |-> p]} \cup {[kind |-> "page", id |-> q] : q \in page})

(* and when it has it in another. *)
PagePostBundle(path) ==
  LET exact == FindPostTranslation(path.post, path.lang)
      other == OtherPosts(path.post, path.lang)
      row == posts[AnyOf(other)]
      section == SectionSlug(row.type, path.lang)
  IN  IF exact # {} THEN ExactPostBundle(path, AnyOf(exact))
      ELSE IF other = {} THEN NotFound
      ELSE Redirect([path EXCEPT !.post = CorrectSlug(row, path.lang),
                                 !.page = IF section = {} THEN @ ELSE AnyOf(section)])

(* strictResolveLanguage: no content in a language that is not there. *)
Bundle(path) ==
  IF path.lang \notin Langs THEN NotFound
  ELSE IF path.post = None THEN PageBundle(path)
  ELSE IF path.page = None THEN PostBundle(path)
  ELSE PagePostBundle(path)

-----------------------------------------------------------------------------
(* The addresses printed with what is shown: mapPage prints one for every  *)
(* translation, mapPostDetail and mapPostSummary one for each that the     *)
(* section of the post has too.                                            *)
PagePaths(p) ==
  {[lang |-> l, page |-> pages[p].tr[l].slug, post |-> None] : l \in DOMAIN pages[p].tr}

PostPaths(p) ==
  UNION {{[lang |-> l, page |-> s, post |-> posts[p].tr[l].slug] : s \in SectionSlug(posts[p].type, l)} :
           l \in DOMAIN posts[p].tr}

(* getPaginatedPostsByType and search: posts that are open and have the    *)
(* language.                                                               *)
Listed(t, l) == {p \in OpenPosts : posts[p].type = t /\ l \in DOMAIN posts[p].tr}

(* resolveLanguageByCode, which falls back. *)
Resolved(l) == IF l \in Langs THEN l ELSE DefaultLang

(* getTranslatedSlug of a page; of a post, published or not. *)
TranslatedSlug(l, kind, s) ==
  IF kind = "page"
    THEN {pages[p].tr[Resolved(l)].slug : p \in OtherPages(s, Resolved(l))}
    ELSE {posts[p].tr[Resolved(l)].slug : p \in {q \in DOMAIN posts :
            s \in SlugsOf(posts[q]) /\ Resolved(l) \in DOMAIN posts[q].tr}}

-----------------------------------------------------------------------------
(* A visitor comes to an address, ...                                      *)
Visit(path) ==
  /\ ~visit.going /\ visit.path = Nowhere
  /\ visit' = [path |-> path, shows |-> {}, hops |-> 0, going |-> TRUE]
  /\ UNCHANGED <<pageVars, postVars>>

(* ... gets an answer, and follows it. *)
Follow ==
  LET answer == Bundle(visit.path) IN
    /\ visit.going
    /\ visit' = IF answer.to # Nowhere
                  THEN [visit EXCEPT !.path = answer.to, !.hops = @ + 1]
                  ELSE [visit EXCEPT !.shows = answer.shows, !.going = FALSE]
    /\ UNCHANGED <<pageVars, postVars>>

(* The switch of language on a page or a post that is shown. *)
Switch(l) ==
  LET post == visit.path.post
      slugs == IF post = None THEN TranslatedSlug(l, "page", visit.path.page)
                              ELSE TranslatedSlug(l, "post", post)
  IN
    /\ ~visit.going /\ visit.shows # {}
    /\ \E s \in slugs :
         visit' = [visit EXCEPT !.hops = 0, !.going = TRUE,
           !.path = IF post = None THEN [Nowhere EXCEPT !.lang = l, !.page = s]
                                   ELSE [Nowhere EXCEPT !.lang = l, !.post = s]]
    /\ UNCHANGED <<pageVars, postVars>>

(* Somewhere between two visits the editors have made the site. *)
MakeSite ==
  /\ visit.path = Nowhere
  /\ \/ \E tr \in CreatePageTranslations, t \in Templates, b \in BOOLEAN :
          CreatePage(tr, t, b) /\ UNCHANGED postVars
     \/ \E dto \in CreatePostAggregateDto :
          CreatePost(dto.translations, dto.type, dto.published) /\ UNCHANGED pageVars
  /\ UNCHANGED visit

Paths == {path \in [lang : Langs \cup {None}, page : Slugs \cup {None}, post : Slugs \cup {None}] :
            path.page # None \/ path.post # None}

SiteNext == MakeSite \/ Follow \/ (\E path \in Paths : Visit(path)) \/ \E l \in Langs : Switch(l)
SiteSpec == SiteInit /\ [][SiteNext]_siteVars

-----------------------------------------------------------------------------
(* A visitor who follows redirects, also after a switch of language, is     *)
(* sent on twice at most: once for the slug of the post and once for its   *)
(* section.                                                                *)
RedirectsSettle == visit.hops <= 2

(* An address that the site prints for a page or a post shows it, without  *)
(* a redirect, whichever page is the section.                              *)
PrintedPathsShow ==
  visit = NoVisit =>
    /\ \A p \in OpenPages : \A path \in PagePaths(p) :
         [kind |-> "page", id |-> p] \in Bundle(path).shows
    /\ \A t \in PostTypes, l \in Langs : \A p \in Listed(t, l) : \A path \in PostPaths(p) :
         [kind |-> "post", id |-> p] \in Bundle(path).shows
=============================================================================
