--------------------------------- MODULE Pages ---------------------------------
(***************************************************************************)
(* Pages of the site (PagesService over its repository): translations with *)
(* their slugs, the aliases of slugs that were given up, the versions of   *)
(* texts that were replaced, the trash, and the slugs that menu items keep *)
(* of the pages they lead to.  A PATCH reads the page twice, writes a      *)
(* version of what it read, and then writes the page in one transaction.   *)
(*                                                                         *)
(* A text stands for the title, the content and the blocks of a            *)
(* translation, which decide whether a version is made: 0 is the text a    *)
(* page is made with.  A page has a template, which the site looks at.     *)
(* Excerpts and the like, parents, the order of pages and the home flag    *)
(* are left out.                                                           *)
(***************************************************************************)
EXTENDS Tables

CONSTANTS
  PageEditors,  \* requests of the back office in flight
  Langs,        \* languages, all of them active
  Slugs,
  Templates,    \* templates that a page can have
  MaxPages,     \* bound: pages ever made
  MaxTexts      \* bound: texts ever written

ASSUME PageBounds == MaxPages \in Nat /\ MaxTexts \in Nat /\ None \notin Slugs
ASSUME NoneIsNoTranslation == None \notin [slug : Slugs, text : Nat]

VARIABLES
  pages,        \* id -> translations, template, published, trashed
  aliases,      \* table page_slug_aliases: slug (unique) -> page and language
  versions,     \* table page_versions: id of page -> translations kept
  links,        \* slugs that menu items hold of a page: id -> language -> slug
  nextPage, nextText,
  held,         \* history: id -> every language and slug it has had
  pageEdit      \* what each request has read

pageTables == <<pages, aliases, versions, links, nextPage, nextText, held>>
pageVars == <<pageTables, pageEdit>>

NoPageEdit ==
  [at |-> "idle", id |-> 0, lang |-> None, slug |-> None, text |-> 0,
   published |-> FALSE, asked |-> FALSE, seen |-> None,
   crossed |-> FALSE, overtaken |-> FALSE]

PagesInit ==
  /\ pages = << >> /\ aliases = << >> /\ versions = << >> /\ links = << >>
  /\ held = << >> /\ nextPage = 1 /\ nextText = 1
  /\ pageEdit = [e \in PageEditors |-> NoPageEdit]

-----------------------------------------------------------------------------
(* The unique index over the slugs of all pages and languages. *)
SlugOfOther(p, l, s) ==
  \E q \in DOMAIN pages, k \in Langs :
    <<q, k>> # <<p, l>> /\ k \in DOMAIN pages[q].tr /\ pages[q].tr[k].slug = s

(* findBySlug of the back office: a translation, or else an alias. *)
FindBySlug(l, s) ==
  LET current == {p \in DOMAIN pages : l \in DOMAIN pages[p].tr /\ pages[p].tr[l].slug = s}
  IN  IF current # {} THEN CHOOSE p \in current : TRUE
      ELSE IF s \in DOMAIN aliases /\ aliases[s].lang = l THEN aliases[s].page ELSE 0

(* Slugs given up in a transaction become aliases.  An alias is there once *)
(* and stays: a slug cannot be given up twice.                             *)
GivesUp(p, l, s) == l \in DOMAIN pages[p].tr /\ pages[p].tr[l].slug # s
AliasFree(p, l, s) == GivesUp(p, l, s) => pages[p].tr[l].slug \notin DOMAIN aliases
NoAlias(p, l, s) == aliases
AliasKept(p, l, s) ==
  IF GivesUp(p, l, s) THEN Put(aliases, pages[p].tr[l].slug, [page |-> p, lang |-> l])
  ELSE aliases

(* The menu items that lead to the page get a slug that has changed. *)
NotRelinked(p, l, s) == links
Relinked(p, l, s) ==
  IF p \in DOMAIN links /\ l \in DOMAIN links[p] /\ (l \in DOMAIN pages[p].tr => GivesUp(p, l, s))
    THEN [links EXCEPT ![p][l] = s] ELSE links

(* Requests that have read the translation and will write it. *)
Crossing(jobs, p, l) ==
  [e \in PageEditors |->
     IF jobs[e].id = p /\ jobs[e].at \in {"versioning", "writing"} /\ jobs[e].lang = l
       THEN [jobs[e] EXCEPT !.crossed = TRUE] ELSE jobs[e]]

(* Requests that have read the flags of pages that are unpublished now. *)
Overtaking(jobs, ids) ==
  [e \in PageEditors |-> IF jobs[e].id \in ids /\ jobs[e].published
                            THEN [jobs[e] EXCEPT !.overtaken = TRUE] ELSE jobs[e]]

-----------------------------------------------------------------------------
(* createAggregate: the page and its translations in one transaction; the  *)
(* index alone says whether its slugs are free.                            *)
CreatePage(tr, template, published) ==
  LET p == nextPage IN
    /\ p <= MaxPages
    /\ \A l \in DOMAIN tr : ~SlugOfOther(p, l, tr[l])
    /\ \A l, k \in DOMAIN tr : l # k => tr[l] # tr[k]
    /\ pages' = Put(pages, p,
         [tr |-> [l \in DOMAIN tr |-> [slug |-> tr[l], text |-> 0]],
          template |-> template, published |-> published, trashed |-> FALSE])
    /\ versions' = Put(versions, p, {})
    /\ held' = Put(held, p, {[lang |-> l, slug |-> tr[l]] : l \in DOMAIN tr})
    /\ nextPage' = p + 1
    /\ UNCHANGED <<aliases, links, nextText, pageEdit>>

(* What a PATCH can say: of one translation its slug and text, and whether *)
(* the page is published; a text is new or the one the editor was shown.   *)
UpdatePageAggregateDto ==
  {dto \in [lang : Langs, slug : Slugs, newText : BOOLEAN, published : BOOLEAN \cup {None}] :
     dto.newText => dto.published = None}

(* PATCH :id.  The controller reads the page; the flags that the request   *)
(* leaves out are to be written as they were read.                         *)
DefaultTrue(asked, read) == IF asked = None THEN TRUE ELSE asked
Flag(asked, read) == IF asked = None THEN read ELSE asked

StartUpdate(e, p, dto) ==
  /\ pageEdit[e].at = "idle"
  /\ p \in DOMAIN pages
  /\ dto.newText \/ dto.lang \in DOMAIN pages[p].tr
  /\ dto.newText => nextText <= MaxTexts
  /\ pageEdit' = [pageEdit EXCEPT ![e] =
       [NoPageEdit EXCEPT !.at = "reading", !.id = p, !.lang = dto.lang, !.slug = dto.slug,
          !.text = IF dto.newText THEN nextText ELSE pages[p].tr[dto.lang].text,
          !.published = Flag(dto.published, pages[p].published),
          !.asked = dto.published = TRUE]]
  /\ nextText' = IF dto.newText THEN nextText + 1 ELSE nextText
  /\ UNCHANGED <<pages, aliases, versions, links, nextPage, held>>

SlugChanged(old, new) == old # None /\ old.slug # new.slug
Changed(old, new) == old # None /\ old # new

(* updateAggregate reads it again: not from the trash, and a version is    *)
(* due if the translation is there and would change.                       *)
ReadOld(e) ==
  LET p == pageEdit[e].id  l == pageEdit[e].lang IN
    /\ pageEdit[e].at = "reading"
    /\ p \in DOMAIN pages /\ ~pages[p].trashed
    /\ LET old == IF l \in DOMAIN pages[p].tr THEN pages[p].tr[l] ELSE None
           new == [slug |-> pageEdit[e].slug, text |-> pageEdit[e].text]
       IN  pageEdit' = [pageEdit EXCEPT ![e].seen = old,
             ![e].at = IF Changed(old, new) THEN "versioning" ELSE "writing"]
    /\ UNCHANGED pageTables

(* createVersion: a command of its own, before the page is written. *)
SaveVersion(e) ==
  LET p == pageEdit[e].id IN
    /\ pageEdit[e].at = "versioning"
    /\ p \in DOMAIN pages
    /\ versions' = [versions EXCEPT ![p] =
         @ \cup {[lang |-> pageEdit[e].lang, tr |-> pageEdit[e].seen]}]
    /\ pageEdit' = [pageEdit EXCEPT ![e].at = "writing"]
    /\ UNCHANGED <<pages, aliases, links, nextPage, nextText, held>>

(* What update and restoreVersion write of a translation. *)
WriteTranslation(p, l, new) ==
  /\ ~SlugOfOther(p, l, new.slug)
  /\ AliasFree(p, l, new.slug)
  /\ aliases' = AliasKept(p, l, new.slug)
  /\ links' = Relinked(p, l, new.slug)
  /\ held' = [held EXCEPT ![p] = @ \cup {[lang |-> l, slug |-> new.slug]}]

(* update: the flags, then the translation, the alias and the menu items.  *)
WritePage(e) ==
  LET p == pageEdit[e].id  l == pageEdit[e].lang
      new == [slug |-> pageEdit[e].slug, text |-> pageEdit[e].text]
  IN
    /\ pageEdit[e].at = "writing"
    /\ p \in DOMAIN pages
    /\ WriteTranslation(p, l, new)
    /\ pages' = [pages EXCEPT ![p].tr = Put(@, l, new), ![p].published = pageEdit[e].published]
    /\ LET done == Crossing([pageEdit EXCEPT ![e] = NoPageEdit], p, l)
       IN  pageEdit' = IF pageEdit[e].published THEN done ELSE Overtaking(done, {p})
    /\ UNCHANGED <<versions, nextPage, nextText>>

(* The page has gone or is in the trash, or a slug or an alias is taken;   *)
(* a version that was written stays.                                       *)
UpdateFails(e) ==
  LET p == pageEdit[e].id  l == pageEdit[e].lang IN
    /\ pageEdit[e].at # "idle"
    /\ \/ p \notin DOMAIN pages
       \/ pageEdit[e].at = "reading" /\ p \in DOMAIN pages /\ pages[p].trashed
       \/ /\ pageEdit[e].at = "writing" /\ p \in DOMAIN pages
          /\ SlugOfOther(p, l, pageEdit[e].slug) \/ ~AliasFree(p, l, pageEdit[e].slug)
    /\ pageEdit' = [pageEdit EXCEPT ![e] = NoPageEdit]
    /\ UNCHANGED pageTables

(* restoreVersion goes straight to update: what it replaces gets no        *)
(* version, and a page in the trash is written as any other.               *)
RestoreVersion(p, v) ==
  /\ p \in DOMAIN pages /\ v \in versions[p]
  /\ WriteTranslation(p, v.lang, v.tr)
  /\ pages' = [pages EXCEPT ![p].tr = Put(@, v.lang, v.tr)]
  /\ pageEdit' = Crossing(pageEdit, p, v.lang)
  /\ UNCHANGED <<versions, nextPage, nextText>>

-----------------------------------------------------------------------------
(* softDelete, restore and their bulk forms: no other column is written.   *)
TrashPages(ids, b) ==
  /\ pages' = [p \in DOMAIN pages |->
                 IF p \in ids THEN [pages[p] EXCEPT !.trashed = b] ELSE pages[p]]
  /\ UNCHANGED <<aliases, versions, links, nextPage, nextText, held, pageEdit>>

(* publishMany, unpublishMany, of pages in the trash too. *)
PublishPages(ids, b) ==
  /\ pages' = [p \in DOMAIN pages |->
                 IF p \in ids THEN [pages[p] EXCEPT !.published = b] ELSE pages[p]]
  /\ pageEdit' = IF b THEN pageEdit ELSE Overtaking(pageEdit, ids)
  /\ UNCHANGED <<aliases, versions, links, nextPage, nextText, held>>

AliasesOf(left) == Only(aliases, {s \in DOMAIN aliases : aliases[s].page \in left})

(* hardDelete and hardDeleteMany; translations, aliases and versions       *)
(* cascade, menu items know the page by a number only and stay.            *)
DeletePages(ids) ==
  LET left == DOMAIN pages \ ids IN
    /\ pages' = Only(pages, left)
    /\ versions' = Only(versions, left) /\ held' = Only(held, left)
    /\ aliases' = AliasesOf(left)
    /\ UNCHANGED <<links, nextPage, nextText, pageEdit>>

(* DELETE :id, PATCH :id/restore, DELETE :id/hard. *)
PageRowRoutes(p) ==
  TrashPages({p}, TRUE) \/ TrashPages({p}, FALSE) \/ DeletePages({p})

(* A menu item for a page: the editor's form shows the slugs of the page,  *)
(* and the item is made with them when the form is sent.                   *)
OpenLink(e, p) ==
  /\ pageEdit[e].at = "idle"
  /\ p \in DOMAIN pages \ DOMAIN links
  /\ pageEdit' = [pageEdit EXCEPT ![e] = [NoPageEdit EXCEPT !.at = "linking", !.id = p,
       !.seen = [l \in DOMAIN pages[p].tr |-> pages[p].tr[l].slug]]]
  /\ UNCHANGED pageTables

SaveLink(e) ==
  LET p == pageEdit[e].id IN
    /\ pageEdit[e].at = "linking"
    /\ p \notin DOMAIN links
    /\ links' = Put(links, p, pageEdit[e].seen)
    /\ pageEdit' = [pageEdit EXCEPT ![e] = NoPageEdit]
    /\ UNCHANGED <<pages, aliases, versions, nextPage, nextText, held>>

-----------------------------------------------------------------------------
(* Slugs of a new page: one language at least. *)
CreatePageTranslations == UNION {[ls -> Slugs] : ls \in (SUBSET Langs) \ {{}}}

PageRoutes(e) ==
  \/ \E p \in DOMAIN pages, dto \in UpdatePageAggregateDto : StartUpdate(e, p, dto)
  \/ ReadOld(e) \/ SaveVersion(e) \/ WritePage(e) \/ UpdateFails(e)
  \/ (\E p \in DOMAIN pages : OpenLink(e, p)) \/ SaveLink(e)

PageBulkAction ==
  \E ids \in (SUBSET DOMAIN pages) \ {{}} :
    DeletePages(ids) \/ \E b \in BOOLEAN : TrashPages(ids, b) \/ PublishPages(ids, b)

PageBulkRoutes ==
  \/ \E tr \in CreatePageTranslations, t \in Templates, b \in BOOLEAN : CreatePage(tr, t, b)
  \/ PageBulkAction
  \/ \E p \in DOMAIN pages : PageRowRoutes(p) \/ \E v \in versions[p] : RestoreVersion(p, v)

PagesNext == PageBulkRoutes \/ \E e \in PageEditors : PageRoutes(e)

PagesSpec == PagesInit /\ [][PagesNext]_pageVars

-----------------------------------------------------------------------------
(* Whoever comes with a slug that a page once had finds that page, or the  *)
(* page that has the slug now, after any updates that cross and any        *)
(* versions restored: update gives up no slug without leaving an alias.    *)
PageSlugsFindable ==
  \A p \in DOMAIN pages : \A h \in held[p] :
    LET q == FindBySlug(h.lang, h.slug)
    IN  q = p \/ (q # 0 /\ h.lang \in DOMAIN pages[q].tr /\ pages[q].tr[h.lang].slug = h.slug)

(* A text that is replaced is in the versions of its page, but for one     *)
(* written between an update's read and its write, and for what the        *)
(* restoring of a version replaces.                                        *)
ReplacedTextsKept ==
  [][\A p \in DOMAIN pages \cap DOMAIN pages' : \A l \in DOMAIN pages[p].tr :
       LET old == pages[p].tr[l]  new == pages'[p].tr[l] IN
         old.text # new.text => \/ \E v \in versions'[p] : v.lang = l /\ v.tr.text = old.text
                                \/ \E v \in versions[p] : v.lang = l /\ v.tr = new
                                \/ \E e \in PageEditors : pageEdit[e].crossed /\ pageEdit'[e].at = "idle"]_pageVars

(* An unpublished page is published because someone asks for it, or by an  *)
(* update that read its flags before it was unpublished.                   *)
PublishedOnPurpose ==
  [][\A p \in DOMAIN pages \cap DOMAIN pages' :
       ~pages[p].published /\ pages'[p].published =>
         \/ pageEdit' = pageEdit /\ UNCHANGED [q \in DOMAIN pages |-> pages[q].trashed]
         \/ \E e \in PageEditors : /\ pageEdit[e].at = "writing" /\ pageEdit'[e].at = "idle"
                                   /\ pageEdit[e].asked \/ pageEdit[e].overtaken]_pageVars

(* A menu item that leads to its page does so after every update of the    *)
(* page and every version restored.  (One that is made from a form opened  *)
(* before a rename is wrong from the start, and right after the next.)     *)
LinksStayRight ==
  [][\A p \in DOMAIN pages \cap DOMAIN pages' \cap DOMAIN links :
       \A l \in DOMAIN links[p] \cap DOMAIN pages[p].tr :
         links[p][l] = pages[p].tr[l].slug => links'[p][l] = pages'[p].tr[l].slug]_pageVars
=============================================================================
