----------------------------- MODULE ContentProofs -----------------------------
(***************************************************************************)
(* Proofs about what the site is made of, for any number of pages, posts,  *)
(* menus and requests in flight: slugs that were given up still lead to    *)
(* their page, texts that are replaced are kept, nothing is published but  *)
(* on purpose, menu items follow their pages and stay in their menus,      *)
(* redirects end and printed addresses show what they were printed for.    *)
(***************************************************************************)
EXTENDS MCContent, Site, FiniteSetTheorems, WellFoundedInduction, TLAPS

(***************************************************************************)
(* Pages.                                                                  *)
(***************************************************************************)
TranslationType == [slug : Slugs, text : Nat]
Translations == UNION {[ls -> TranslationType] : ls \in SUBSET Langs}
PageType == [tr : Translations, template : Templates, published : BOOLEAN, trashed : BOOLEAN]
PageEditType ==
  [at : {"idle", "reading", "versioning", "writing", "linking"}, id : Nat,
   lang : Langs \cup {None}, slug : Slugs \cup {None}, text : Nat,
   published : BOOLEAN, asked : BOOLEAN,
   seen : {None} \cup TranslationType \cup UNION {[ls -> Slugs] : ls \in SUBSET Langs},
   crossed : BOOLEAN, overtaken : BOOLEAN]

(* Requests to change a page, as far as they have come.                    *)
Updates == {"reading", "versioning", "writing"}

PageTablesOK ==
  /\ nextPage \in Nat \ {0} /\ nextText \in Nat
  /\ pages \in [DOMAIN pages -> PageType] /\ DOMAIN pages \subseteq 1 .. nextPage - 1
  /\ DOMAIN versions = DOMAIN pages /\ DOMAIN held = DOMAIN pages
  /\ \A p \in DOMAIN pages : versions[p] \subseteq [lang : Langs, tr : TranslationType]
  /\ \A p \in DOMAIN pages : held[p] \subseteq [lang : Langs, slug : Slugs]

(* What a request is about has been there, though it may have gone.        *)
PageEditorsOK ==
  /\ pageEdit \in [PageEditors -> PageEditType]
  /\ \A e \in PageEditors :
       /\ pageEdit[e].at \in Updates =>
            /\ pageEdit[e].id \in 1 .. nextPage - 1
            /\ pageEdit[e].lang \in Langs /\ pageEdit[e].slug \in Slugs
       /\ pageEdit[e].at = "versioning" => pageEdit[e].seen \in TranslationType

(* A slug that a page has had is its slug, or an alias that leads to it.   *)
HasSlugStill(p, h) == h.lang \in DOMAIN pages[p].tr /\ pages[p].tr[h.lang].slug = h.slug
LedTo(p, h) ==
  h.slug \in DOMAIN aliases /\ aliases[h.slug].page = p /\ aliases[h.slug].lang = h.lang
HeldKept == \A p \in DOMAIN pages : \A h \in held[p] : HasSlugStill(p, h) \/ LedTo(p, h)

(* A request that nobody crossed has seen the translation that it will     *)
(* replace, and a version of it is there when it comes to write.           *)
CurrentText(p, l) == IF l \in DOMAIN pages[p].tr THEN pages[p].tr[l] ELSE None
NewText(e) == [slug |-> pageEdit[e].slug, text |-> pageEdit[e].text]
EditorKnows(e) ==
  pageEdit[e].id \in DOMAIN pages =>
    /\ pageEdit[e].at \in {"versioning", "writing"} /\ ~pageEdit[e].crossed =>
         pageEdit[e].seen = CurrentText(pageEdit[e].id, pageEdit[e].lang)
    /\ pageEdit[e].at = "writing" /\ Changed(pageEdit[e].seen, NewText(e)) =>
         [lang |-> pageEdit[e].lang, tr |-> pageEdit[e].seen] \in versions[pageEdit[e].id]

(* A request that will publish a page without having asked for it found it *)
(* published, and it has been published since.                             *)
FlagKnows(e) ==
  /\ pageEdit[e].at \in Updates /\ pageEdit[e].id \in DOMAIN pages
  /\ pageEdit[e].published /\ ~pageEdit[e].asked /\ ~pageEdit[e].overtaken
  => pages[pageEdit[e].id].published

PagesIInv ==
  /\ PageTablesOK /\ PageEditorsOK /\ HeldKept
  /\ \A e \in PageEditors : EditorKnows(e) /\ FlagKnows(e)

(* Tables with a row put in, or with some rows only.                       *)
LEMMA PutRow ==
  ASSUME NEW f, NEW x, NEW y
  PROVE  /\ DOMAIN Put(f, x, y) = DOMAIN f \cup {x} /\ Put(f, x, y)[x] = y
         /\ \A z \in DOMAIN f \ {x} : Put(f, x, y)[z] = f[z]
         /\ Put(f, x, y) = [z \in DOMAIN f \cup {x} |-> Put(f, x, y)[z]]
BY DEF Put

LEMMA OnlyRows ==
  ASSUME NEW f, NEW ids
  PROVE  /\ DOMAIN Only(f, ids) = DOMAIN f \cap ids
         /\ \A z \in DOMAIN f \cap ids : Only(f, ids)[z] = f[z]
         /\ Only(f, ids) = [z \in DOMAIN f \cap ids |-> Only(f, ids)[z]]
BY DEF Only

LEMMA PutTranslation ==
  ASSUME NEW tr \in Translations, NEW l \in Langs, NEW new \in TranslationType
  PROVE  Put(tr, l, new) \in Translations
<1>1. PICK ls \in SUBSET Langs : tr \in [ls -> TranslationType]
  BY DEF Translations
<1>2. Put(tr, l, new) \in [ls \cup {l} -> TranslationType]
  BY <1>1 DEF Put
<1>3. ls \cup {l} \in SUBSET Langs
  BY <1>1
<1> QED
  BY <1>2, <1>3 DEF Translations

LEMMA TranslationsOf ==
  ASSUME NEW tr \in Translations
  PROVE  DOMAIN tr \subseteq Langs /\ \A l \in DOMAIN tr : tr[l] \in TranslationType
BY DEF Translations

(* Marking the requests that were crossed or overtaken changes nothing     *)
(* else about them.                                                        *)
SameEdit(a, b) ==
  /\ a.at = b.at /\ a.id = b.id /\ a.lang = b.lang /\ a.slug = b.slug /\ a.text = b.text
  /\ a.published = b.published /\ a.asked = b.asked /\ a.seen = b.seen

LEMMA CrossingMarks ==
  ASSUME NEW jobs \in [PageEditors -> PageEditType], NEW p, NEW l
  PROVE  /\ Crossing(jobs, p, l) \in [PageEditors -> PageEditType]
         /\ \A e \in PageEditors :
              /\ SameEdit(Crossing(jobs, p, l)[e], jobs[e])
              /\ Crossing(jobs, p, l)[e].overtaken = jobs[e].overtaken
              /\ jobs[e].crossed => Crossing(jobs, p, l)[e].crossed
              /\ jobs[e].id = p /\ jobs[e].at \in {"versioning", "writing"} /\ jobs[e].lang = l =>
                   Crossing(jobs, p, l)[e].crossed
<1> DEFINE new == Crossing(jobs, p, l)
<1>1. ASSUME NEW e \in PageEditors
      PROVE  /\ new[e] \in PageEditType /\ SameEdit(new[e], jobs[e])
             /\ new[e].overtaken = jobs[e].overtaken
             /\ jobs[e].crossed => new[e].crossed
             /\ jobs[e].id = p /\ jobs[e].at \in {"versioning", "writing"} /\ jobs[e].lang = l =>
                  new[e].crossed
  <2>1. new[e] = jobs[e] \/ new[e] = [jobs[e] EXCEPT !.crossed = TRUE]
    BY DEF Crossing
  <2>2. jobs[e] \in PageEditType
    OBVIOUS
  <2>3. jobs[e].id = p /\ jobs[e].at \in {"versioning", "writing"} /\ jobs[e].lang = l =>
          new[e] = [jobs[e] EXCEPT !.crossed = TRUE]
    BY DEF Crossing
  <2> HIDE DEF new
  <2> QED
    BY <2>1, <2>2, <2>3 DEF PageEditType, SameEdit
<1>2. new = [e \in PageEditors |-> new[e]]
  BY DEF Crossing
<1> HIDE DEF new
<1> QED
  BY <1>1, <1>2 DEF new

LEMMA OvertakingMarks ==
  ASSUME NEW jobs \in [PageEditors -> PageEditType], NEW ids
  PROVE  /\ Overtaking(jobs, ids) \in [PageEditors -> PageEditType]
         /\ \A e \in PageEditors :
              /\ SameEdit(Overtaking(jobs, ids)[e], jobs[e])
              /\ Overtaking(jobs, ids)[e].crossed = jobs[e].crossed
              /\ jobs[e].overtaken => Overtaking(jobs, ids)[e].overtaken
              /\ jobs[e].id \in ids /\ jobs[e].published => Overtaking(jobs, ids)[e].overtaken
<1> DEFINE new == Overtaking(jobs, ids)
<1>1. ASSUME NEW e \in PageEditors
      PROVE  /\ new[e] \in PageEditType /\ SameEdit(new[e], jobs[e])
             /\ new[e].crossed = jobs[e].crossed
             /\ jobs[e].overtaken => new[e].overtaken
             /\ jobs[e].id \in ids /\ jobs[e].published => new[e].overtaken
  <2>1. new[e] = jobs[e] \/ new[e] = [jobs[e] EXCEPT !.overtaken = TRUE]
    BY DEF Overtaking
  <2>2. jobs[e] \in PageEditType
    OBVIOUS
  <2>3. jobs[e].id \in ids /\ jobs[e].published => new[e] = [jobs[e] EXCEPT !.overtaken = TRUE]
    BY DEF Overtaking
  <2> HIDE DEF new
  <2> QED
    BY <2>1, <2>2, <2>3 DEF PageEditType, SameEdit
<1>2. new = [e \in PageEditors |-> new[e]]
  BY DEF Overtaking
<1> HIDE DEF new
<1> QED
  BY <1>1, <1>2 DEF new

-----------------------------------------------------------------------------
LEMMA PagesStart == PagesInit => PagesIInv
<1> SUFFICES ASSUME PagesInit PROVE PagesIInv
  OBVIOUS
<1>1. PageTablesOK /\ HeldKept
  BY DEF PagesInit, PageTablesOK, HeldKept
<1>2. NoPageEdit \in PageEditType /\ NoPageEdit.at = "idle"
  BY DEF NoPageEdit, PageEditType
<1>3. PageEditorsOK /\ \A e \in PageEditors : pageEdit[e].at = "idle"
  BY <1>2 DEF PagesInit, PageEditorsOK, Updates
<1> QED
  BY <1>1, <1>3 DEF PagesIInv, EditorKnows, FlagKnows, Updates

(* createAggregate.                                                        *)
LEMMA CreatePagePreserves ==
  ASSUME PagesIInv, NEW tr \in CreatePageTranslations, NEW t \in Templates, NEW b \in BOOLEAN,
         CreatePage(tr, t, b)
  PROVE  PagesIInv'
<1> DEFINE p == nextPage
           row == [tr |-> [l \in DOMAIN tr |-> [slug |-> tr[l], text |-> 0]],
                   template |-> t, published |-> b, trashed |-> FALSE]
           has == {[lang |-> l, slug |-> tr[l]] : l \in DOMAIN tr}
<1>1. /\ pages' = Put(pages, p, row) /\ versions' = Put(versions, p, {}) /\ held' = Put(held, p, has)
      /\ nextPage' = p + 1 /\ aliases' = aliases /\ nextText' = nextText /\ pageEdit' = pageEdit
  BY DEF CreatePage
<1>2. PageTablesOK /\ PageEditorsOK /\ HeldKept /\ p \in Nat \ {0} /\ p \notin DOMAIN pages
  BY DEF PagesIInv, PageTablesOK
<1>3. row \in PageType /\ has \subseteq [lang : Langs, slug : Slugs]
  <2>1. PICK ls \in SUBSET Langs : tr \in [ls -> Slugs]
    BY DEF CreatePageTranslations
  <2>2. row.tr \in [ls -> TranslationType]
    BY <2>1 DEF TranslationType
  <2>3. row.tr \in Translations
    BY <2>1, <2>2 DEF Translations
  <2> QED
    BY <2>1, <2>3 DEF PageType
<1>4. \A h \in has : h.lang \in DOMAIN row.tr /\ row.tr[h.lang].slug = h.slug
  OBVIOUS
<1> HIDE DEF row, has, p
<1>5. /\ DOMAIN pages' = DOMAIN pages \cup {p} /\ pages'[p] = row
      /\ DOMAIN versions' = DOMAIN versions \cup {p} /\ versions'[p] = {}
      /\ DOMAIN held' = DOMAIN held \cup {p} /\ held'[p] = has
      /\ \A q \in DOMAIN pages : pages'[q] = pages[q]
      /\ \A q \in DOMAIN versions \ {p} : versions'[q] = versions[q]
      /\ \A q \in DOMAIN held \ {p} : held'[q] = held[q]
      /\ pages' = [q \in DOMAIN pages' |-> pages'[q]]
  <2>1. /\ DOMAIN pages' = DOMAIN pages \cup {p} /\ pages'[p] = row
        /\ \A q \in DOMAIN pages \ {p} : pages'[q] = pages[q]
        /\ pages' = [q \in DOMAIN pages \cup {p} |-> pages'[q]]
    BY <1>1 DEF Put
  <2>2. /\ DOMAIN versions' = DOMAIN versions \cup {p} /\ versions'[p] = {}
        /\ \A q \in DOMAIN versions \ {p} : versions'[q] = versions[q]
    BY <1>1 DEF Put
  <2>3. /\ DOMAIN held' = DOMAIN held \cup {p} /\ held'[p] = has
        /\ \A q \in DOMAIN held \ {p} : held'[q] = held[q]
    BY <1>1 DEF Put
  <2> QED
    BY <1>2, <2>1, <2>2, <2>3
<1>6. PageTablesOK'
  <2>1. \A q \in DOMAIN pages' : pages'[q] \in PageType
    BY <1>2, <1>3, <1>5 DEF PageTablesOK
  <2>2. DOMAIN pages' \subseteq 1 .. nextPage' - 1 /\ nextPage' \in Nat \ {0}
    BY <1>1, <1>2, <1>5 DEF PageTablesOK, p
  <2>3. \A q \in DOMAIN pages' : /\ versions'[q] \subseteq [lang : Langs, tr : TranslationType]
                                 /\ held'[q] \subseteq [lang : Langs, slug : Slugs]
    BY <1>2, <1>3, <1>5 DEF PageTablesOK
  <2> QED
    BY <1>1, <1>2, <1>5, <2>1, <2>2, <2>3 DEF PageTablesOK
<1>7. HeldKept'
  <2>1. ASSUME NEW q \in DOMAIN pages', NEW h \in held'[q] PROVE (HasSlugStill(q, h) \/ LedTo(q, h))'
    <3>1. CASE q = p
      BY <1>4, <1>5, <2>1, <3>1 DEF HasSlugStill
    <3>2. CASE q # p
      <4>1. q \in DOMAIN pages /\ h \in held[q]
        BY <1>2, <1>5, <2>1, <3>2 DEF PageTablesOK
      <4>2. HasSlugStill(q, h) \/ LedTo(q, h)
        BY <1>2, <4>1 DEF HeldKept
      <4> QED
        BY <1>1, <1>5, <4>1, <4>2 DEF HasSlugStill, LedTo
    <3> QED
      BY <3>1, <3>2
  <2> QED
    BY <2>1 DEF HeldKept
<1>8. PageEditorsOK'
  BY <1>1, <1>2 DEF PageEditorsOK, p
<1>9. ASSUME NEW e \in PageEditors PROVE EditorKnows(e)' /\ FlagKnows(e)'
  <2>1. EditorKnows(e) /\ FlagKnows(e)
    BY DEF PagesIInv
  <2>2. pageEdit[e].at \in Updates => pageEdit[e].id # p
    BY <1>2 DEF PageEditorsOK, p
  <2>3. pageEdit[e].at \in Updates /\ pageEdit[e].id \in DOMAIN pages' => pageEdit[e].id \in DOMAIN pages
    BY <1>5, <2>2
  <2>4. \A q \in DOMAIN pages : pages'[q] = pages[q] /\ versions'[q] = versions[q]
    BY <1>2, <1>5 DEF PageTablesOK
  <2>5. FlagKnows(e)'
    BY <1>1, <2>1, <2>3, <2>4 DEF FlagKnows
  <2>6. EditorKnows(e)'
    BY <1>1, <2>1, <2>3, <2>4 DEF EditorKnows, CurrentText, NewText, Updates
  <2> QED
    BY <2>5, <2>6
<1> QED
  BY <1>6, <1>7, <1>8, <1>9 DEF PagesIInv

-----------------------------------------------------------------------------
(* What update and restoreVersion do to the tables: one translation of one *)
(* page is new.                                                            *)
Rewritten(p, l, new) ==
  /\ p \in DOMAIN pages /\ DOMAIN pages' = DOMAIN pages
  /\ pages' = [q \in DOMAIN pages |-> pages'[q]]
  /\ \A q \in DOMAIN pages \ {p} : pages'[q] = pages[q]
  /\ pages'[p] \in PageType
  /\ DOMAIN pages'[p].tr = DOMAIN pages[p].tr \cup {l} /\ pages'[p].tr[l] = new
  /\ \A k \in DOMAIN pages[p].tr \ {l} : pages'[p].tr[k] = pages[p].tr[k]

LEMMA WriteRewrites ==
  ASSUME PagesIInv, NEW p \in DOMAIN pages, NEW l \in Langs, NEW new \in TranslationType,
         \/ pages' = [pages EXCEPT ![p].tr = Put(@, l, new)]
         \/ \E b \in BOOLEAN :
              pages' = [pages EXCEPT ![p].tr = Put(@, l, new), ![p].published = b]
  PROVE  Rewritten(p, l, new)
<1> DEFINE tr == Put(pages[p].tr, l, new)
<1>1. tr \in Translations
  BY PutTranslation DEF PagesIInv, PageTablesOK, PageType
<1>2. /\ DOMAIN tr = DOMAIN pages[p].tr \cup {l} /\ tr[l] = new
      /\ \A k \in DOMAIN pages[p].tr \ {l} : tr[k] = pages[p].tr[k]
  BY DEF Put
<1>3. pages[p] \in PageType
  BY DEF PagesIInv, PageTablesOK
<1>4. \/ pages' = [pages EXCEPT ![p] = [pages[p] EXCEPT !.tr = tr]]
      \/ \E b \in BOOLEAN : pages' = [pages EXCEPT ![p] = [pages[p] EXCEPT !.tr = tr, !.published = b]]
  OBVIOUS
<1> HIDE DEF tr
<1>5. PICK row : pages' = [pages EXCEPT ![p] = row] /\ row \in PageType /\ row.tr = tr
  <2>1. CASE pages' = [pages EXCEPT ![p] = [pages[p] EXCEPT !.tr = tr]]
    <3>1. [pages[p] EXCEPT !.tr = tr] \in PageType /\ [pages[p] EXCEPT !.tr = tr].tr = tr
      BY <1>1, <1>3 DEF PageType
    <3> QED
      BY <2>1, <3>1
  <2>2. ASSUME NEW b \in BOOLEAN,
               pages' = [pages EXCEPT ![p] = [pages[p] EXCEPT !.tr = tr, !.published = b]]
        PROVE  \E row : pages' = [pages EXCEPT ![p] = row] /\ row \in PageType /\ row.tr = tr
    <3>1. /\ [pages[p] EXCEPT !.tr = tr, !.published = b] \in PageType
          /\ [pages[p] EXCEPT !.tr = tr, !.published = b].tr = tr
      BY <1>1, <1>3 DEF PageType
    <3> QED
      BY <2>2, <3>1
  <2> QED
    BY <1>4, <2>1, <2>2
<1>6. /\ DOMAIN pages' = DOMAIN pages /\ pages' = [q \in DOMAIN pages |-> pages'[q]]
      /\ pages'[p] = row /\ \A q \in DOMAIN pages \ {p} : pages'[q] = pages[q]
  BY <1>5
<1> QED
  BY <1>2, <1>5, <1>6 DEF Rewritten

(* The tables after it: the slug that is given up is an alias.             *)
LEMMA RewrittenTables ==
  ASSUME PagesIInv, NEW p, NEW l \in Langs, NEW new \in TranslationType,
         Rewritten(p, l, new), WriteTranslation(p, l, new),
         UNCHANGED <<versions, nextPage, nextText>>
  PROVE  PageTablesOK' /\ HeldKept'
<1>1. /\ p \in DOMAIN pages /\ DOMAIN pages' = DOMAIN pages
      /\ pages' = [q \in DOMAIN pages |-> pages'[q]]
      /\ \A q \in DOMAIN pages \ {p} : pages'[q] = pages[q]
      /\ pages'[p] \in PageType
      /\ DOMAIN pages'[p].tr = DOMAIN pages[p].tr \cup {l} /\ pages'[p].tr[l] = new
      /\ \A k \in DOMAIN pages[p].tr \ {l} : pages'[p].tr[k] = pages[p].tr[k]
  BY DEF Rewritten
<1>2. PageTablesOK /\ HeldKept
  BY DEF PagesIInv
<1>3. /\ DOMAIN held' = DOMAIN held
      /\ held'[p] = held[p] \cup {[lang |-> l, slug |-> new.slug]}
      /\ \A q \in DOMAIN held \ {p} : held'[q] = held[q]
  BY <1>1, <1>2 DEF WriteTranslation, PageTablesOK
<1>4. PageTablesOK'
  <2>1. \A q \in DOMAIN pages : pages'[q] \in PageType
    BY <1>1, <1>2 DEF PageTablesOK
  <2>2. \A q \in DOMAIN pages : held'[q] \subseteq [lang : Langs, slug : Slugs]
    BY <1>1, <1>2, <1>3 DEF PageTablesOK, TranslationType
  <2> QED
    BY <1>1, <1>2, <1>3, <2>1, <2>2 DEF PageTablesOK
<1>5. /\ \A s \in DOMAIN aliases : s \in DOMAIN aliases' /\ aliases'[s] = aliases[s]
      /\ GivesUp(p, l, new.slug) =>
           /\ pages[p].tr[l].slug \in DOMAIN aliases'
           /\ aliases'[pages[p].tr[l].slug] = [page |-> p, lang |-> l]
  BY DEF WriteTranslation, AliasFree, AliasKept, Put
<1>6. ASSUME NEW q \in DOMAIN pages', NEW h \in held'[q] PROVE (HasSlugStill(q, h) \/ LedTo(q, h))'
  <2>1. CASE q = p /\ h.lang = l /\ h.slug = new.slug
    BY <1>1, <2>1 DEF HasSlugStill
  <2>2. CASE ~(q = p /\ h.lang = l /\ h.slug = new.slug)
    <3>1. q \in DOMAIN pages /\ h \in held[q]
      BY <1>1, <1>2, <1>3, <1>6, <2>2 DEF PageTablesOK
    <3>2. CASE LedTo(q, h)
      BY <1>5, <3>2 DEF LedTo
    <3>3. CASE HasSlugStill(q, h) /\ q = p /\ h.lang = l
      <4>1. GivesUp(p, l, new.slug) /\ pages[p].tr[l].slug = h.slug
        BY <2>2, <3>3 DEF HasSlugStill, GivesUp
      <4> QED
        BY <1>5, <3>3, <4>1 DEF LedTo
    <3>4. CASE HasSlugStill(q, h) /\ q = p /\ h.lang # l
      BY <1>1, <3>4 DEF HasSlugStill
    <3>5. CASE HasSlugStill(q, h) /\ q # p
      BY <1>1, <3>1, <3>5 DEF HasSlugStill
    <3> QED
      BY <1>2, <3>1, <3>2, <3>3, <3>4, <3>5 DEF HeldKept
  <2> QED
    BY <2>1, <2>2
<1> QED
  BY <1>4, <1>6 DEF HeldKept

(* A request that had read the translation before is crossed.              *)
LEMMA RewrittenEditors ==
  ASSUME PagesIInv, NEW p, NEW l \in Langs, NEW new \in TranslationType, NEW e \in PageEditors,
         Rewritten(p, l, new), versions' = versions,
         SameEdit(pageEdit'[e], pageEdit[e]), pageEdit[e].crossed => pageEdit'[e].crossed,
         pageEdit[e].id = p /\ pageEdit[e].at \in {"versioning", "writing"} /\ pageEdit[e].lang = l =>
           pageEdit'[e].crossed
  PROVE  EditorKnows(e)'
<1>1. /\ p \in DOMAIN pages /\ DOMAIN pages' = DOMAIN pages
      /\ \A q \in DOMAIN pages \ {p} : pages'[q] = pages[q]
      /\ DOMAIN pages'[p].tr = DOMAIN pages[p].tr \cup {l}
      /\ \A k \in DOMAIN pages[p].tr \ {l} : pages'[p].tr[k] = pages[p].tr[k]
  BY DEF Rewritten
<1>2. EditorKnows(e)
  BY DEF PagesIInv
<1>3. SUFFICES ASSUME pageEdit'[e].id \in DOMAIN pages' PROVE EditorKnows(e)'
  BY DEF EditorKnows
<1>4. /\ pageEdit'[e].at = pageEdit[e].at /\ pageEdit'[e].id = pageEdit[e].id
      /\ pageEdit'[e].lang = pageEdit[e].lang /\ pageEdit'[e].seen = pageEdit[e].seen
      /\ NewText(e)' = NewText(e) /\ pageEdit[e].id \in DOMAIN pages
  BY <1>1, <1>3 DEF SameEdit, NewText
<1>5. ASSUME pageEdit'[e].at \in {"versioning", "writing"}, ~pageEdit'[e].crossed
      PROVE  pageEdit'[e].seen = CurrentText(pageEdit[e].id, pageEdit[e].lang)'
  <2>1. /\ pageEdit[e].seen = CurrentText(pageEdit[e].id, pageEdit[e].lang)
        /\ ~(pageEdit[e].id = p /\ pageEdit[e].lang = l)
    BY <1>2, <1>4, <1>5 DEF EditorKnows
  <2>2. CurrentText(pageEdit[e].id, pageEdit[e].lang)' = CurrentText(pageEdit[e].id, pageEdit[e].lang)
    <3>1. CASE pageEdit[e].id = p
      BY <1>1, <1>4, <2>1, <3>1 DEF CurrentText
    <3>2. CASE pageEdit[e].id # p
      BY <1>1, <1>4, <3>2 DEF CurrentText
    <3> QED
      BY <3>1, <3>2
  <2> QED
    BY <1>4, <2>1, <2>2
<1> QED
  BY <1>2, <1>4, <1>5 DEF EditorKnows

LEMMA IdleEdit == NoPageEdit \in PageEditType /\ NoPageEdit.at = "idle" /\ NoPageEdit.id = 0
BY DEF NoPageEdit, PageEditType

(* What a request holds stays right when the marks alone change.           *)
LEMMA MarkedEditorsOK ==
  ASSUME PageEditorsOK, pageEdit' \in [PageEditors -> PageEditType], nextPage' = nextPage,
         \A e \in PageEditors : SameEdit(pageEdit'[e], pageEdit[e]) \/ pageEdit'[e] = NoPageEdit
  PROVE  PageEditorsOK'
<1>1. ASSUME NEW e \in PageEditors
      PROVE  /\ pageEdit'[e].at \in Updates =>
                  /\ pageEdit'[e].id \in 1 .. nextPage - 1
                  /\ pageEdit'[e].lang \in Langs /\ pageEdit'[e].slug \in Slugs
             /\ pageEdit'[e].at = "versioning" => pageEdit'[e].seen \in TranslationType
  <2>1. CASE pageEdit'[e] = NoPageEdit
    BY <2>1, IdleEdit DEF Updates
  <2>2. CASE SameEdit(pageEdit'[e], pageEdit[e])
    BY <2>2 DEF PageEditorsOK, SameEdit
  <2> QED
    BY <2>1, <2>2
<1> QED
  BY <1>1 DEF PageEditorsOK

LEMMA IdleKnows ==
  ASSUME NEW e \in PageEditors, pageEdit'[e].at \notin Updates
  PROVE  EditorKnows(e)' /\ FlagKnows(e)'
BY DEF EditorKnows, FlagKnows, Updates

(* PATCH :id, the transaction.                                             *)
LEMMA WritePagePreserves ==
  ASSUME PagesIInv, NEW e \in PageEditors, WritePage(e)
  PROVE  PagesIInv'
<1> DEFINE p == pageEdit[e].id
           l == pageEdit[e].lang
           new == NewText(e)
           jobs == [pageEdit EXCEPT ![e] = NoPageEdit]
           done == Crossing(jobs, p, l)
<1>1. PageTablesOK /\ PageEditorsOK /\ pageEdit[e] \in PageEditType
  BY DEF PagesIInv, PageEditorsOK
<1>2. /\ pageEdit[e].at = "writing" /\ p \in DOMAIN pages /\ WriteTranslation(p, l, new)
      /\ pages' = [pages EXCEPT ![p].tr = Put(@, l, new), ![p].published = pageEdit[e].published]
      /\ pageEdit' = IF pageEdit[e].published THEN done ELSE Overtaking(done, {p})
      /\ UNCHANGED <<versions, nextPage, nextText>>
  BY DEF WritePage, NewText
<1>3. l \in Langs /\ new \in TranslationType
  BY <1>1, <1>2 DEF PageEditorsOK, Updates, NewText, TranslationType, PageEditType
<1>4. pageEdit[e].published \in BOOLEAN
  BY <1>1 DEF PageEditType
<1>5. /\ pages'[p].published = pageEdit[e].published
      /\ \A q \in DOMAIN pages \ {p} : pages'[q] = pages[q]
      /\ DOMAIN pages' = DOMAIN pages
  BY <1>1, <1>2 DEF PageTablesOK, PageType
<1>6. jobs \in [PageEditors -> PageEditType]
  BY <1>1, IdleEdit DEF PageEditorsOK
<1>7. /\ jobs[e] = NoPageEdit
      /\ \A f \in PageEditors \ {e} : jobs[f] = pageEdit[f]
  BY <1>1 DEF PageEditorsOK
<1> HIDE DEF p, l, new, jobs, done
<1>8. Rewritten(p, l, new)
  BY <1>2, <1>3, <1>4, WriteRewrites
<1>9. PageTablesOK' /\ HeldKept'
  BY <1>2, <1>3, <1>8, RewrittenTables
<1>10. /\ done \in [PageEditors -> PageEditType]
       /\ \A f \in PageEditors :
            /\ SameEdit(done[f], jobs[f])
            /\ done[f].overtaken = jobs[f].overtaken
            /\ jobs[f].crossed => done[f].crossed
            /\ jobs[f].id = p /\ jobs[f].at \in {"versioning", "writing"} /\ jobs[f].lang = l =>
                 done[f].crossed
  BY <1>6, CrossingMarks DEF done
<1>11. /\ pageEdit' \in [PageEditors -> PageEditType]
       /\ \A f \in PageEditors :
            /\ SameEdit(pageEdit'[f], done[f])
            /\ pageEdit'[f].crossed = done[f].crossed
            /\ done[f].overtaken => pageEdit'[f].overtaken
            /\ ~pageEdit[e].published /\ done[f].id = p /\ done[f].published => pageEdit'[f].overtaken
  <2>1. CASE pageEdit[e].published
    BY <1>2, <1>10, <2>1 DEF SameEdit
  <2>2. CASE ~pageEdit[e].published
    <3>1. pageEdit' = Overtaking(done, {p})
      BY <1>2, <2>2
    <3> QED
      BY <1>10, <3>1, OvertakingMarks
  <2> QED
    BY <2>1, <2>2
<1>12. pageEdit'[e].at = "idle"
  BY <1>7, <1>10, <1>11, IdleEdit DEF SameEdit
<1>13. ASSUME NEW f \in PageEditors, f # e
       PROVE  /\ SameEdit(pageEdit'[f], pageEdit[f])
              /\ pageEdit[f].crossed => pageEdit'[f].crossed
              /\ pageEdit[f].id = p /\ pageEdit[f].at \in {"versioning", "writing"}
                   /\ pageEdit[f].lang = l => pageEdit'[f].crossed
              /\ pageEdit[f].overtaken => pageEdit'[f].overtaken
              /\ ~pageEdit[e].published /\ pageEdit[f].id = p /\ pageEdit[f].published =>
                   pageEdit'[f].overtaken
  <2>1. jobs[f] = pageEdit[f]
    BY <1>7, <1>13
  <2> QED
    BY <1>10, <1>11, <2>1 DEF SameEdit
<1>14. PageEditorsOK'
  <2>1. ASSUME NEW f \in PageEditors
        PROVE  /\ pageEdit'[f].at \in Updates =>
                    /\ pageEdit'[f].id \in 1 .. nextPage' - 1
                    /\ pageEdit'[f].lang \in Langs /\ pageEdit'[f].slug \in Slugs
               /\ pageEdit'[f].at = "versioning" => pageEdit'[f].seen \in TranslationType
    <3>1. CASE f = e
      BY <1>12, <3>1 DEF Updates
    <3>2. CASE f # e
      BY <1>1, <1>2, <1>13, <3>2 DEF PageEditorsOK, SameEdit
    <3> QED
      BY <3>1, <3>2
  <2> QED
    BY <1>11, <2>1 DEF PageEditorsOK
<1>15. ASSUME NEW f \in PageEditors PROVE EditorKnows(f)' /\ FlagKnows(f)'
  <2>1. CASE f = e
    BY <1>12, <2>1, IdleKnows DEF Updates
  <2>2. CASE f # e
    <3>1. EditorKnows(f)'
      BY <1>2, <1>3, <1>8, <1>13, <2>2, RewrittenEditors
    <3>2. FlagKnows(f)'
      <4>1. FlagKnows(f)
        BY DEF PagesIInv
      <4>2. CASE pageEdit[f].id = p
        BY <1>4, <1>5, <1>13, <2>2, <4>2 DEF FlagKnows, SameEdit
      <4>3. CASE pageEdit[f].id # p
        BY <1>5, <1>13, <2>2, <4>1, <4>3 DEF FlagKnows, SameEdit
      <4> QED
        BY <4>2, <4>3
    <3> QED
      BY <3>1, <3>2
  <2> QED
    BY <2>1, <2>2
<1> QED
  BY <1>9, <1>14, <1>15 DEF PagesIInv

(* restoreVersion.                                                         *)
LEMMA RestoreVersionPreserves ==
  ASSUME PagesIInv, NEW p \in DOMAIN pages, NEW v \in versions[p], RestoreVersion(p, v)
  PROVE  PagesIInv'
<1>1. PageTablesOK /\ PageEditorsOK
  BY DEF PagesIInv
<1>2. v.lang \in Langs /\ v.tr \in TranslationType
  BY <1>1 DEF PageTablesOK
<1>3. /\ WriteTranslation(p, v.lang, v.tr)
      /\ pages' = [pages EXCEPT ![p].tr = Put(@, v.lang, v.tr)]
      /\ pageEdit' = Crossing(pageEdit, p, v.lang)
      /\ UNCHANGED <<versions, nextPage, nextText>>
  BY DEF RestoreVersion
<1>4. Rewritten(p, v.lang, v.tr)
  BY <1>2, <1>3, WriteRewrites
<1>5. PageTablesOK' /\ HeldKept'
  BY <1>2, <1>3, <1>4, RewrittenTables
<1>6. pageEdit \in [PageEditors -> PageEditType]
  BY <1>1 DEF PageEditorsOK
<1>7. /\ pageEdit' \in [PageEditors -> PageEditType]
      /\ \A e \in PageEditors :
           /\ SameEdit(pageEdit'[e], pageEdit[e])
           /\ pageEdit'[e].overtaken = pageEdit[e].overtaken
           /\ pageEdit[e].crossed => pageEdit'[e].crossed
           /\ pageEdit[e].id = p /\ pageEdit[e].at \in {"versioning", "writing"}
                /\ pageEdit[e].lang = v.lang => pageEdit'[e].crossed
  BY <1>3, <1>6, CrossingMarks
<1>8. PageEditorsOK'
  BY <1>1, <1>3, <1>7, MarkedEditorsOK
<1>9. /\ DOMAIN pages' = DOMAIN pages
      /\ \A q \in DOMAIN pages : pages'[q].published = pages[q].published
  BY <1>1, <1>3 DEF PageTablesOK, PageType
<1>10. ASSUME NEW e \in PageEditors PROVE EditorKnows(e)' /\ FlagKnows(e)'
  <2>1. EditorKnows(e)'
    BY <1>2, <1>3, <1>4, <1>7, RewrittenEditors
  <2>2. FlagKnows(e)
    BY DEF PagesIInv
  <2>3. FlagKnows(e)'
    BY <1>7, <1>9, <2>2 DEF FlagKnows, SameEdit
  <2> QED
    BY <2>1, <2>3
<1> QED
  BY <1>5, <1>8, <1>10 DEF PagesIInv

-----------------------------------------------------------------------------
(* Rows whose flags alone change.                                          *)
LEMMA FlagsTables ==
  ASSUME PagesIInv, pages' = [p \in DOMAIN pages |-> pages'[p]],
         \A p \in DOMAIN pages : pages'[p] \in PageType /\ pages'[p].tr = pages[p].tr,
         UNCHANGED <<aliases, versions, nextPage, nextText, held>>
  PROVE  PageTablesOK' /\ HeldKept'
<1>1. PageTablesOK /\ HeldKept /\ DOMAIN pages' = DOMAIN pages
  BY DEF PagesIInv
<1>2. PageTablesOK'
  BY <1>1 DEF PageTablesOK
<1>3. HeldKept'
  BY <1>1 DEF HeldKept, HasSlugStill, LedTo
<1> QED
  BY <1>2, <1>3

LEMMA TrashPagesPreserves ==
  ASSUME PagesIInv, NEW ids, NEW b \in BOOLEAN, TrashPages(ids, b)
  PROVE  PagesIInv'
<1>1. PageTablesOK /\ PageEditorsOK
  BY DEF PagesIInv
<1>2. /\ pages' = [p \in DOMAIN pages |->
                     IF p \in ids THEN [pages[p] EXCEPT !.trashed = b] ELSE pages[p]]
      /\ UNCHANGED <<aliases, versions, links, nextPage, nextText, held, pageEdit>>
  BY DEF TrashPages
<1>3. /\ pages' = [p \in DOMAIN pages |-> pages'[p]] /\ DOMAIN pages' = DOMAIN pages
      /\ \A p \in DOMAIN pages : pages'[p] = IF p \in ids THEN [pages[p] EXCEPT !.trashed = b] ELSE pages[p]
  BY <1>2
<1>4. \A p \in DOMAIN pages : /\ pages'[p] \in PageType /\ pages'[p].tr = pages[p].tr
                              /\ pages'[p].published = pages[p].published
  <2> TAKE p \in DOMAIN pages
  <2>1. pages[p] \in PageType
    BY <1>1 DEF PageTablesOK
  <2> QED
    BY <1>3, <2>1 DEF PageType
<1>5. PageTablesOK' /\ HeldKept'
  BY <1>2, <1>3, <1>4, FlagsTables
<1>6. PageEditorsOK'
  BY <1>1, <1>2 DEF PageEditorsOK
<1>7. ASSUME NEW e \in PageEditors PROVE EditorKnows(e)' /\ FlagKnows(e)'
  <2>1. EditorKnows(e) /\ FlagKnows(e)
    BY DEF PagesIInv
  <2>2. EditorKnows(e)'
    BY <1>2, <1>3, <1>4, <2>1 DEF EditorKnows, CurrentText, NewText
  <2>3. FlagKnows(e)'
    BY <1>2, <1>3, <1>4, <2>1 DEF FlagKnows
  <2> QED
    BY <2>2, <2>3
<1> QED
  BY <1>5, <1>6, <1>7 DEF PagesIInv

(* Unpublishing overtakes the requests that found the page published.      *)
LEMMA PublishPagesPreserves ==
  ASSUME PagesIInv, NEW ids, NEW b \in BOOLEAN, PublishPages(ids, b)
  PROVE  PagesIInv'
<1>1. PageTablesOK /\ PageEditorsOK
  BY DEF PagesIInv
<1>2. /\ pages' = [p \in DOMAIN pages |->
                     IF p \in ids THEN [pages[p] EXCEPT !.published = b] ELSE pages[p]]
      /\ pageEdit' = IF b THEN pageEdit ELSE Overtaking(pageEdit, ids)
      /\ UNCHANGED <<aliases, versions, links, nextPage, nextText, held>>
  BY DEF PublishPages
<1>3. /\ pages' = [p \in DOMAIN pages |-> pages'[p]] /\ DOMAIN pages' = DOMAIN pages
      /\ \A p \in DOMAIN pages : pages'[p] = IF p \in ids THEN [pages[p] EXCEPT !.published = b] ELSE pages[p]
  BY <1>2
<1>4. \A p \in DOMAIN pages : /\ pages'[p] \in PageType /\ pages'[p].tr = pages[p].tr
                              /\ pages'[p].published = IF p \in ids THEN b ELSE pages[p].published
  <2> TAKE p \in DOMAIN pages
  <2>1. pages[p] \in PageType
    BY <1>1 DEF PageTablesOK
  <2> QED
    BY <1>3, <2>1 DEF PageType
<1>5. PageTablesOK' /\ HeldKept'
  BY <1>2, <1>3, <1>4, FlagsTables
<1>6. /\ pageEdit' \in [PageEditors -> PageEditType]
      /\ \A e \in PageEditors :
           /\ SameEdit(pageEdit'[e], pageEdit[e])
           /\ pageEdit'[e].crossed = pageEdit[e].crossed
           /\ pageEdit[e].overtaken => pageEdit'[e].overtaken
           /\ ~b /\ pageEdit[e].id \in ids /\ pageEdit[e].published => pageEdit'[e].overtaken
  <2>1. pageEdit \in [PageEditors -> PageEditType]
    BY <1>1 DEF PageEditorsOK
  <2>2. CASE b
    BY <1>2, <2>1, <2>2 DEF SameEdit
  <2>3. CASE ~b
    BY <1>2, <2>1, <2>3, OvertakingMarks
  <2> QED
    BY <2>2, <2>3
<1>7. PageEditorsOK'
  BY <1>1, <1>2, <1>6, MarkedEditorsOK
<1>8. ASSUME NEW e \in PageEditors PROVE EditorKnows(e)' /\ FlagKnows(e)'
  <2>1. EditorKnows(e) /\ FlagKnows(e)
    BY DEF PagesIInv
  <2>2. EditorKnows(e)'
    <3>1. NewText(e)' = NewText(e)
      BY <1>6 DEF NewText, SameEdit
    <3>2. pageEdit[e].id \in DOMAIN pages =>
            CurrentText(pageEdit[e].id, pageEdit[e].lang)' = CurrentText(pageEdit[e].id, pageEdit[e].lang)
      BY <1>3, <1>4, <1>6 DEF CurrentText, SameEdit
    <3> QED
      BY <1>2, <1>3, <1>6, <2>1, <3>1, <3>2 DEF EditorKnows, SameEdit
  <2>3. FlagKnows(e)'
    BY <1>3, <1>4, <1>6, <2>1 DEF FlagKnows, SameEdit
  <2> QED
    BY <2>2, <2>3
<1> QED
  BY <1>5, <1>7, <1>8 DEF PagesIInv

(* The aliases of the pages that are left stay.                            *)
LEMMA DeletePagesPreserves ==
  ASSUME PagesIInv, NEW ids, DeletePages(ids)
  PROVE  PagesIInv'
<1> DEFINE left == DOMAIN pages \ ids
<1>1. PageTablesOK /\ PageEditorsOK /\ HeldKept
  BY DEF PagesIInv
<1>2. /\ pages' = Only(pages, left) /\ versions' = Only(versions, left) /\ held' = Only(held, left)
      /\ aliases' = AliasesOf(left) /\ UNCHANGED <<links, nextPage, nextText, pageEdit>>
  BY DEF DeletePages
<1>3. /\ DOMAIN pages' = left /\ DOMAIN versions' = left /\ DOMAIN held' = left
      /\ pages' = [p \in left |-> pages'[p]]
      /\ \A p \in left : pages'[p] = pages[p] /\ versions'[p] = versions[p] /\ held'[p] = held[p]
  BY <1>1, <1>2 DEF Only, PageTablesOK
<1>4. \A s \in DOMAIN aliases : aliases[s].page \in left =>
        s \in DOMAIN aliases' /\ aliases'[s] = aliases[s]
  BY <1>2 DEF AliasesOf, Only
<1>5. PageTablesOK'
  BY <1>1, <1>2, <1>3 DEF PageTablesOK
<1>6. HeldKept'
  BY <1>1, <1>3, <1>4 DEF HeldKept, HasSlugStill, LedTo
<1>7. PageEditorsOK'
  BY <1>1, <1>2 DEF PageEditorsOK
<1>8. ASSUME NEW e \in PageEditors PROVE EditorKnows(e)' /\ FlagKnows(e)'
  <2>1. EditorKnows(e) /\ FlagKnows(e)
    BY DEF PagesIInv
  <2>2. EditorKnows(e)'
    BY <1>2, <1>3, <2>1 DEF EditorKnows, CurrentText, NewText
  <2>3. FlagKnows(e)'
    BY <1>2, <1>3, <2>1 DEF FlagKnows
  <2> QED
    BY <2>2, <2>3
<1> QED
  BY <1>5, <1>6, <1>7, <1>8 DEF PagesIInv

-----------------------------------------------------------------------------
(* Steps of a request that touch no page.                                  *)
LEMMA EditorSteps ==
  ASSUME PagesIInv, UNCHANGED <<pages, aliases, versions, nextPage, held>>,
         nextText' \in Nat, NEW e \in PageEditors, NEW row \in PageEditType,
         pageEdit' = [pageEdit EXCEPT ![e] = row],
         row.at \in Updates =>
           row.id \in 1 .. nextPage - 1 /\ row.lang \in Langs /\ row.slug \in Slugs,
         row.at = "versioning" => row.seen \in TranslationType,
         EditorKnows(e)', FlagKnows(e)'
  PROVE  PagesIInv'
<1>1. PageTablesOK /\ PageEditorsOK /\ HeldKept
  BY DEF PagesIInv
<1>2. pageEdit'[e] = row /\ \A f \in PageEditors \ {e} : pageEdit'[f] = pageEdit[f]
  BY <1>1 DEF PageEditorsOK
<1>3. PageTablesOK' /\ HeldKept'
  BY <1>1 DEF PageTablesOK, HeldKept, HasSlugStill, LedTo
<1>4. PageEditorsOK'
  BY <1>1, <1>2 DEF PageEditorsOK
<1>5. ASSUME NEW f \in PageEditors, f # e PROVE EditorKnows(f)' /\ FlagKnows(f)'
  <2>1. EditorKnows(f) /\ FlagKnows(f)
    BY DEF PagesIInv
  <2> QED
    BY <1>2, <1>5, <2>1 DEF EditorKnows, FlagKnows, CurrentText, NewText
<1> QED
  BY <1>3, <1>4, <1>5 DEF PagesIInv

LEMMA StartUpdatePreserves ==
  ASSUME PagesIInv, NEW e \in PageEditors, NEW p \in DOMAIN pages,
         NEW dto \in UpdatePageAggregateDto, StartUpdate(e, p, dto)
  PROVE  PagesIInv'
<1> DEFINE row ==
      [NoPageEdit EXCEPT !.at = "reading", !.id = p, !.lang = dto.lang, !.slug = dto.slug,
         !.text = IF dto.newText THEN nextText ELSE pages[p].tr[dto.lang].text,
         !.published = Flag(dto.published, pages[p].published),
         !.asked = dto.published = TRUE]
<1>1. PageTablesOK /\ PageEditorsOK /\ pages[p] \in PageType
  BY DEF PagesIInv, PageTablesOK
<1>2. /\ pageEdit[e].at = "idle" /\ (dto.newText \/ dto.lang \in DOMAIN pages[p].tr)
      /\ pageEdit' = [pageEdit EXCEPT ![e] = row]
      /\ nextText' = IF dto.newText THEN nextText + 1 ELSE nextText
      /\ UNCHANGED <<pages, aliases, versions, links, nextPage, held>>
  BY DEF StartUpdate
<1>3. /\ dto.lang \in Langs /\ dto.slug \in Slugs /\ dto.newText \in BOOLEAN
      /\ dto.published \in BOOLEAN \cup {None}
  BY DEF UpdatePageAggregateDto
<1>4. /\ p \in Nat /\ p \in 1 .. nextPage - 1 /\ nextText \in Nat /\ nextText' \in Nat
      /\ pages[p].published \in BOOLEAN
  BY <1>1, <1>2, <1>3 DEF PageTablesOK, PageType
<1>5. (IF dto.newText THEN nextText ELSE pages[p].tr[dto.lang].text) \in Nat
  <2>1. \A k \in DOMAIN pages[p].tr : pages[p].tr[k] \in TranslationType
    BY <1>1, TranslationsOf DEF PageType
  <2> QED
    BY <1>2, <1>4, <2>1 DEF TranslationType
<1>6. Flag(dto.published, pages[p].published) \in BOOLEAN /\ (dto.published = TRUE) \in BOOLEAN
  BY <1>3, <1>4 DEF Flag
<1>7. /\ row \in PageEditType /\ row.at = "reading" /\ row.id = p
      /\ row.lang = dto.lang /\ row.slug = dto.slug
      /\ row.published = Flag(dto.published, pages[p].published) /\ row.asked = (dto.published = TRUE)
  <2>1. PICK text, flag, asked :
          /\ text = IF dto.newText THEN nextText ELSE pages[p].tr[dto.lang].text
          /\ flag = Flag(dto.published, pages[p].published) /\ asked = (dto.published = TRUE)
    OBVIOUS
  <2>2. row = [NoPageEdit EXCEPT !.at = "reading", !.id = p, !.lang = dto.lang, !.slug = dto.slug,
                 !.text = text, !.published = flag, !.asked = asked]
    BY <2>1
  <2>3. text \in Nat /\ flag \in BOOLEAN /\ asked \in BOOLEAN
    BY <1>5, <1>6, <2>1
  <2>4. NoPageEdit \in PageEditType
    BY IdleEdit
  <2> HIDE DEF row
  <2>5. /\ row \in PageEditType /\ row.at = "reading" /\ row.id = p
        /\ row.lang = dto.lang /\ row.slug = dto.slug /\ row.published = flag /\ row.asked = asked
    BY <1>3, <1>4, <2>2, <2>3, <2>4 DEF PageEditType
  <2> QED
    BY <2>1, <2>5
<1> HIDE DEF row
<1>8. pageEdit'[e] = row
  BY <1>1, <1>2 DEF PageEditorsOK
<1>9. EditorKnows(e)'
  BY <1>7, <1>8 DEF EditorKnows
<1>10. FlagKnows(e)'
  <2>1. row.published /\ ~row.asked => pages[p].published
    BY <1>3, <1>4, <1>7 DEF Flag
  <2> QED
    BY <1>2, <1>7, <1>8, <2>1 DEF FlagKnows
<1>11. row.at \in Updates => row.id \in 1 .. nextPage - 1 /\ row.lang \in Langs /\ row.slug \in Slugs
  BY <1>3, <1>4, <1>7
<1>12. row.at # "versioning"
  BY <1>7
<1> QED
  BY <1>2, <1>4, <1>7, <1>9, <1>10, <1>11, <1>12, EditorSteps

(* updateAggregate, the read that decides whether a version is due.        *)
LEMMA ReadOldPreserves ==
  ASSUME PagesIInv, NEW e \in PageEditors, ReadOld(e)
  PROVE  PagesIInv'
<1> DEFINE p == pageEdit[e].id
           l == pageEdit[e].lang
           row == [pageEdit[e] EXCEPT !.seen = CurrentText(p, l),
                     !.at = IF Changed(CurrentText(p, l), NewText(e)) THEN "versioning" ELSE "writing"]
<1>1. PageTablesOK /\ PageEditorsOK /\ pageEdit[e] \in PageEditType
  BY DEF PagesIInv, PageEditorsOK
<1>2. /\ pageEdit[e].at = "reading" /\ p \in DOMAIN pages
      /\ pageEdit' = [pageEdit EXCEPT ![e] = row] /\ UNCHANGED pageTables
  BY DEF ReadOld, CurrentText, NewText
<1>3. CurrentText(p, l) = None \/ CurrentText(p, l) \in TranslationType
  BY <1>1, <1>2, TranslationsOf DEF CurrentText, PageTablesOK, PageType
<1>4. /\ row \in PageEditType /\ row.id = p /\ row.lang = l /\ row.seen = CurrentText(p, l)
      /\ row.slug = pageEdit[e].slug /\ row.text = pageEdit[e].text
      /\ row.published = pageEdit[e].published /\ row.asked = pageEdit[e].asked
      /\ row.overtaken = pageEdit[e].overtaken
      /\ row.at = IF Changed(CurrentText(p, l), NewText(e)) THEN "versioning" ELSE "writing"
  BY <1>1, <1>3 DEF PageEditType
<1>5. p \in 1 .. nextPage - 1 /\ l \in Langs /\ pageEdit[e].slug \in Slugs
  BY <1>1, <1>2 DEF PageEditorsOK, Updates
<1>6. row.at = "versioning" => row.seen \in TranslationType
  BY <1>3, <1>4 DEF Changed
<1> HIDE DEF row
<1>7. pageEdit'[e] = row /\ pages' = pages /\ versions' = versions
  BY <1>1, <1>2 DEF PageEditorsOK, pageTables
<1>8. EditorKnows(e)'
  <2>1. CurrentText(p, l)' = CurrentText(p, l) /\ NewText(e)' = NewText(e)
    BY <1>4, <1>7 DEF CurrentText, NewText
  <2>2. row.at = "writing" => ~Changed(CurrentText(p, l), NewText(e))
    BY <1>4
  <2> QED
    BY <1>4, <1>7, <2>1, <2>2 DEF EditorKnows
<1>9. FlagKnows(e)'
  <2>1. FlagKnows(e)
    BY DEF PagesIInv
  <2> QED
    BY <1>2, <1>4, <1>7, <2>1 DEF FlagKnows, Updates
<1>10. row.at \in Updates => row.id \in 1 .. nextPage - 1 /\ row.lang \in Langs /\ row.slug \in Slugs
  BY <1>4, <1>5
<1> HIDE DEF p, l
<1>11. UNCHANGED <<pages, aliases, versions, nextPage, held>> /\ nextText' \in Nat
  BY <1>1, <1>2 DEF pageTables, PageTablesOK
<1> QED
  BY <1>2, <1>4, <1>6, <1>8, <1>9, <1>10, <1>11, EditorSteps

LEMMA SaveVersionPreserves ==
  ASSUME PagesIInv, NEW e \in PageEditors, SaveVersion(e)
  PROVE  PagesIInv'
<1> DEFINE p == pageEdit[e].id
           v == [lang |-> pageEdit[e].lang, tr |-> pageEdit[e].seen]
<1>1. PageTablesOK /\ PageEditorsOK /\ HeldKept /\ pageEdit[e] \in PageEditType
  BY DEF PagesIInv, PageEditorsOK
<1>2. /\ pageEdit[e].at = "versioning" /\ p \in DOMAIN pages
      /\ versions' = [versions EXCEPT ![p] = @ \cup {v}]
      /\ pageEdit' = [pageEdit EXCEPT ![e] = [pageEdit[e] EXCEPT !.at = "writing"]]
      /\ UNCHANGED <<pages, aliases, links, nextPage, nextText, held>>
  BY DEF SaveVersion
<1>3. v \in [lang : Langs, tr : TranslationType]
  BY <1>1, <1>2 DEF PageEditorsOK, Updates
<1>4. /\ DOMAIN versions' = DOMAIN versions /\ versions'[p] = versions[p] \cup {v}
      /\ \A q \in DOMAIN versions \ {p} : versions'[q] = versions[q]
  BY <1>1, <1>2 DEF PageTablesOK
<1>5. /\ pageEdit' \in [PageEditors -> PageEditType] /\ pageEdit'[e].at = "writing"
      /\ pageEdit'[e].id = p /\ pageEdit'[e].lang = pageEdit[e].lang
      /\ pageEdit'[e].slug = pageEdit[e].slug /\ pageEdit'[e].text = pageEdit[e].text
      /\ pageEdit'[e].published = pageEdit[e].published /\ pageEdit'[e].asked = pageEdit[e].asked
      /\ pageEdit'[e].overtaken = pageEdit[e].overtaken /\ pageEdit'[e].crossed = pageEdit[e].crossed
      /\ pageEdit'[e].seen = pageEdit[e].seen
      /\ \A f \in PageEditors \ {e} : pageEdit'[f] = pageEdit[f]
  BY <1>1, <1>2 DEF PageEditorsOK, PageEditType
<1> HIDE DEF v
<1>6. PageTablesOK' /\ HeldKept'
  <2>1. PageTablesOK'
    BY <1>1, <1>2, <1>3, <1>4 DEF PageTablesOK
  <2>2. HeldKept'
    BY <1>1, <1>2 DEF HeldKept, HasSlugStill, LedTo
  <2> QED
    BY <2>1, <2>2
<1>7. PageEditorsOK'
  BY <1>1, <1>2, <1>5 DEF PageEditorsOK, Updates
<1>8. ASSUME NEW f \in PageEditors PROVE EditorKnows(f)' /\ FlagKnows(f)'
  <2>1. EditorKnows(f) /\ FlagKnows(f)
    BY DEF PagesIInv
  <2>2. \A q \in DOMAIN versions : versions[q] \subseteq versions'[q]
    BY <1>4
  <2>3. FlagKnows(f)'
    BY <1>2, <1>5, <2>1 DEF FlagKnows, Updates
  <2>4. CASE f = e
    <3>1. NewText(e)' = NewText(e) /\ CurrentText(p, pageEdit[e].lang)' = CurrentText(p, pageEdit[e].lang)
      BY <1>2, <1>5 DEF NewText, CurrentText
    <3>2. v \in versions'[p]
      BY <1>4
    <3> QED
      BY <1>2, <1>5, <2>1, <2>3, <2>4, <3>1, <3>2 DEF EditorKnows, v
  <2>5. CASE f # e
    <3>1. NewText(f)' = NewText(f)
          /\ CurrentText(pageEdit[f].id, pageEdit[f].lang)' = CurrentText(pageEdit[f].id, pageEdit[f].lang)
      BY <1>2, <1>5, <2>5 DEF NewText, CurrentText
    <3>2. pageEdit[f].id \in DOMAIN pages => versions[pageEdit[f].id] \subseteq versions'[pageEdit[f].id]
      BY <1>1, <2>2 DEF PageTablesOK
    <3> QED
      BY <1>2, <1>5, <2>1, <2>3, <2>5, <3>1, <3>2 DEF EditorKnows
  <2> QED
    BY <2>4, <2>5
<1> QED
  BY <1>6, <1>7, <1>8 DEF PagesIInv

(* A request that ends, and the menu items, which no part of the invariant *)
(* is about.                                                               *)
LEMMA EndPreserves ==
  ASSUME PagesIInv, NEW e \in PageEditors, pageEdit' = [pageEdit EXCEPT ![e] = NoPageEdit],
         UNCHANGED <<pages, aliases, versions, nextPage, nextText, held>>
  PROVE  PagesIInv'
<1>1. pageEdit'[e] = NoPageEdit /\ nextText' \in Nat
  BY DEF PagesIInv, PageEditorsOK, PageTablesOK
<1>2. EditorKnows(e)' /\ FlagKnows(e)'
  BY <1>1, IdleEdit, IdleKnows DEF Updates
<1> QED
  BY <1>1, <1>2, IdleEdit, EditorSteps DEF Updates

LEMMA OpenLinkPreserves ==
  ASSUME PagesIInv, NEW e \in PageEditors, NEW p \in DOMAIN pages, OpenLink(e, p)
  PROVE  PagesIInv'
<1> DEFINE slugs == [l \in DOMAIN pages[p].tr |-> pages[p].tr[l].slug]
           row == [NoPageEdit EXCEPT !.at = "linking", !.id = p, !.seen = slugs]
<1>1. PageTablesOK /\ PageEditorsOK
  BY DEF PagesIInv
<1>2. pageEdit' = [pageEdit EXCEPT ![e] = row] /\ UNCHANGED pageTables
  BY DEF OpenLink
<1>3. slugs \in UNION {[ls -> Slugs] : ls \in SUBSET Langs}
  <2>1. pages[p].tr \in Translations
    BY <1>1 DEF PageTablesOK, PageType
  <2>2. slugs \in [DOMAIN pages[p].tr -> Slugs] /\ DOMAIN pages[p].tr \in SUBSET Langs
    BY <2>1, TranslationsOf DEF TranslationType
  <2> QED
    BY <2>2
<1>4. row \in PageEditType /\ row.at = "linking"
  <2> HIDE DEF slugs
  <2>1. p \in Nat /\ NoPageEdit \in PageEditType
    BY <1>1, IdleEdit DEF PageTablesOK
  <2> QED
    BY <1>3, <2>1 DEF PageEditType
<1> HIDE DEF row
<1>5. pageEdit'[e] = row
  BY <1>1, <1>2 DEF PageEditorsOK
<1>6. EditorKnows(e)' /\ FlagKnows(e)'
  BY <1>4, <1>5, IdleKnows DEF Updates
<1>7. UNCHANGED <<pages, aliases, versions, nextPage, held>> /\ nextText' \in Nat
  BY <1>1, <1>2 DEF pageTables, PageTablesOK
<1> QED
  BY <1>2, <1>4, <1>6, <1>7, EditorSteps DEF Updates

LEMMA PagesKept ==
  ASSUME PagesIInv, [PagesNext]_pageVars
  PROVE  PagesIInv'
<1>1. ASSUME NEW e \in PageEditors, PageRoutes(e) PROVE PagesIInv'
  <2>1. CASE \E p \in DOMAIN pages, dto \in UpdatePageAggregateDto : StartUpdate(e, p, dto)
    BY <2>1, StartUpdatePreserves
  <2>2. CASE ReadOld(e)
    BY <2>2, ReadOldPreserves
  <2>3. CASE SaveVersion(e)
    BY <2>3, SaveVersionPreserves
  <2>4. CASE WritePage(e)
    BY <2>4, WritePagePreserves
  <2>5. CASE UpdateFails(e)
    BY <2>5, EndPreserves DEF UpdateFails, pageTables
  <2>6. CASE \E p \in DOMAIN pages : OpenLink(e, p)
    BY <2>6, OpenLinkPreserves
  <2>7. CASE SaveLink(e)
    BY <2>7, EndPreserves DEF SaveLink
  <2> QED
    BY <1>1, <2>1, <2>2, <2>3, <2>4, <2>5, <2>6, <2>7 DEF PageRoutes
<1>2. CASE PageBulkRoutes
  <2>1. CASE \E tr \in CreatePageTranslations, t \in Templates, b \in BOOLEAN : CreatePage(tr, t, b)
    BY <2>1, CreatePagePreserves
  <2>2. CASE \E ids \in (SUBSET DOMAIN pages) \ {{}} :
               DeletePages(ids) \/ \E b \in BOOLEAN : TrashPages(ids, b) \/ PublishPages(ids, b)
    BY <2>2, DeletePagesPreserves, TrashPagesPreserves, PublishPagesPreserves
  <2>3. CASE \E p \in DOMAIN pages : PageRowRoutes(p)
    BY <2>3, DeletePagesPreserves, TrashPagesPreserves DEF PageRowRoutes
  <2>4. CASE \E p \in DOMAIN pages : \E v \in versions[p] : RestoreVersion(p, v)
    BY <2>4, RestoreVersionPreserves
  <2> QED
    BY <1>2, <2>1, <2>2, <2>3, <2>4 DEF PageBulkRoutes, PageBulkAction
<1>3. CASE UNCHANGED pageVars
  <2>1. PageTablesOK' /\ PageEditorsOK' /\ HeldKept'
    BY <1>3 DEF PagesIInv, pageVars, pageTables, PageTablesOK, PageEditorsOK, HeldKept,
                HasSlugStill, LedTo
  <2>2. ASSUME NEW e \in PageEditors PROVE EditorKnows(e)' /\ FlagKnows(e)'
    BY <1>3 DEF PagesIInv, pageVars, pageTables, EditorKnows, FlagKnows, CurrentText, NewText
  <2> QED
    BY <2>1, <2>2 DEF PagesIInv
<1> QED
  BY <1>1, <1>2, <1>3 DEF PagesNext

(* Whoever comes with a slug that a page once had finds that page, or the  *)
(* page that has the slug now: update and restoreVersion leave an alias    *)
(* for every slug they give up (prisma-page-aggregate.repository.ts).      *)
THEOREM PagesStayFindable == PagesSpec => []PageSlugsFindable
<1>1. ASSUME PagesIInv, NEW p \in DOMAIN pages, NEW h \in held[p]
      PROVE  LET q == FindBySlug(h.lang, h.slug)
             IN  q = p \/ (q # 0 /\ h.lang \in DOMAIN pages[q].tr /\ pages[q].tr[h.lang].slug = h.slug)
  <2> DEFINE current ==
        {q \in DOMAIN pages : h.lang \in DOMAIN pages[q].tr /\ pages[q].tr[h.lang].slug = h.slug}
  <2>1. HasSlugStill(p, h) \/ LedTo(p, h)
    BY <1>1 DEF PagesIInv, HeldKept
  <2>2. 0 \notin DOMAIN pages
    BY <1>1 DEF PagesIInv, PageTablesOK
  <2>3. CASE current # {}
    <3>1. FindBySlug(h.lang, h.slug) = CHOOSE q \in current : TRUE
      BY <2>3 DEF FindBySlug
    <3>2. FindBySlug(h.lang, h.slug) \in current
      BY <2>3, <3>1
    <3> QED
      BY <2>2, <3>2
  <2>4. CASE current = {}
    <3>1. LedTo(p, h)
      BY <2>1, <2>4 DEF HasSlugStill
    <3>2. FindBySlug(h.lang, h.slug) = p
      BY <2>4, <3>1 DEF FindBySlug, LedTo
    <3> QED
      BY <3>2
  <2> QED
    BY <2>3, <2>4
<1>2. PagesIInv => PageSlugsFindable
  BY <1>1 DEF PageSlugsFindable
<1> QED
  BY <1>2, PagesStart, PagesKept, PTL DEF PagesSpec

-----------------------------------------------------------------------------
(* Which steps change a text, a flag or the slugs that menu items hold.    *)
QuietStep ==
  /\ \A p \in DOMAIN pages \cap DOMAIN pages' :
       pages'[p].tr = pages[p].tr /\ pages'[p].published = pages[p].published
  /\ \A p \in DOMAIN links : p \in DOMAIN links' /\ links'[p] = links[p]

LEMMA PageSteps ==
  ASSUME PagesIInv, [PagesNext]_pageVars
  PROVE  \/ \E e \in PageEditors : WritePage(e)
         \/ \E p \in DOMAIN pages : \E v \in versions[p] : RestoreVersion(p, v)
         \/ \E ids \in SUBSET DOMAIN pages, b \in BOOLEAN : PublishPages(ids, b)
         \/ QuietStep
<1>1. PageTablesOK
  BY DEF PagesIInv
<1>2. ASSUME UNCHANGED <<pages, links>> PROVE QuietStep
  BY <1>2 DEF QuietStep
<1>3. ASSUME NEW e \in PageEditors, PageRoutes(e), ~WritePage(e) PROVE QuietStep
  <2>1. CASE SaveLink(e)
    BY <2>1 DEF SaveLink, Put, QuietStep
  <2>2. CASE ~SaveLink(e)
    <3>1. CASE \E p \in DOMAIN pages, dto \in UpdatePageAggregateDto : StartUpdate(e, p, dto)
      BY <1>2, <3>1 DEF StartUpdate
    <3>2. CASE ReadOld(e) \/ SaveVersion(e) \/ UpdateFails(e)
      BY <1>2, <3>2 DEF ReadOld, SaveVersion, UpdateFails, pageTables
    <3>3. CASE \E p \in DOMAIN pages : OpenLink(e, p)
      BY <1>2, <3>3 DEF OpenLink, pageTables
    <3> QED
      BY <1>3, <2>2, <3>1, <3>2, <3>3 DEF PageRoutes
  <2> QED
    BY <2>1, <2>2
<1>4. ASSUME NEW ids, NEW b, TrashPages(ids, b) PROVE QuietStep
  <2>1. /\ links' = links /\ DOMAIN pages' = DOMAIN pages
        /\ \A p \in DOMAIN pages :
             pages'[p] = IF p \in ids THEN [pages[p] EXCEPT !.trashed = b] ELSE pages[p]
    BY <1>4 DEF TrashPages
  <2>2. \A p \in DOMAIN pages : pages[p] \in PageType
    BY <1>1 DEF PageTablesOK
  <2> QED
    BY <2>1, <2>2 DEF QuietStep, PageType
<1>5. ASSUME NEW ids, DeletePages(ids) PROVE QuietStep
  BY <1>5 DEF DeletePages, Only, QuietStep
<1>6. ASSUME NEW tr, NEW t, NEW b, CreatePage(tr, t, b) PROVE QuietStep
  <2>1. /\ links' = links /\ nextPage \notin DOMAIN pages
        /\ \A p \in DOMAIN pages : p # nextPage => pages'[p] = pages[p]
    BY <1>1, <1>6 DEF CreatePage, Put, PageTablesOK
  <2> QED
    BY <2>1 DEF QuietStep
<1>7. CASE PageBulkRoutes
  BY <1>4, <1>5, <1>6, <1>7 DEF PageBulkRoutes, PageBulkAction, PageRowRoutes
<1>8. CASE UNCHANGED pageVars
  BY <1>2, <1>8 DEF pageVars, pageTables
<1> QED
  BY <1>3, <1>7, <1>8 DEF PagesNext

LEMMA WritePageEnds ==
  ASSUME PagesIInv, NEW e \in PageEditors, WritePage(e)
  PROVE  pageEdit'[e].at = "idle"
<1> DEFINE jobs == [pageEdit EXCEPT ![e] = NoPageEdit]
           done == Crossing(jobs, pageEdit[e].id, pageEdit[e].lang)
<1>1. jobs \in [PageEditors -> PageEditType] /\ jobs[e].at = "idle"
  BY IdleEdit DEF PagesIInv, PageEditorsOK
<1>2. pageEdit' = done \/ pageEdit' = Overtaking(done, {pageEdit[e].id})
  BY DEF WritePage
<1> HIDE DEF jobs
<1>3. done \in [PageEditors -> PageEditType] /\ done[e].at = "idle"
  BY <1>1, CrossingMarks DEF SameEdit
<1> HIDE DEF done
<1>4. Overtaking(done, {pageEdit[e].id})[e].at = "idle"
  BY <1>3, OvertakingMarks DEF SameEdit
<1> QED
  BY <1>2, <1>3, <1>4

(* What WritePage writes of its page.                                      *)
LEMMA WritePageWrites ==
  ASSUME PagesIInv, NEW e \in PageEditors, WritePage(e)
  PROVE  /\ pageEdit[e].lang \in Langs /\ NewText(e) \in TranslationType
         /\ Rewritten(pageEdit[e].id, pageEdit[e].lang, NewText(e))
         /\ WriteTranslation(pageEdit[e].id, pageEdit[e].lang, NewText(e))
         /\ pages'[pageEdit[e].id].published = pageEdit[e].published
         /\ pageEdit[e].at = "writing" /\ versions' = versions
<1> DEFINE p == pageEdit[e].id
           l == pageEdit[e].lang
<1>1. PageTablesOK /\ PageEditorsOK /\ pageEdit[e] \in PageEditType
  BY DEF PagesIInv, PageEditorsOK
<1>2. /\ pageEdit[e].at = "writing" /\ p \in DOMAIN pages /\ WriteTranslation(p, l, NewText(e))
      /\ pages' = [pages EXCEPT ![p].tr = Put(@, l, NewText(e)), ![p].published = pageEdit[e].published]
      /\ versions' = versions
  BY DEF WritePage, NewText
<1>3. l \in Langs /\ NewText(e) \in TranslationType /\ pageEdit[e].published \in BOOLEAN
  BY <1>1, <1>2 DEF PageEditorsOK, Updates, NewText, TranslationType, PageEditType
<1>4. pages'[p].published = pageEdit[e].published
  BY <1>1, <1>2 DEF PageTablesOK, PageType
<1> HIDE DEF p, l
<1>5. Rewritten(p, l, NewText(e))
  BY <1>2, <1>3, WriteRewrites
<1> QED
  BY <1>2, <1>3, <1>4, <1>5 DEF p, l

(* A text that is replaced is in the versions of its page, but for one     *)
(* written between an update's read and its write, and for what the        *)
(* restoring of a version replaces: createVersion comes before the update  *)
(* and is about what ReadOld has seen.                                     *)
THEOREM PagesKeepTexts == PagesSpec => ReplacedTextsKept
<1> DEFINE TextKept(p, l) ==
      LET old == pages[p].tr[l]  new == pages'[p].tr[l] IN
        old.text # new.text => \/ \E v \in versions'[p] : v.lang = l /\ v.tr.text = old.text
                               \/ \E v \in versions[p] : v.lang = l /\ v.tr = new
                               \/ \E e \in PageEditors : pageEdit[e].crossed /\ pageEdit'[e].at = "idle"
<1>1. ASSUME PagesIInv, [PagesNext]_pageVars,
             NEW p \in DOMAIN pages \cap DOMAIN pages', NEW l \in DOMAIN pages[p].tr
      PROVE  TextKept(p, l)
  <2>1. ASSUME NEW e \in PageEditors, WritePage(e) PROVE TextKept(p, l)
    <3>1. /\ Rewritten(pageEdit[e].id, pageEdit[e].lang, NewText(e))
          /\ pageEdit[e].at = "writing" /\ versions' = versions
      BY <1>1, <2>1, WritePageWrites
    <3>2. CASE ~(p = pageEdit[e].id /\ l = pageEdit[e].lang)
      <4>1. pages'[p].tr[l] = pages[p].tr[l]
        BY <1>1, <3>1, <3>2 DEF Rewritten
      <4> QED
        BY <4>1
    <3>3. CASE p = pageEdit[e].id /\ l = pageEdit[e].lang /\ pageEdit[e].crossed
      BY <1>1, <2>1, <3>3, WritePageEnds
    <3>4. CASE p = pageEdit[e].id /\ l = pageEdit[e].lang /\ ~pageEdit[e].crossed
      <4>1. pageEdit[e].seen = pages[p].tr[l]
        BY <1>1, <3>1, <3>4 DEF PagesIInv, EditorKnows, CurrentText
      <4>2. pages[p].tr[l] \in TranslationType
        BY <1>1, TranslationsOf DEF PagesIInv, PageTablesOK, PageType
      <4>3. pages[p].tr[l] # None
        BY <4>2, NoneIsNoTranslation DEF TranslationType
      <4>4. pages'[p].tr[l] = NewText(e)
        BY <3>1, <3>4 DEF Rewritten
      <4>5. CASE pages[p].tr[l] = NewText(e)
        BY <4>4, <4>5
      <4>6. CASE pages[p].tr[l] # NewText(e)
        <5>1. [lang |-> l, tr |-> pages[p].tr[l]] \in versions[p]
          BY <1>1, <3>1, <3>4, <4>1, <4>3, <4>6 DEF PagesIInv, EditorKnows, Changed
        <5> QED
          BY <3>1, <5>1
      <4> QED
        BY <4>5, <4>6
    <3> QED
      BY <3>2, <3>3, <3>4
  <2>2. ASSUME NEW q \in DOMAIN pages, NEW v \in versions[q], RestoreVersion(q, v) PROVE TextKept(p, l)
    <3>1. v.lang \in Langs /\ v.tr \in TranslationType
      BY <1>1 DEF PagesIInv, PageTablesOK
    <3>2. Rewritten(q, v.lang, v.tr)
      BY <1>1, <2>2, <3>1, WriteRewrites DEF RestoreVersion
    <3>3. pages'[p].tr[l] = pages[p].tr[l] \/ (p = q /\ l = v.lang /\ pages'[p].tr[l] = v.tr)
      BY <1>1, <3>2 DEF Rewritten
    <3> QED
      BY <3>3
  <2>3. ASSUME NEW ids, NEW b \in BOOLEAN, PublishPages(ids, b) PROVE TextKept(p, l)
    <3>1. pages[p] \in PageType
      BY <1>1 DEF PagesIInv, PageTablesOK
    <3>2. pages'[p].tr = pages[p].tr
      BY <2>3, <3>1 DEF PublishPages, PageType
    <3> QED
      BY <3>2
  <2>4. CASE QuietStep
    BY <1>1, <2>4 DEF QuietStep
  <2> QED
    BY <1>1, <2>1, <2>2, <2>3, <2>4, PageSteps
<1>2. ASSUME PagesIInv, [PagesNext]_pageVars
      PROVE  [\A p \in DOMAIN pages \cap DOMAIN pages' : \A l \in DOMAIN pages[p].tr : TextKept(p, l)]_pageVars
  BY <1>1, <1>2
<1> QED
  BY <1>2, PagesStart, PagesKept, PTL DEF PagesSpec, ReplacedTextsKept

(* An unpublished page is published because someone asks for it, or by an  *)
(* update that read its flags before it was unpublished: a PATCH without   *)
(* the flag writes the one that its controller has read.                   *)
THEOREM PagesPublishedOnPurpose == PagesSpec => PublishedOnPurpose
<1> DEFINE OnPurpose(p) ==
      ~pages[p].published /\ pages'[p].published =>
        \/ pageEdit' = pageEdit /\ UNCHANGED [q \in DOMAIN pages |-> pages[q].trashed]
        \/ \E e \in PageEditors : /\ pageEdit[e].at = "writing" /\ pageEdit'[e].at = "idle"
                                  /\ pageEdit[e].asked \/ pageEdit[e].overtaken
<1>1. ASSUME PagesIInv, [PagesNext]_pageVars, NEW p \in DOMAIN pages \cap DOMAIN pages'
      PROVE  OnPurpose(p)
  <2>0. PageTablesOK
    BY <1>1 DEF PagesIInv
  <2>1. ASSUME NEW e \in PageEditors, WritePage(e) PROVE OnPurpose(p)
    <3>1. /\ Rewritten(pageEdit[e].id, pageEdit[e].lang, NewText(e)) /\ pageEdit[e].at = "writing"
          /\ pages'[pageEdit[e].id].published = pageEdit[e].published /\ pageEdit'[e].at = "idle"
      BY <1>1, <2>1, WritePageWrites, WritePageEnds
    <3>2. CASE p # pageEdit[e].id
      BY <1>1, <3>1, <3>2 DEF Rewritten
    <3>3. CASE p = pageEdit[e].id
      <4>1. pageEdit[e].published /\ ~pageEdit[e].asked /\ ~pageEdit[e].overtaken => pages[p].published
        BY <1>1, <3>1, <3>3 DEF PagesIInv, FlagKnows, Updates
      <4> QED
        BY <3>1, <3>3, <4>1
    <3> QED
      BY <3>2, <3>3
  <2>2. ASSUME NEW q \in DOMAIN pages, NEW v \in versions[q], RestoreVersion(q, v) PROVE OnPurpose(p)
    <3>1. pages[p] \in PageType
      BY <1>1, <2>0 DEF PageTablesOK
    <3>2. pages'[p].published = pages[p].published
      BY <1>1, <2>0, <2>2, <3>1 DEF RestoreVersion, PageType
    <3> QED
      BY <3>2
  <2>3. ASSUME NEW ids, NEW b \in BOOLEAN, PublishPages(ids, b) PROVE OnPurpose(p)
    <3>1. \A q \in DOMAIN pages : pages[q] \in PageType
      BY <2>0 DEF PageTablesOK
    <3>2. /\ DOMAIN pages' = DOMAIN pages
          /\ \A q \in DOMAIN pages :
               pages'[q] = IF q \in ids THEN [pages[q] EXCEPT !.published = b] ELSE pages[q]
      BY <2>3 DEF PublishPages
    <3>3. \A q \in DOMAIN pages : pages'[q].trashed = pages[q].trashed
      BY <3>1, <3>2 DEF PageType
    <3>4. \A q \in DOMAIN pages : ~b => (pages'[q].published => pages[q].published)
      BY <3>1, <3>2 DEF PageType
    <3>5. b => pageEdit' = pageEdit
      BY <2>3 DEF PublishPages
    <3>6. UNCHANGED [q \in DOMAIN pages |-> pages[q].trashed]
      BY <3>2, <3>3
    <3> QED
      BY <1>1, <3>4, <3>5, <3>6
  <2>4. CASE QuietStep
    BY <1>1, <2>4 DEF QuietStep
  <2> QED
    BY <1>1, <2>1, <2>2, <2>3, <2>4, PageSteps
<1>2. ASSUME PagesIInv, [PagesNext]_pageVars
      PROVE  [\A p \in DOMAIN pages \cap DOMAIN pages' : OnPurpose(p)]_pageVars
  BY <1>1, <1>2
<1> QED
  BY <1>2, PagesStart, PagesKept, PTL DEF PagesSpec, PublishedOnPurpose

(* A menu item that leads to its page does so after every update of the    *)
(* page and every version restored: whoever renames a page gives the slug  *)
(* to the menu items in the same transaction.                              *)
THEOREM MenuLinksStayRight == PagesSpec => LinksStayRight
<1> DEFINE Right(p, l) == links[p][l] = pages[p].tr[l].slug => links'[p][l] = pages'[p].tr[l].slug
<1>1. ASSUME PagesIInv, [PagesNext]_pageVars,
             NEW p \in DOMAIN pages \cap DOMAIN pages' \cap DOMAIN links,
             NEW l \in DOMAIN links[p] \cap DOMAIN pages[p].tr
      PROVE  Right(p, l)
  <2>1. ASSUME NEW q, NEW k, NEW new, Rewritten(q, k, new), WriteTranslation(q, k, new)
        PROVE  Right(p, l)
    <3>1. links' = Relinked(q, k, new.slug)
      BY <2>1 DEF WriteTranslation
    <3>2. CASE p = q /\ l = k
      <4>1. pages'[p].tr[l] = new
        BY <2>1, <3>2 DEF Rewritten
      <4>2. CASE GivesUp(p, l, new.slug)
        <5>1. links' = [links EXCEPT ![p][l] = new.slug]
          BY <1>1, <3>1, <3>2, <4>2 DEF Relinked
        <5> QED
          BY <1>1, <4>1, <5>1
      <4>3. CASE ~GivesUp(p, l, new.slug)
        BY <1>1, <3>1, <3>2, <4>1, <4>3 DEF Relinked, GivesUp
      <4> QED
        BY <4>2, <4>3
    <3>3. CASE ~(p = q /\ l = k)
      <4>1. pages'[p].tr[l] = pages[p].tr[l]
        BY <1>1, <2>1, <3>3 DEF Rewritten
      <4>2. links'[p][l] = links[p][l]
        BY <1>1, <3>1, <3>3 DEF Relinked
      <4> QED
        BY <4>1, <4>2
    <3> QED
      BY <3>2, <3>3
  <2>2. ASSUME NEW e \in PageEditors, WritePage(e) PROVE Right(p, l)
    BY <1>1, <2>1, <2>2, WritePageWrites
  <2>3. ASSUME NEW q \in DOMAIN pages, NEW v \in versions[q], RestoreVersion(q, v) PROVE Right(p, l)
    <3>1. v.lang \in Langs /\ v.tr \in TranslationType
      BY <1>1 DEF PagesIInv, PageTablesOK
    <3>2. Rewritten(q, v.lang, v.tr) /\ WriteTranslation(q, v.lang, v.tr)
      BY <1>1, <2>3, <3>1, WriteRewrites DEF RestoreVersion
    <3> QED
      BY <2>1, <3>2
  <2>4. ASSUME NEW ids, NEW b \in BOOLEAN, PublishPages(ids, b) PROVE Right(p, l)
    <3>1. pages[p] \in PageType
      BY <1>1 DEF PagesIInv, PageTablesOK
    <3>2. pages'[p].tr = pages[p].tr /\ links' = links
      BY <1>1, <2>4, <3>1 DEF PublishPages, PageType
    <3> QED
      BY <3>2
  <2>5. CASE QuietStep
    BY <1>1, <2>5 DEF QuietStep
  <2> QED
    BY <1>1, <2>2, <2>3, <2>4, <2>5, PageSteps
<1>2. ASSUME PagesIInv, [PagesNext]_pageVars
      PROVE  [\A p \in DOMAIN pages \cap DOMAIN pages' \cap DOMAIN links :
                \A l \in DOMAIN links[p] \cap DOMAIN pages[p].tr : Right(p, l)]_pageVars
  BY <1>1, <1>2
<1> QED
  BY <1>2, PagesStart, PagesKept, PTL DEF PagesSpec, LinksStayRight

(***************************************************************************)
(* Posts.                                                                  *)
(***************************************************************************)
PostRow == [tr : Translations, type : PostTypes, published : BOOLEAN, trashed : BOOLEAN]
PostEditType ==
  [at : {"idle", "checking", "reading", "writing"}, id : Nat, lang : Langs \cup {None},
   slug : Slugs \cup {None}, text : Nat, published : BOOLEAN \cup {None}, seen : Translations]

PostTablesOK ==
  /\ nextPost \in Nat \ {0} /\ nextPostText \in Nat
  /\ posts \in [DOMAIN posts -> PostRow] /\ DOMAIN posts \subseteq 1 .. nextPost - 1
  /\ DOMAIN postVersions = DOMAIN posts /\ DOMAIN postHeld = DOMAIN posts
  /\ \A p \in DOMAIN posts : postVersions[p] \subseteq [lang : Langs, tr : TranslationType]

PostEditOK(edit0) ==
  edit0.at # "idle" => edit0.id \in 1 .. nextPost - 1 /\ edit0.lang \in Langs /\ edit0.slug \in Slugs

(* When a request comes to write, every translation that it has seen is in *)
(* the versions.                                                           *)
VersionsThere(p, tr) == \A l \in DOMAIN tr : [lang |-> l, tr |-> tr[l]] \in postVersions[p]
PostEditorKnows(e) ==
  postEdit[e].at = "writing" /\ postEdit[e].id \in DOMAIN posts =>
    VersionsThere(postEdit[e].id, postEdit[e].seen)

PostsIInv ==
  /\ PostTablesOK
  /\ postEdit \in [PostEditors -> PostEditType]
  /\ \A e \in PostEditors : PostEditOK(postEdit[e]) /\ PostEditorKnows(e)

LEMMA IdlePostEdit == NoPostEdit \in PostEditType /\ NoPostEdit.at = "idle"
<1>1. << >> \in Translations
  <2>1. << >> \in [{} -> TranslationType] /\ {} \in SUBSET Langs
    OBVIOUS
  <2> QED
    BY <2>1 DEF Translations
<1> QED
  BY <1>1 DEF NoPostEdit, PostEditType

LEMMA PostsStart == PostsInit => PostsIInv
<1> SUFFICES ASSUME PostsInit PROVE PostsIInv
  OBVIOUS
<1>1. PostTablesOK
  BY DEF PostsInit, PostTablesOK
<1> QED
  BY <1>1, IdlePostEdit DEF PostsInit, PostsIInv, PostEditOK, PostEditorKnows

(* A request that goes on, while the posts stay and versions are added.    *)
LEMMA PostEditorSteps ==
  ASSUME PostsIInv, UNCHANGED <<posts, nextPost, postHeld>>, nextPostText' \in Nat,
         NEW e \in PostEditors, NEW row \in PostEditType, PostEditOK(row),
         postEdit' = [postEdit EXCEPT ![e] = row],
         DOMAIN postVersions' = DOMAIN postVersions,
         \A p \in DOMAIN posts : /\ postVersions[p] \subseteq postVersions'[p]
                                 /\ postVersions'[p] \subseteq [lang : Langs, tr : TranslationType],
         row.at = "writing" /\ row.id \in DOMAIN posts => VersionsThere(row.id, row.seen)'
  PROVE  PostsIInv'
<1>1. PostTablesOK
  BY DEF PostsIInv
<1>2. /\ postEdit' \in [PostEditors -> PostEditType] /\ postEdit'[e] = row
      /\ \A f \in PostEditors \ {e} : postEdit'[f] = postEdit[f]
  BY DEF PostsIInv
<1>3. PostTablesOK'
  BY <1>1 DEF PostTablesOK
<1>4. ASSUME NEW f \in PostEditors PROVE PostEditOK(postEdit[f])' /\ PostEditorKnows(f)'
  <2>1. CASE f = e
    BY <1>2, <2>1 DEF PostEditOK, PostEditorKnows, VersionsThere
  <2>2. CASE f # e
    <3>1. PostEditOK(postEdit[f]) /\ PostEditorKnows(f)
      BY DEF PostsIInv
    <3> QED
      BY <1>2, <2>2, <3>1 DEF PostEditOK, PostEditorKnows, VersionsThere
  <2> QED
    BY <2>1, <2>2
<1> QED
  BY <1>2, <1>3, <1>4 DEF PostsIInv

LEMMA VersionsAdded ==
  ASSUME PostsIInv, NEW p \in DOMAIN posts, NEW tr \in Translations,
         postVersions' = PostVersionsWith(p, tr), UNCHANGED posts
  PROVE  /\ DOMAIN postVersions' = DOMAIN postVersions
         /\ \A q \in DOMAIN posts : /\ postVersions[q] \subseteq postVersions'[q]
                                    /\ postVersions'[q] \subseteq [lang : Langs, tr : TranslationType]
         /\ VersionsThere(p, tr)'
<1>1. PostTablesOK
  BY DEF PostsIInv
<1> DEFINE more == {[lang |-> l, tr |-> tr[l]] : l \in DOMAIN tr}
<1>2. more \subseteq [lang : Langs, tr : TranslationType]
  BY TranslationsOf
<1>3. /\ DOMAIN postVersions' = DOMAIN postVersions
      /\ postVersions'[p] = postVersions[p] \cup more
      /\ \A q \in DOMAIN posts \ {p} : postVersions'[q] = postVersions[q]
  BY <1>1 DEF PostVersionsWith, Put, PostTablesOK
<1>4. VersionsThere(p, tr)'
  BY <1>3 DEF VersionsThere
<1> HIDE DEF more
<1> QED
  BY <1>1, <1>2, <1>3, <1>4 DEF PostTablesOK

-----------------------------------------------------------------------------
LEMMA StartUpdatePostPreserves ==
  ASSUME PostsIInv, NEW e \in PostEditors, NEW p \in DOMAIN posts,
         NEW dto \in UpdatePostAggregateDto, StartUpdatePost(e, p, dto)
  PROVE  PostsIInv'
<1>1. PICK text, flag :
        /\ text = IF dto.newText THEN nextPostText ELSE posts[p].tr[dto.lang].text
        /\ flag = Flag(dto.published, posts[p].published)
  OBVIOUS
<1>2. PICK row :
        row = [NoPostEdit EXCEPT !.at = "checking", !.id = p, !.lang = dto.lang, !.slug = dto.slug,
                 !.text = text, !.published = flag]
  OBVIOUS
<1>3. /\ postEdit' = [postEdit EXCEPT ![e] = row]
      /\ nextPostText' = IF dto.newText THEN nextPostText + 1 ELSE nextPostText
      /\ UNCHANGED <<posts, postAliases, postVersions, nextPost, postHeld>>
      /\ dto.newText \/ dto.lang \in DOMAIN posts[p].tr
  BY <1>1, <1>2 DEF StartUpdatePost
<1>4. /\ dto.lang \in Langs /\ dto.slug \in Slugs /\ dto.newText \in BOOLEAN
      /\ dto.published \in BOOLEAN \cup {None}
  BY DEF UpdatePostAggregateDto
<1>5. PostTablesOK /\ posts[p] \in PostRow /\ p \in 1 .. nextPost - 1 /\ p \in Nat
  BY DEF PostsIInv, PostTablesOK
<1>6. text \in Nat /\ flag \in BOOLEAN \cup {None} /\ nextPostText' \in Nat
  <2>1. dto.lang \in DOMAIN posts[p].tr => posts[p].tr[dto.lang] \in TranslationType
    BY <1>5, TranslationsOf DEF PostRow
  <2> QED
    BY <1>1, <1>3, <1>4, <1>5, <2>1 DEF Flag, PostRow, PostTablesOK, TranslationType
<1>7. row \in PostEditType /\ row.at = "checking" /\ PostEditOK(row)
  <2>1. NoPostEdit \in PostEditType
    BY IdlePostEdit
  <2> QED
    BY <1>2, <1>4, <1>5, <1>6, <2>1 DEF PostEditType, PostEditOK
<1> QED
  BY <1>3, <1>5, <1>6, <1>7, PostEditorSteps DEF PostTablesOK

LEMMA EndPostPreserves ==
  ASSUME PostsIInv, NEW e \in PostEditors, postEdit' = [postEdit EXCEPT ![e] = NoPostEdit],
         UNCHANGED <<posts, nextPost, nextPostText, postHeld, postVersions>>
  PROVE  PostsIInv'
<1>1. nextPostText' \in Nat /\ PostEditOK(NoPostEdit) /\ PostTablesOK
  BY IdlePostEdit DEF PostsIInv, PostTablesOK, PostEditOK
<1> QED
  BY <1>1, IdlePostEdit, PostEditorSteps DEF PostTablesOK

(* updateAggregate of the service: a version of the translation, and the   *)
(* slug looked up.                                                         *)
LEMMA CheckPostPreserves ==
  ASSUME PostsIInv, NEW e \in PostEditors, CheckPost(e)
  PROVE  PostsIInv'
<1>1. PICK p, l, old, new :
        /\ p = postEdit[e].id /\ l = postEdit[e].lang
        /\ new = [slug |-> postEdit[e].slug, text |-> postEdit[e].text]
        /\ old = IF l \in DOMAIN posts[p].tr THEN posts[p].tr[l] ELSE None
  OBVIOUS
<1>2. /\ postEdit[e].at = "checking" /\ p \in DOMAIN posts
      /\ postVersions' = IF Changed(old, new) THEN PostVersionsWith(p, [k \in {l} |-> old]) ELSE postVersions
      /\ postEdit' = [postEdit EXCEPT ![e].at = "reading"] \/ postEdit' = [postEdit EXCEPT ![e] = NoPostEdit]
      /\ UNCHANGED <<posts, postAliases, nextPost, nextPostText, postHeld>>
  BY <1>1 DEF CheckPost
<1>3. PostTablesOK /\ postEdit[e] \in PostEditType /\ PostEditOK(postEdit[e]) /\ posts[p] \in PostRow
  BY <1>2 DEF PostsIInv, PostTablesOK
<1>4. /\ DOMAIN postVersions' = DOMAIN postVersions
      /\ \A q \in DOMAIN posts : /\ postVersions[q] \subseteq postVersions'[q]
                                 /\ postVersions'[q] \subseteq [lang : Langs, tr : TranslationType]
  <2>1. CASE ~Changed(old, new)
    BY <1>2, <1>3, <2>1 DEF PostTablesOK
  <2>2. CASE Changed(old, new)
    <3>1. l \in DOMAIN posts[p].tr /\ old = posts[p].tr[l]
      BY <1>1, <2>2 DEF Changed
    <3>2. l \in Langs /\ old \in TranslationType
      BY <1>3, <3>1, TranslationsOf DEF PostRow
    <3>3. [k \in {l} |-> old] \in [{l} -> TranslationType] /\ {l} \in SUBSET Langs
      BY <3>2
    <3>4. PICK tr : tr = [k \in {l} |-> old]
      OBVIOUS
    <3>5. tr \in Translations
      BY <3>3, <3>4 DEF Translations
    <3> QED
      BY <1>2, <2>2, <3>4, <3>5, VersionsAdded
  <2> QED
    BY <2>1, <2>2
<1>5. PICK row : /\ postEdit' = [postEdit EXCEPT ![e] = row]
                 /\ row = [postEdit[e] EXCEPT !.at = "reading"] \/ row = NoPostEdit
  BY <1>2
<1>6. row \in PostEditType /\ row.at # "writing" /\ PostEditOK(row)
  <2>1. CASE row = NoPostEdit
    BY <2>1, IdlePostEdit DEF PostEditOK
  <2>2. CASE row = [postEdit[e] EXCEPT !.at = "reading"]
    BY <1>2, <1>3, <2>2 DEF PostEditType, PostEditOK
  <2> QED
    BY <1>5, <2>1, <2>2
<1> QED
  BY <1>2, <1>3, <1>4, <1>5, <1>6, PostEditorSteps DEF PostTablesOK

(* The repository reads the post and writes a version of all of it.        *)
LEMMA ReadPostPreserves ==
  ASSUME PostsIInv, NEW e \in PostEditors, ReadPost(e)
  PROVE  PostsIInv'
<1>1. PICK p, tr, row :
        /\ p = postEdit[e].id /\ tr = posts[p].tr
        /\ row = [postEdit[e] EXCEPT !.at = "writing", !.seen = tr]
  OBVIOUS
<1>2. /\ postEdit[e].at = "reading" /\ p \in DOMAIN posts
      /\ postVersions' = PostVersionsWith(p, tr)
      /\ postEdit' = [postEdit EXCEPT ![e] = row]
      /\ UNCHANGED <<posts, postAliases, nextPost, nextPostText, postHeld>>
  BY <1>1 DEF ReadPost
<1>3. PostTablesOK /\ postEdit[e] \in PostEditType /\ PostEditOK(postEdit[e]) /\ posts[p] \in PostRow
  BY <1>2 DEF PostsIInv, PostTablesOK
<1>4. tr \in Translations
  BY <1>1, <1>3 DEF PostRow
<1>5. /\ DOMAIN postVersions' = DOMAIN postVersions
      /\ \A q \in DOMAIN posts : /\ postVersions[q] \subseteq postVersions'[q]
                                 /\ postVersions'[q] \subseteq [lang : Langs, tr : TranslationType]
      /\ VersionsThere(p, tr)'
  BY <1>2, <1>4, VersionsAdded
<1>6. /\ row \in PostEditType /\ PostEditOK(row) /\ row.id = p /\ row.seen = tr
  BY <1>1, <1>2, <1>3, <1>4 DEF PostEditType, PostEditOK
<1>7. row.at = "writing" /\ row.id \in DOMAIN posts => VersionsThere(row.id, row.seen)'
  BY <1>5, <1>6
<1> QED
  BY <1>2, <1>3, <1>5, <1>6, <1>7, PostEditorSteps DEF PostTablesOK

LEMMA RestorePostVersionPreserves ==
  ASSUME PostsIInv, NEW e \in PostEditors, NEW p \in DOMAIN posts, NEW v \in postVersions[p],
         RestorePostVersion(e, p, v)
  PROVE  PostsIInv'
<1>1. PICK row :
        row = [NoPostEdit EXCEPT !.at = "reading", !.id = p, !.lang = v.lang, !.slug = v.tr.slug,
                                 !.text = v.tr.text, !.published = None]
  OBVIOUS
<1>2. postEdit' = [postEdit EXCEPT ![e] = row] /\ UNCHANGED postTables
  BY <1>1 DEF RestorePostVersion
<1>3. PostTablesOK /\ p \in 1 .. nextPost - 1 /\ p \in Nat
  BY DEF PostsIInv, PostTablesOK
<1>4. v.lang \in Langs /\ v.tr.slug \in Slugs /\ v.tr.text \in Nat
  BY <1>3 DEF PostTablesOK, TranslationType
<1>5. row \in PostEditType /\ row.at = "reading" /\ PostEditOK(row)
  <2>1. NoPostEdit \in PostEditType
    BY IdlePostEdit
  <2> QED
    BY <1>1, <1>3, <1>4, <2>1 DEF PostEditType, PostEditOK
<1>6. UNCHANGED <<posts, nextPost, postHeld, postVersions, nextPostText>>
  BY <1>2 DEF postTables
<1> QED
  BY <1>2, <1>3, <1>5, <1>6, PostEditorSteps DEF PostTablesOK

LEMMA CreatePostPreserves ==
  ASSUME PostsIInv, NEW tr \in CreatePageTranslations, NEW t \in PostTypes, NEW b \in BOOLEAN,
         CreatePost(tr, t, b)
  PROVE  PostsIInv'
<1>1. PICK p, row, has :
        /\ p = nextPost
        /\ row = [tr |-> [l \in DOMAIN tr |-> [slug |-> tr[l], text |-> 0]],
                  type |-> t, published |-> b, trashed |-> FALSE]
        /\ has = {[lang |-> l, slug |-> tr[l]] : l \in DOMAIN tr}
  OBVIOUS
<1>2. /\ posts' = Put(posts, p, row) /\ postVersions' = Put(postVersions, p, {})
      /\ postHeld' = Put(postHeld, p, has) /\ nextPost' = p + 1
      /\ UNCHANGED <<postAliases, nextPostText, postEdit>>
  BY <1>1 DEF CreatePost
<1>3. PostTablesOK /\ p \in Nat \ {0} /\ p \notin DOMAIN posts
  BY <1>1 DEF PostsIInv, PostTablesOK
<1>4. row \in PostRow
  <2>1. PICK ls \in SUBSET Langs : tr \in [ls -> Slugs]
    BY DEF CreatePageTranslations
  <2>2. [l \in DOMAIN tr |-> [slug |-> tr[l], text |-> 0]] \in [ls -> TranslationType]
    BY <2>1 DEF TranslationType
  <2>3. [l \in DOMAIN tr |-> [slug |-> tr[l], text |-> 0]] \in Translations
    BY <2>1, <2>2 DEF Translations
  <2> QED
    BY <1>1, <2>3 DEF PostRow
<1>5. /\ DOMAIN posts' = DOMAIN posts \cup {p} /\ posts'[p] = row
      /\ posts' = [q \in DOMAIN posts' |-> posts'[q]]
      /\ \A q \in DOMAIN posts : posts'[q] = posts[q]
  BY <1>2, <1>3 DEF Put
<1>6. /\ DOMAIN postVersions' = DOMAIN postVersions \cup {p} /\ postVersions'[p] = {}
      /\ \A q \in DOMAIN posts : postVersions'[q] = postVersions[q]
  BY <1>2, <1>3 DEF Put, PostTablesOK
<1>7. DOMAIN postHeld' = DOMAIN postHeld \cup {p}
  BY <1>2 DEF Put
<1>8. PostTablesOK'
  <2>1. \A q \in DOMAIN posts' : /\ posts'[q] \in PostRow
                                 /\ postVersions'[q] \subseteq [lang : Langs, tr : TranslationType]
    BY <1>3, <1>4, <1>5, <1>6 DEF PostTablesOK
  <2>2. DOMAIN posts' \subseteq 1 .. nextPost' - 1 /\ nextPost' \in Nat \ {0}
    <3>1. DOMAIN posts \subseteq 1 .. p - 1
      BY <1>1, <1>3 DEF PostTablesOK
    <3> QED
      BY <1>2, <1>3, <1>5, <3>1
  <2> QED
    BY <1>2, <1>3, <1>5, <1>6, <1>7, <2>1, <2>2 DEF PostTablesOK
<1>9. ASSUME NEW e \in PostEditors PROVE PostEditOK(postEdit[e])' /\ PostEditorKnows(e)'
  <2>1. PostEditOK(postEdit[e]) /\ PostEditorKnows(e)
    BY DEF PostsIInv
  <2>2. PostEditOK(postEdit[e])'
    BY <1>1, <1>2, <1>3, <2>1 DEF PostEditOK
  <2>3. postEdit[e].at = "writing" => postEdit[e].id # p
    BY <1>1, <1>3, <2>1 DEF PostEditOK
  <2>4. PostEditorKnows(e)'
    BY <1>2, <1>5, <1>6, <2>1, <2>3 DEF PostEditorKnows, VersionsThere
  <2> QED
    BY <2>2, <2>4
<1> QED
  BY <1>2, <1>8, <1>9 DEF PostsIInv

(* What WritePost writes of its post.                                      *)
LEMMA WritePostWrites ==
  ASSUME PostsIInv, NEW e \in PostEditors, WritePost(e), NEW p, p = postEdit[e].id,
         NEW l, l = postEdit[e].lang, NEW new, new = [slug |-> postEdit[e].slug, text |-> postEdit[e].text]
  PROVE  /\ postEdit[e].at = "writing" /\ p \in DOMAIN posts /\ DOMAIN posts' = DOMAIN posts
         /\ posts' = [q \in DOMAIN posts |-> posts'[q]]
         /\ \A q \in DOMAIN posts \ {p} : posts'[q] = posts[q]
         /\ posts'[p] \in PostRow
         /\ posts'[p].tr[l] = new /\ \A k \in DOMAIN posts[p].tr \ {l} : posts'[p].tr[k] = posts[p].tr[k]
         /\ DOMAIN posts'[p].tr = DOMAIN posts[p].tr \cup {l}
<1>1. PICK tr, flag : tr = Put(posts[p].tr, l, new) /\ flag = Flag(postEdit[e].published, posts[p].published)
  OBVIOUS
<1>2. /\ postEdit[e].at = "writing" /\ p \in DOMAIN posts
      /\ posts' = [posts EXCEPT ![p] = [posts[p] EXCEPT !.tr = tr, !.published = flag]]
  <2>1. posts' = [posts EXCEPT ![p].tr = Put(@, l, new), ![p].published = Flag(postEdit[e].published, @)]
    BY DEF WritePost
  <2>2. posts[p] \in PostRow /\ p \in DOMAIN posts /\ postEdit[e].at = "writing"
    BY DEF WritePost, PostsIInv, PostTablesOK
  <2>3. posts' = [posts EXCEPT ![p] = [posts[p] EXCEPT !.tr = Put(posts[p].tr, l, new),
                                          !.published = Flag(postEdit[e].published, posts[p].published)]]
    BY <2>1, <2>2 DEF PostRow
  <2> QED
    BY <1>1, <2>2, <2>3
<1>3. PostTablesOK /\ postEdit[e] \in PostEditType /\ PostEditOK(postEdit[e]) /\ posts[p] \in PostRow
  BY <1>2 DEF PostsIInv, PostTablesOK
<1>4. l \in Langs /\ new \in TranslationType
  BY <1>2, <1>3 DEF PostEditOK, PostEditType, TranslationType
<1>5. tr \in Translations /\ flag \in BOOLEAN
  <2>1. tr \in Translations
    BY <1>1, <1>3, <1>4, PutTranslation DEF PostRow
  <2>2. flag \in BOOLEAN
    BY <1>1, <1>3 DEF Flag, PostRow, PostEditType
  <2> QED
    BY <2>1, <2>2
<1>6. /\ DOMAIN tr = DOMAIN posts[p].tr \cup {l} /\ tr[l] = new
      /\ \A k \in DOMAIN posts[p].tr \ {l} : tr[k] = posts[p].tr[k]
  BY <1>1 DEF Put
<1>7. /\ [posts[p] EXCEPT !.tr = tr, !.published = flag] \in PostRow
      /\ [posts[p] EXCEPT !.tr = tr, !.published = flag].tr = tr
  BY <1>3, <1>5 DEF PostRow
<1>8. PICK row : row = [posts[p] EXCEPT !.tr = tr, !.published = flag]
  OBVIOUS
<1>9. /\ DOMAIN posts' = DOMAIN posts /\ posts' = [q \in DOMAIN posts |-> posts'[q]]
      /\ \A q \in DOMAIN posts \ {p} : posts'[q] = posts[q]
      /\ posts'[p] = row
  BY <1>2, <1>8
<1>10. posts'[p].tr = tr /\ posts'[p] \in PostRow
  BY <1>7, <1>8, <1>9
<1>11. /\ DOMAIN posts'[p].tr = DOMAIN posts[p].tr \cup {l} /\ posts'[p].tr[l] = new
       /\ \A k \in DOMAIN posts[p].tr \ {l} : posts'[p].tr[k] = posts[p].tr[k]
  BY <1>6, <1>10
<1> QED
  BY <1>2, <1>9, <1>10, <1>11

LEMMA WritePostPreserves ==
  ASSUME PostsIInv, NEW e \in PostEditors, WritePost(e)
  PROVE  PostsIInv'
<1>1. PICK p, l, new :
        /\ p = postEdit[e].id /\ l = postEdit[e].lang
        /\ new = [slug |-> postEdit[e].slug, text |-> postEdit[e].text]
  OBVIOUS
<1>2. /\ p \in DOMAIN posts /\ DOMAIN posts' = DOMAIN posts
      /\ posts' = [q \in DOMAIN posts |-> posts'[q]]
      /\ \A q \in DOMAIN posts \ {p} : posts'[q] = posts[q]
      /\ posts'[p] \in PostRow
  BY <1>1, WritePostWrites
<1>3. /\ DOMAIN postHeld' = DOMAIN postHeld
      /\ postEdit' = [postEdit EXCEPT ![e] = NoPostEdit]
      /\ UNCHANGED <<postVersions, nextPost, nextPostText>>
  BY DEF WritePost
<1>4. PostTablesOK /\ postEdit \in [PostEditors -> PostEditType]
  BY DEF PostsIInv
<1>5. PostTablesOK'
  <2>1. \A q \in DOMAIN posts : posts'[q] \in PostRow
    BY <1>2, <1>4 DEF PostTablesOK
  <2> QED
    BY <1>2, <1>3, <1>4, <2>1 DEF PostTablesOK
<1>6. ASSUME NEW f \in PostEditors PROVE PostEditOK(postEdit[f])' /\ PostEditorKnows(f)'
  <2>1. CASE f = e
    BY <1>3, <1>4, <2>1, IdlePostEdit DEF PostEditOK, PostEditorKnows
  <2>2. CASE f # e
    <3>1. PostEditOK(postEdit[f]) /\ PostEditorKnows(f) /\ postEdit'[f] = postEdit[f]
      BY <1>3, <1>4, <2>2 DEF PostsIInv
    <3> QED
      BY <1>2, <1>3, <3>1 DEF PostEditOK, PostEditorKnows, VersionsThere
  <2> QED
    BY <2>1, <2>2
<1>7. postEdit' \in [PostEditors -> PostEditType]
  BY <1>3, <1>4, IdlePostEdit
<1> QED
  BY <1>5, <1>6, <1>7 DEF PostsIInv

(* Rows whose flags alone change, and rows that go.                        *)
LEMMA FlagPostsPreserves ==
  ASSUME PostsIInv, posts' = [p \in DOMAIN posts |-> posts'[p]],
         \A p \in DOMAIN posts : posts'[p] \in PostRow,
         UNCHANGED <<postVersions, nextPost, nextPostText, postHeld, postEdit>>
  PROVE  PostsIInv'
<1>1. PostTablesOK /\ DOMAIN posts' = DOMAIN posts
  BY DEF PostsIInv
<1>2. PostTablesOK'
  BY <1>1 DEF PostTablesOK
<1>3. ASSUME NEW e \in PostEditors PROVE PostEditOK(postEdit[e])' /\ PostEditorKnows(e)'
  BY <1>1 DEF PostsIInv, PostEditOK, PostEditorKnows, VersionsThere
<1> QED
  BY <1>2, <1>3 DEF PostsIInv

LEMMA FlagsOfPosts ==
  ASSUME PostsIInv, NEW ids, NEW b \in BOOLEAN, TrashPosts(ids, b) \/ PublishPosts(ids, b)
  PROVE  /\ posts' = [p \in DOMAIN posts |-> posts'[p]]
         /\ \A p \in DOMAIN posts : posts'[p] \in PostRow /\ posts'[p].tr = posts[p].tr
<1>1. \A p \in DOMAIN posts : posts[p] \in PostRow
  BY DEF PostsIInv, PostTablesOK
<1>2. CASE TrashPosts(ids, b)
  <2>1. /\ posts' = [p \in DOMAIN posts |-> posts'[p]]
        /\ \A p \in DOMAIN posts :
             posts'[p] = IF p \in ids THEN [posts[p] EXCEPT !.trashed = b] ELSE posts[p]
    BY <1>2 DEF TrashPosts
  <2> QED
    BY <1>1, <2>1 DEF PostRow
<1>3. CASE PublishPosts(ids, b)
  <2>1. /\ posts' = [p \in DOMAIN posts |-> posts'[p]]
        /\ \A p \in DOMAIN posts :
             posts'[p] = IF p \in ids THEN [posts[p] EXCEPT !.published = b] ELSE posts[p]
    BY <1>3 DEF PublishPosts
  <2> QED
    BY <1>1, <2>1 DEF PostRow
<1> QED
  BY <1>2, <1>3

LEMMA DeletePostsPreserves ==
  ASSUME PostsIInv, NEW ids, DeletePosts(ids)
  PROVE  PostsIInv'
<1> DEFINE left == DOMAIN posts \ ids
<1>1. PostTablesOK
  BY DEF PostsIInv
<1>2. /\ DOMAIN posts' = left /\ DOMAIN postVersions' = left /\ DOMAIN postHeld' = left
      /\ posts' = [p \in left |-> posts'[p]]
      /\ \A p \in left : posts'[p] = posts[p] /\ postVersions'[p] = postVersions[p]
      /\ UNCHANGED <<nextPost, nextPostText, postEdit>>
  BY <1>1 DEF DeletePosts, Only, PostTablesOK
<1>3. PostTablesOK'
  BY <1>1, <1>2 DEF PostTablesOK
<1>4. ASSUME NEW e \in PostEditors PROVE PostEditOK(postEdit[e])' /\ PostEditorKnows(e)'
  BY <1>2 DEF PostsIInv, PostEditOK, PostEditorKnows, VersionsThere
<1> QED
  BY <1>2, <1>3, <1>4 DEF PostsIInv

LEMMA PostsKept ==
  ASSUME PostsIInv, [PostsNext]_postVars
  PROVE  PostsIInv'
<1>1. ASSUME NEW e \in PostEditors, PostRoutes(e) PROVE PostsIInv'
  <2>1. CASE \E p \in DOMAIN posts, dto \in UpdatePostAggregateDto : StartUpdatePost(e, p, dto)
    BY <2>1, StartUpdatePostPreserves
  <2>2. CASE CheckPost(e)
    BY <2>2, CheckPostPreserves
  <2>3. CASE ReadPost(e)
    BY <2>3, ReadPostPreserves
  <2>4. CASE WritePost(e)
    BY <2>4, WritePostPreserves
  <2>5. CASE UpdatePostFails(e)
    BY <2>5, EndPostPreserves DEF UpdatePostFails, postTables
  <2>6. CASE \E p \in DOMAIN posts : \E v \in postVersions[p] : RestorePostVersion(e, p, v)
    BY <2>6, RestorePostVersionPreserves
  <2> QED
    BY <1>1, <2>1, <2>2, <2>3, <2>4, <2>5, <2>6 DEF PostRoutes
<1>2. ASSUME NEW ids, NEW b \in BOOLEAN, TrashPosts(ids, b) \/ PublishPosts(ids, b) PROVE PostsIInv'
  <2>1. /\ posts' = [p \in DOMAIN posts |-> posts'[p]]
        /\ \A p \in DOMAIN posts : posts'[p] \in PostRow
    BY <1>2, FlagsOfPosts
  <2>2. UNCHANGED <<postVersions, nextPost, nextPostText, postHeld, postEdit>>
    BY <1>2 DEF TrashPosts, PublishPosts
  <2> QED
    BY <2>1, <2>2, FlagPostsPreserves
<1>3. CASE PostBulkRoutes
  <2>1. ASSUME NEW dto \in CreatePostAggregateDto, CreatePost(dto.translations, dto.type, dto.published)
        PROVE  PostsIInv'
    BY <2>1, CreatePostPreserves DEF CreatePostAggregateDto
  <2>2. CASE \E p \in DOMAIN posts : PostRowRoutes(p)
    BY <1>2, <2>2, DeletePostsPreserves DEF PostRowRoutes
  <2>3. CASE \E ids \in (SUBSET DOMAIN posts) \ {{}} :
               DeletePosts(ids) \/ \E b \in BOOLEAN : TrashPosts(ids, b) \/ PublishPosts(ids, b)
    BY <1>2, <2>3, DeletePostsPreserves
  <2> QED
    BY <1>3, <2>1, <2>2, <2>3 DEF PostBulkRoutes, PostBulkAction
<1>4. CASE UNCHANGED postVars
  BY <1>4 DEF postVars, postTables, PostsIInv, PostTablesOK, PostEditOK, PostEditorKnows, VersionsThere
<1> QED
  BY <1>1, <1>3, <1>4 DEF PostsNext

(* Steps that take no slug and no text from a post.                        *)
NothingLost(p) ==
  /\ \A l \in DOMAIN posts[p].tr : l \in DOMAIN posts'[p].tr /\ posts'[p].tr[l] = posts[p].tr[l]
  /\ \A s \in DOMAIN postAliases :
       postAliases[s].post = p => s \in DOMAIN postAliases' /\ postAliases'[s] = postAliases[s]

LEMMA PostSteps ==
  ASSUME PostsIInv, [PostsNext]_postVars, NEW p \in DOMAIN posts \cap DOMAIN posts'
  PROVE  (\E e \in PostEditors : WritePost(e)) \/ NothingLost(p)
<1>1. ASSUME UNCHANGED <<posts, postAliases>> PROVE NothingLost(p)
  BY <1>1 DEF NothingLost
<1>2. ASSUME NEW e \in PostEditors, PostRoutes(e), ~WritePost(e) PROVE NothingLost(p)
  <2>1. UNCHANGED <<posts, postAliases>>
    <3>1. CASE \E q \in DOMAIN posts, dto \in UpdatePostAggregateDto : StartUpdatePost(e, q, dto)
      BY <3>1 DEF StartUpdatePost
    <3>2. CASE CheckPost(e) \/ ReadPost(e) \/ UpdatePostFails(e)
      BY <3>2 DEF CheckPost, ReadPost, UpdatePostFails, postTables
    <3>3. CASE \E q \in DOMAIN posts : \E v \in postVersions[q] : RestorePostVersion(e, q, v)
      BY <3>3 DEF RestorePostVersion, postTables
    <3> QED
      BY <1>2, <3>1, <3>2, <3>3 DEF PostRoutes
  <2> QED
    BY <1>1, <2>1
<1>3. ASSUME NEW ids, NEW b \in BOOLEAN, TrashPosts(ids, b) \/ PublishPosts(ids, b)
      PROVE  NothingLost(p)
  <2>1. posts'[p].tr = posts[p].tr
    BY <1>3, FlagsOfPosts
  <2>2. postAliases' = postAliases
    BY <1>3 DEF TrashPosts, PublishPosts
  <2> QED
    BY <2>1, <2>2 DEF NothingLost
<1>4. ASSUME NEW ids, DeletePosts(ids) PROVE NothingLost(p)
  BY <1>4 DEF DeletePosts, Only, NothingLost
<1>5. ASSUME NEW tr, NEW t, NEW b, CreatePost(tr, t, b) PROVE NothingLost(p)
  <2>1. nextPost \notin DOMAIN posts
    BY DEF PostsIInv, PostTablesOK
  <2>2. postAliases' = postAliases /\ posts'[p] = posts[p]
    BY <1>5, <2>1 DEF CreatePost, Put
  <2> QED
    BY <2>2 DEF NothingLost
<1>6. CASE PostBulkRoutes
  BY <1>3, <1>4, <1>5, <1>6 DEF PostBulkRoutes, PostBulkAction, PostRowRoutes
<1>7. CASE UNCHANGED postVars
  BY <1>1, <1>7 DEF postVars, postTables
<1> QED
  BY <1>2, <1>6, <1>7 DEF PostsNext

(* A post keeps every slug that it had, as its own or as an alias, and     *)
(* every text that is replaced in a version, unless an update overwrites   *)
(* it that has not seen it: the alias and the versions are decided by a    *)
(* read before the transaction (PrismaPostAggregateRepository.update).     *)
THEOREM PostsLoseByCrossing == PostsSpec => PostLosesByCrossingOnly
<1> DEFINE Crossed(p) ==
      SlugLost(p) \/ TextLost(p) =>
        \E e \in PostEditors : /\ postEdit[e].at = "writing" /\ postEdit'[e].at = "idle"
                               /\ postEdit[e].seen # posts[p].tr
<1>1. ASSUME PostsIInv, [PostsNext]_postVars, NEW p \in DOMAIN posts \cap DOMAIN posts'
      PROVE  Crossed(p)
  <2>1. ASSUME NothingLost(p) PROVE ~SlugLost(p) /\ ~TextLost(p)
    <3>1. ASSUME NEW h, Kept(p, h) PROVE Kept(p, h)'
      <4>1. CASE h.lang \in DOMAIN posts[p].tr /\ posts[p].tr[h.lang].slug = h.slug
        BY <2>1, <4>1 DEF NothingLost, Kept
      <4>2. CASE h.slug \in DOMAIN postAliases /\ postAliases[h.slug] = [post |-> p, lang |-> h.lang]
        <5>1. postAliases[h.slug].post = p
          BY <4>2
        <5>2. h.slug \in DOMAIN postAliases' /\ postAliases'[h.slug] = postAliases[h.slug]
          BY <2>1, <4>2, <5>1 DEF NothingLost
        <5> QED
          BY <4>2, <5>2 DEF Kept
      <4> QED
        BY <3>1, <4>1, <4>2 DEF Kept
    <3>2. ~SlugLost(p)
      BY <3>1 DEF SlugLost
    <3>3. ~TextLost(p)
      BY <2>1 DEF NothingLost, TextLost
    <3> QED
      BY <3>2, <3>3
  <2>2. ASSUME NEW e \in PostEditors, WritePost(e), ~NothingLost(p) PROVE Crossed(p)
    <3>1. PICK l, new :
            l = postEdit[e].lang /\ new = [slug |-> postEdit[e].slug, text |-> postEdit[e].text]
      OBVIOUS
    <3>2. /\ postEdit[e].at = "writing" /\ postEdit[e].id \in DOMAIN posts
          /\ \A q \in DOMAIN posts \ {postEdit[e].id} : posts'[q] = posts[q]
          /\ p = postEdit[e].id =>
               /\ DOMAIN posts'[p].tr = DOMAIN posts[p].tr \cup {l} /\ posts'[p].tr[l] = new
               /\ \A k \in DOMAIN posts[p].tr \ {l} : posts'[p].tr[k] = posts[p].tr[k]
      BY <1>1, <2>2, <3>1, WritePostWrites
    <3>3. postEdit'[e].at = "idle"
      BY <1>1, <2>2, IdlePostEdit DEF WritePost, PostsIInv
    <3>4. \A s \in DOMAIN postAliases : s \in DOMAIN postAliases' /\ postAliases'[s] = postAliases[s]
      BY <2>2 DEF WritePost, PostIndexAllows, PostAliasKept, Put
    <3>5. p = postEdit[e].id
      BY <1>1, <2>2, <3>2, <3>4 DEF NothingLost
    <3>6. CASE postEdit[e].seen # posts[p].tr
      BY <3>2, <3>3, <3>6
    <3>7. CASE postEdit[e].seen = posts[p].tr
      <4>1. ~SlugLost(p)
        <5>1. SUFFICES ASSUME NEW h \in postHeld[p], Kept(p, h) PROVE Kept(p, h)'
          BY DEF SlugLost
        <5>2. CASE h.slug \in DOMAIN postAliases /\ postAliases[h.slug] = [post |-> p, lang |-> h.lang]
          BY <3>4, <5>2 DEF Kept
        <5>3. CASE h.lang \in DOMAIN posts[p].tr /\ posts[p].tr[h.lang].slug = h.slug
          <6>1. CASE h.lang # l
            BY <3>2, <3>5, <5>3, <6>1 DEF Kept
          <6>2. CASE h.lang = l /\ new.slug = h.slug
            BY <3>2, <3>5, <5>3, <6>2 DEF Kept
          <6>3. CASE h.lang = l /\ new.slug # h.slug
            <7>1. SeenGivesUp(e) /\ postEdit[e].seen[postEdit[e].lang].slug = h.slug
              BY <3>1, <3>7, <5>3, <6>3 DEF SeenGivesUp
            <7>2. postAliases' = Put(postAliases, h.slug, [post |-> p, lang |-> l])
              BY <2>2, <3>1, <3>5, <7>1 DEF WritePost, PostAliasKept
            <7> QED
              BY <6>3, <7>2 DEF Kept, Put
          <6> QED
            BY <6>1, <6>2, <6>3
        <5> QED
          BY <5>1, <5>2, <5>3 DEF Kept
      <4>2. ~TextLost(p)
        <5>1. ASSUME NEW k \in DOMAIN posts[p].tr
              PROVE  [lang |-> k, tr |-> posts[p].tr[k]] \in postVersions[p]
          BY <1>1, <3>2, <3>5, <3>7 DEF PostsIInv, PostEditorKnows, VersionsThere
        <5> QED
          BY <5>1 DEF TextLost
      <4> QED
        BY <4>1, <4>2
    <3> QED
      BY <3>6, <3>7
  <2> QED
    BY <1>1, <2>1, <2>2, PostSteps
<1>2. ASSUME PostsIInv, [PostsNext]_postVars
      PROVE  [\A p \in DOMAIN posts \cap DOMAIN posts' : Crossed(p)]_postVars
  BY <1>1, <1>2
<1> QED
  BY <1>2, PostsStart, PostsKept, PTL DEF PostsSpec, PostLosesByCrossingOnly

(***************************************************************************)
(* The public site.                                                        *)
(***************************************************************************)
PathType == [lang : Langs \cup {None}, page : Slugs \cup {None}, post : Slugs \cup {None}]

(* While the tables stay every address has the same answer.                *)
LEMMA AnswerStays ==
  ASSUME pages' = pages, posts' = posts, NEW path
  PROVE  Bundle(path)' = Bundle(path)
<1>1. OpenPages' = OpenPages /\ OpenPosts' = OpenPosts
  BY DEF OpenPages, OpenPosts
<1>2. ASSUME NEW s, NEW l
      PROVE  /\ FindPageTranslation(s, l)' = FindPageTranslation(s, l)
             /\ FindPostTranslation(s, l)' = FindPostTranslation(s, l)
             /\ OtherPages(s, l)' = OtherPages(s, l)
             /\ OtherPosts(s, l)' = OtherPosts(s, l)
  BY <1>1 DEF FindPageTranslation, FindPostTranslation, OtherPages, OtherPosts
<1>3. ASSUME NEW t, NEW l
      PROVE  /\ SectionPage(t)' = SectionPage(t) /\ SectionSlug(t, l)' = SectionSlug(t, l)
  <2>1. MadeFor(t)' = MadeFor(t) /\ MadeLike(t)' = MadeLike(t)
    BY <1>1 DEF MadeFor, MadeLike
  <2>2. SectionPage(t)' = SectionPage(t)
    BY <2>1 DEF SectionPage
  <2> QED
    BY <2>2 DEF SectionSlug
<1>4. ASSUME NEW t, NEW l, NEW s PROVE FindSectionPage(l, t, s)' = FindSectionPage(l, t, s)
  <2>1. AskedSectionPage(l, t, s)' = AskedSectionPage(l, t, s)
    BY <1>2 DEF AskedSectionPage
  <2>2. AnySectionPage(l, t)' = AnySectionPage(l, t)
    BY <1>1 DEF AnySectionPage
  <2> QED
    BY <2>1, <2>2 DEF FindSectionPage
<1>5. ASSUME NEW t, NEW l, NEW s PROVE CanonicalSection(l, t, s)' = CanonicalSection(l, t, s)
  BY <1>3, <1>4 DEF CanonicalSection
<1>6. PageBundle(path)' = PageBundle(path) /\ PostBundle(path)' = PostBundle(path)
  BY <1>2 DEF PageBundle, PostBundle
<1>7. ASSUME NEW p PROVE ExactPostBundle(path, p)' = ExactPostBundle(path, p)
  BY <1>2, <1>4, <1>5 DEF ExactPostBundle
<1>8. PagePostBundle(path)' = PagePostBundle(path)
  BY <1>2, <1>3, <1>7 DEF PagePostBundle
<1> QED
  BY <1>6, <1>8 DEF Bundle

(* The rows that the site picks are among those that it picks from.        *)
LEMMA AnyIn ==
  ASSUME NEW S, S # {}
  PROVE  AnyOf(S) \in S
BY DEF AnyOf

LEMMA FirstIn ==
  ASSUME NEW S \in SUBSET Nat, S # {}
  PROVE  FirstOf(S) \in S /\ \A n \in S : FirstOf(S) <= n
<1> DEFINE R == OpToRel(<, Nat)
<1>1. IsWellFoundedOn(R, Nat)
  BY NatLessThanWellFounded
<1>2. \A x, y \in Nat : y < x => <<y, x>> \in R
  BY DEF OpToRel
<1> HIDE DEF R
<1>3. PICK m \in S : \A n \in S : ~(<<n, m>> \in R)
  BY <1>1, WFMin
<1>4. \A n \in S : m <= n
  <2> TAKE n \in S
  <2>1. m \in Nat /\ n \in Nat /\ ~(<<n, m>> \in R)
    BY <1>3
  <2>2. ~(n < m)
    BY <1>2, <2>1
  <2> QED
    BY <2>1, <2>2
<1> QED
  BY <1>4 DEF FirstOf

LEMMA LastIn ==
  ASSUME NEW last \in Nat, NEW S \in SUBSET (1 .. last), S # {}
  PROVE  LastOf(S) \in S
<1> DEFINE down == {last - n : n \in S}
<1>1. down \in SUBSET Nat /\ down # {}
  OBVIOUS
<1>2. PICK m : m \in down /\ \A n \in down : m <= n
  BY <1>1, FirstIn
<1>3. PICK x \in S : m = last - x
  BY <1>2
<1>4. \A y \in S : y <= x
  <2> TAKE y \in S
  <2>1. last - y \in down
    OBVIOUS
  <2>2. last - x <= last - y
    BY <1>2, <1>3, <2>1
  <2> QED
    BY <2>2
<1> QED
  BY <1>4 DEF LastOf

LEMMA PageRows ==
  ASSUME PagesIInv, NEW p \in DOMAIN pages
  PROVE  /\ pages[p].tr \in Translations /\ DOMAIN pages[p].tr \subseteq Langs
         /\ \A l \in DOMAIN pages[p].tr : pages[p].tr[l].slug \in Slugs
<1>1. pages[p].tr \in Translations
  BY DEF PagesIInv, PageTablesOK, PageType
<1> QED
  BY <1>1, TranslationsOf DEF TranslationType

LEMMA PostRows ==
  ASSUME PostsIInv, NEW p \in DOMAIN posts
  PROVE  /\ posts[p].tr \in Translations /\ DOMAIN posts[p].tr \subseteq Langs
         /\ \A l \in DOMAIN posts[p].tr : posts[p].tr[l].slug \in Slugs
<1>1. posts[p].tr \in Translations
  BY DEF PostsIInv, PostTablesOK, PostRow
<1> QED
  BY <1>1, TranslationsOf DEF TranslationType

LEMMA SectionOpen ==
  ASSUME PagesIInv, NEW t
  PROVE  SectionPage(t) \subseteq OpenPages
<1>1. nextPage - 1 \in Nat /\ OpenPages \subseteq 1 .. nextPage - 1
  BY DEF PagesIInv, PageTablesOK, OpenPages
<1>2. MadeFor(t) \subseteq OpenPages /\ MadeLike(t) \subseteq OpenPages
  BY DEF MadeFor, MadeLike
<1>3. MadeFor(t) # {} => LastOf(MadeFor(t)) \in MadeFor(t)
  BY <1>1, <1>2, LastIn
<1>4. MadeLike(t) # {} => FirstOf(MadeLike(t)) \in MadeLike(t)
  <2>0. \A p \in OpenPages : p \in Nat
    BY <1>1
  <2>1. \A p \in MadeLike(t) : p \in Nat
    BY <1>2, <2>0
  <2>2. MadeLike(t) \in SUBSET Nat
    BY <2>1
  <2> QED
    BY <2>2, FirstIn
<1> QED
  BY <1>2, <1>3, <1>4 DEF SectionPage

LEMMA SectionFound ==
  ASSUME PagesIInv, NEW l, NEW t, NEW s
  PROVE  FindSectionPage(l, t, s) \subseteq {p \in OpenPages : l \in DOMAIN pages[p].tr}
<1>1. nextPage - 1 \in Nat /\ OpenPages \subseteq 1 .. nextPage - 1
  BY DEF PagesIInv, PageTablesOK, OpenPages
<1>2. AnySectionPage(l, t) \subseteq {p \in OpenPages : l \in DOMAIN pages[p].tr}
  BY DEF AnySectionPage
<1>3. AskedSectionPage(l, t, s) \subseteq {p \in OpenPages : l \in DOMAIN pages[p].tr}
  BY DEF AskedSectionPage, FindPageTranslation, HasSlug
<1>4. AnySectionPage(l, t) # {} => FirstOf(AnySectionPage(l, t)) \in AnySectionPage(l, t)
  <2>0. \A p \in OpenPages : p \in Nat
    BY <1>1
  <2>1. \A p \in AnySectionPage(l, t) : p \in Nat
    BY <1>2, <2>0
  <2>2. AnySectionPage(l, t) \in SUBSET Nat
    BY <2>1
  <2> QED
    BY <2>2, FirstIn
<1> QED
  BY <1>2, <1>3, <1>4 DEF FindSectionPage

(* The slugs of a section are slugs, and one that is redirected to is the  *)
(* section's own.                                                          *)
LEMMA SectionSlugs ==
  ASSUME PagesIInv, NEW l, NEW t, NEW s
  PROVE  SectionSlug(t, l) \subseteq Slugs /\ CanonicalSection(l, t, s) \subseteq Slugs
<1>1. \A p \in OpenPages : p \in DOMAIN pages
  BY DEF OpenPages
<1>2. SectionSlug(t, l) \subseteq Slugs
  BY <1>1, SectionOpen, PageRows DEF SectionSlug
<1>3. {pages[p].tr[l].slug : p \in FindSectionPage(l, t, s)} \subseteq Slugs
  BY <1>1, SectionFound, PageRows
<1> QED
  BY <1>2, <1>3 DEF CanonicalSection

LEMMA SectionSettles ==
  ASSUME PagesIInv, NEW l, NEW t, NEW s, NEW x \in CanonicalSection(l, t, s),
         s \notin CanonicalSection(l, t, s)
  PROVE  x \in CanonicalSection(l, t, x)
<1>1. CASE SectionPage(t) # {} /\ SectionSlug(t, l) # {}
  BY <1>1 DEF CanonicalSection
<1>2. CASE ~(SectionPage(t) # {} /\ SectionSlug(t, l) # {})
  <2>1. PICK p \in FindSectionPage(l, t, s) : x = pages[p].tr[l].slug
    BY <1>2 DEF CanonicalSection
  <2>2. p \in OpenPages /\ l \in DOMAIN pages[p].tr
    BY SectionFound
  <2>3. AskedSectionPage(l, t, s) = {}
    <3>1. ASSUME NEW q \in AskedSectionPage(l, t, s) PROVE FALSE
      <4>1. pages[q].tr[l].slug = s /\ q \in FindSectionPage(l, t, s)
        BY <3>1 DEF AskedSectionPage, FindPageTranslation, HasSlug, FindSectionPage
      <4> QED
        BY <1>2, <4>1 DEF CanonicalSection
    <3> QED
      BY <3>1
  <2>4. FindSectionPage(l, t, s) = {FirstOf(AnySectionPage(l, t))} /\ AnySectionPage(l, t) # {}
    BY <2>1, <2>3 DEF FindSectionPage
  <2>5. CASE AskedSectionPage(l, t, x) = {}
    BY <1>2, <2>1, <2>4, <2>5 DEF CanonicalSection, FindSectionPage
  <2>6. ASSUME NEW q \in AskedSectionPage(l, t, x) PROVE x \in CanonicalSection(l, t, x)
    <3>1. pages[q].tr[l].slug = x /\ q \in FindSectionPage(l, t, x)
      BY <2>6 DEF AskedSectionPage, FindPageTranslation, HasSlug, FindSectionPage
    <3> QED
      BY <1>2, <3>1 DEF CanonicalSection
  <2> QED
    BY <2>5, <2>6
<1> QED
  BY <1>1, <1>2

(* An address that sends on sends to one that answers for good, but for    *)
(* that of a post in another language: the section comes after.            *)
Quiet(path) == Bundle(path).to = Nowhere
OneLeft(path) == Bundle(path).to # Nowhere => Quiet(Bundle(path).to)

LEMMA PageSettles ==
  ASSUME PagesIInv, NEW path \in PathType, path.lang \in Langs, path.post = None,
         Bundle(path).to # Nowhere
  PROVE  Bundle(path).to \in PathType /\ Quiet(Bundle(path).to)
<1>1. Bundle(path) = PageBundle(path)
  BY DEF Bundle
<1>2. PICK q : q = AnyOf(OtherPages(path.page, path.lang))
  OBVIOUS
<1>3. PICK next : next = [path EXCEPT !.page = CorrectSlug(pages[q], path.lang)]
  OBVIOUS
<1>4. OtherPages(path.page, path.lang) # {} /\ Bundle(path).to = next
  BY <1>1, <1>2, <1>3 DEF PageBundle, Show, Redirect, NotFound
<1>5. q \in OpenPages /\ path.lang \in DOMAIN pages[q].tr
  BY <1>2, <1>4, AnyIn DEF OtherPages
<1>6. pages[q].tr[path.lang].slug \in Slugs
  BY <1>5, PageRows DEF OpenPages
<1>7. /\ next \in PathType /\ next.lang = path.lang /\ next.post = None
      /\ next.page = pages[q].tr[path.lang].slug
  BY <1>3, <1>6 DEF PathType, CorrectSlug
<1>8. q \in FindPageTranslation(next.page, next.lang)
  BY <1>5, <1>7 DEF FindPageTranslation, HasSlug
<1>9. PageBundle(next).to = Nowhere
  BY <1>8 DEF PageBundle, Show
<1> QED
  BY <1>4, <1>7, <1>9 DEF Quiet, Bundle

LEMMA PostSettles ==
  ASSUME PostsIInv, NEW path \in PathType, path.lang \in Langs, path.post # None,
         path.page = None, Bundle(path).to # Nowhere
  PROVE  Bundle(path).to \in PathType /\ Quiet(Bundle(path).to)
<1>1. Bundle(path) = PostBundle(path)
  BY DEF Bundle
<1>2. PICK q : q = AnyOf(OtherPosts(path.post, path.lang))
  OBVIOUS
<1>3. PICK next : next = [path EXCEPT !.post = CorrectSlug(posts[q], path.lang)]
  OBVIOUS
<1>4. OtherPosts(path.post, path.lang) # {} /\ Bundle(path).to = next
  BY <1>1, <1>2, <1>3 DEF PostBundle, Show, Redirect, NotFound
<1>5. q \in OpenPosts /\ path.lang \in DOMAIN posts[q].tr
  BY <1>2, <1>4, AnyIn DEF OtherPosts
<1>6. posts[q].tr[path.lang].slug \in Slugs
  BY <1>5, PostRows DEF OpenPosts
<1>7. /\ next \in PathType /\ next.lang = path.lang /\ next.page = None
      /\ next.post = posts[q].tr[path.lang].slug
  BY <1>3, <1>6 DEF PathType, CorrectSlug
<1>8. q \in FindPostTranslation(next.post, next.lang)
  BY <1>5, <1>7 DEF FindPostTranslation, HasSlug
<1>9. PostBundle(next).to = Nowhere
  BY <1>8 DEF PostBundle, Show
<1>10. next.post # None
  BY <1>6, <1>7, PageBounds
<1> QED
  BY <1>4, <1>7, <1>9, <1>10 DEF Quiet, Bundle

(* A post that is found under another page than that of its section.       *)
LEMMA SectionOfPostSettles ==
  ASSUME PagesIInv, PostsIInv, NEW path \in PathType, path.lang \in Langs,
         path.post # None, path.page # None,
         FindPostTranslation(path.post, path.lang) # {}, Bundle(path).to # Nowhere
  PROVE  Bundle(path).to \in PathType /\ Quiet(Bundle(path).to)
<1>1. PICK p : p = AnyOf(FindPostTranslation(path.post, path.lang))
  OBVIOUS
<1>2. PICK t : t = posts[p].type
  OBVIOUS
<1>3. PICK l : l = path.lang
  OBVIOUS
<1>4. Bundle(path) = ExactPostBundle(path, p)
  BY <1>1 DEF Bundle, PagePostBundle
<1>5. PICK x : x = AnyOf(CanonicalSection(l, t, path.page))
  OBVIOUS
<1>6. PICK next : next = [path EXCEPT !.page = x]
  OBVIOUS
<1>7. /\ CanonicalSection(l, t, path.page) # {} /\ path.page \notin CanonicalSection(l, t, path.page)
      /\ Bundle(path).to = next
  BY <1>2, <1>3, <1>4, <1>5, <1>6 DEF ExactPostBundle, Show, Redirect, NotFound
<1>8. x \in CanonicalSection(l, t, path.page)
  BY <1>5, <1>7, AnyIn
<1>9. x \in Slugs /\ x # None
  BY <1>8, SectionSlugs, PageBounds
<1>10. /\ next \in PathType /\ next.lang = l /\ next.post = path.post /\ next.page = x
  BY <1>3, <1>6, <1>9 DEF PathType
<1>11. x \in CanonicalSection(l, t, x)
  BY <1>7, <1>8, SectionSettles
<1>12. Bundle(next) = ExactPostBundle(next, p)
  BY <1>1, <1>3, <1>9, <1>10 DEF Bundle, PagePostBundle
<1>13. ExactPostBundle(next, p).to = Nowhere
  BY <1>2, <1>10, <1>11 DEF ExactPostBundle, Show, NotFound
<1> QED
  BY <1>7, <1>10, <1>12, <1>13 DEF Quiet

(* A post that is asked for by its slug in another language.               *)
LEMMA OtherPostSettles ==
  ASSUME PagesIInv, PostsIInv, NEW path \in PathType, path.lang \in Langs,
         path.post # None, path.page # None,
         FindPostTranslation(path.post, path.lang) = {}, Bundle(path).to # Nowhere
  PROVE  Bundle(path).to \in PathType /\ OneLeft(Bundle(path).to)
<1>1. PICK q : q = AnyOf(OtherPosts(path.post, path.lang))
  OBVIOUS
<1>2. PICK section : section = SectionSlug(posts[q].type, path.lang)
  OBVIOUS
<1>3. PICK page : page = IF section = {} THEN path.page ELSE AnyOf(section)
  OBVIOUS
<1>4. PICK next : next = [path EXCEPT !.post = CorrectSlug(posts[q], path.lang), !.page = page]
  OBVIOUS
<1>5. OtherPosts(path.post, path.lang) # {} /\ Bundle(path).to = next
  BY <1>1, <1>2, <1>3, <1>4 DEF Bundle, PagePostBundle, Redirect, NotFound
<1>6. q \in OpenPosts /\ path.lang \in DOMAIN posts[q].tr
  BY <1>1, <1>5, AnyIn DEF OtherPosts
<1>7. posts[q].tr[path.lang].slug \in Slugs
  BY <1>6, PostRows DEF OpenPosts
<1>8. page \in Slugs
  <2>1. section \subseteq Slugs
    BY <1>2, SectionSlugs
  <2>2. section # {} => AnyOf(section) \in section
    BY AnyIn
  <2>3. path.page \in Slugs
    BY DEF PathType
  <2> QED
    BY <1>3, <2>1, <2>2, <2>3
<1>9. /\ next \in PathType /\ next.lang = path.lang /\ next.page = page
      /\ next.post = posts[q].tr[path.lang].slug
  BY <1>4, <1>7, <1>8 DEF PathType, CorrectSlug
<1>10. q \in FindPostTranslation(next.post, next.lang)
  BY <1>6, <1>9 DEF FindPostTranslation, HasSlug
<1>11. next.post # None /\ next.page # None
  BY <1>7, <1>8, <1>9, PageBounds
<1>12. FindPostTranslation(next.post, next.lang) # {} /\ next.lang \in Langs
  BY <1>9, <1>10
<1>13. Bundle(next).to # Nowhere => Quiet(Bundle(next).to)
  BY <1>9, <1>11, <1>12, SectionOfPostSettles
<1> QED
  BY <1>5, <1>9, <1>13 DEF OneLeft

LEMMA AnswersSettle ==
  ASSUME PagesIInv, PostsIInv, NEW path \in PathType, Bundle(path).to # Nowhere
  PROVE  Bundle(path).to \in PathType /\ OneLeft(Bundle(path).to)
<1>1. path.lang \in Langs
  BY DEF Bundle, NotFound
<1>2. CASE path.post = None
  BY <1>1, <1>2, PageSettles DEF OneLeft, Quiet
<1>3. CASE path.post # None /\ path.page = None
  BY <1>1, <1>3, PostSettles DEF OneLeft, Quiet
<1>4. CASE path.post # None /\ path.page # None /\ FindPostTranslation(path.post, path.lang) # {}
  BY <1>1, <1>4, SectionOfPostSettles DEF OneLeft, Quiet
<1>5. CASE path.post # None /\ path.page # None /\ FindPostTranslation(path.post, path.lang) = {}
  BY <1>1, <1>5, OtherPostSettles
<1> QED
  BY <1>2, <1>3, <1>4, <1>5

(* The site while visitors are on it.  No two posts have one slug in one   *)
(* language, and a visitor who is on the way has no redirect too many left.*)
PostSlugsUnique ==
  \A p, q \in DOMAIN posts : \A l \in DOMAIN posts[p].tr \cap DOMAIN posts[q].tr :
    posts[p].tr[l].slug = posts[q].tr[l].slug => p = q

VisitOK ==
  /\ visit = [path |-> visit.path, shows |-> visit.shows, hops |-> visit.hops, going |-> visit.going]
  /\ visit.path \in PathType /\ visit.hops \in 0 .. 2 /\ visit.going \in BOOLEAN
  /\ visit.going => visit.path # Nowhere
  /\ visit.going /\ visit.hops = 1 => OneLeft(visit.path)
  /\ visit.going /\ visit.hops = 2 => Quiet(visit.path)

SiteIInv == PagesIInv /\ PostsIInv /\ PostSlugsUnique /\ VisitOK

LEMMA NowhereIsPath == Nowhere \in PathType
BY DEF Nowhere, PathType

LEMMA SiteStart == SiteInit => SiteIInv
<1> SUFFICES ASSUME SiteInit PROVE SiteIInv
  OBVIOUS
<1>1. PagesIInv /\ PostsIInv
  BY PagesStart, PostsStart DEF SiteInit
<1>2. PostSlugsUnique
  BY DEF SiteInit, PostsInit, PostSlugsUnique
<1>3. VisitOK
  BY NowhereIsPath DEF SiteInit, NoVisit, VisitOK
<1> QED
  BY <1>1, <1>2, <1>3 DEF SiteIInv

LEMMA MakeSitePreserves ==
  ASSUME SiteIInv, MakeSite
  PROVE  SiteIInv'
<1>1. VisitOK'
  <2>1. visit' = visit /\ ~visit.going
    BY DEF MakeSite, SiteIInv, VisitOK
  <2> QED
    BY <2>1 DEF SiteIInv, VisitOK
<1>2. ASSUME NEW tr \in CreatePageTranslations, NEW t \in Templates, NEW b \in BOOLEAN,
             CreatePage(tr, t, b), UNCHANGED postVars
      PROVE  PagesIInv' /\ PostsIInv' /\ PostSlugsUnique'
  <2>1. PagesIInv'
    BY <1>2, CreatePagePreserves DEF SiteIInv
  <2>2. PostsIInv'
    BY <1>2, PostsKept DEF SiteIInv
  <2>3. PostSlugsUnique'
    BY <1>2 DEF SiteIInv, PostSlugsUnique, postVars, postTables
  <2> QED
    BY <2>1, <2>2, <2>3
<1>3. ASSUME NEW tr \in CreatePageTranslations, NEW t \in PostTypes, NEW b \in BOOLEAN,
             CreatePost(tr, t, b), UNCHANGED pageVars
      PROVE  PagesIInv' /\ PostsIInv' /\ PostSlugsUnique'
  <2>1. PagesIInv'
    BY <1>3, PagesKept DEF SiteIInv
  <2>2. PostsIInv'
    BY <1>3, CreatePostPreserves DEF SiteIInv
  <2>3. PICK n : n = nextPost
    OBVIOUS
  <2>4. /\ DOMAIN posts' = DOMAIN posts \cup {n}
        /\ \A q \in DOMAIN posts \ {n} : posts'[q].tr = posts[q].tr
        /\ posts'[n].tr = [l \in DOMAIN tr |-> [slug |-> tr[l], text |-> 0]]
    BY <1>3, <2>3 DEF CreatePost, Put
  <2>5. DOMAIN tr \subseteq Langs
    BY DEF CreatePageTranslations
  <2>6. n \notin DOMAIN posts
    BY <2>3 DEF SiteIInv, PostsIInv, PostTablesOK
  <2>7. ASSUME NEW q \in DOMAIN posts, NEW l \in DOMAIN posts[q].tr \cap DOMAIN tr
        PROVE  posts[q].tr[l].slug # tr[l]
    <3>1. ~PostSlugOfOther(n, l, tr[l]) /\ l \in Langs /\ q # n
      BY <1>3, <2>3, <2>5, <2>6 DEF CreatePost
    <3> QED
      BY <3>1 DEF PostSlugOfOther
  <2>8. PostSlugsUnique'
    <3>1. SUFFICES ASSUME NEW p \in DOMAIN posts', NEW q \in DOMAIN posts',
                          NEW l \in DOMAIN posts'[p].tr \cap DOMAIN posts'[q].tr,
                          posts'[p].tr[l].slug = posts'[q].tr[l].slug, p # q
                   PROVE  FALSE
      BY DEF PostSlugsUnique
    <3>2. CASE p # n /\ q # n
      BY <2>4, <3>1, <3>2 DEF SiteIInv, PostSlugsUnique
    <3>3. CASE p = n
      BY <2>4, <2>7, <3>1, <3>3
    <3>4. CASE q = n
      BY <2>4, <2>7, <3>1, <3>4
    <3> QED
      BY <3>2, <3>3, <3>4
  <2> QED
    BY <2>1, <2>2, <2>8
<1>4. ASSUME NEW dto \in CreatePostAggregateDto
      PROVE  dto.translations \in CreatePageTranslations /\ dto.type \in PostTypes
             /\ dto.published \in BOOLEAN
  BY DEF CreatePostAggregateDto
<1>5. PagesIInv' /\ PostsIInv' /\ PostSlugsUnique'
  BY <1>2, <1>3, <1>4 DEF MakeSite
<1> QED
  BY <1>1, <1>5 DEF SiteIInv

(* While visitors go about nothing but the visit changes.                  *)
LEMMA SiteStays ==
  ASSUME SiteIInv, UNCHANGED <<pageVars, postVars>>
  PROVE  PagesIInv' /\ PostsIInv' /\ PostSlugsUnique'
<1>1. PagesIInv' /\ PostsIInv'
  BY PagesKept, PostsKept DEF SiteIInv
<1> QED
  BY <1>1 DEF SiteIInv, PostSlugsUnique, postVars, postTables

LEMMA VisitPreserves ==
  ASSUME SiteIInv, NEW path \in Paths, Visit(path)
  PROVE  SiteIInv'
<1>1. path \in PathType /\ path # Nowhere
  BY DEF Paths, PathType, Nowhere
<1>2. visit' = [path |-> path, shows |-> {}, hops |-> 0, going |-> TRUE]
  BY DEF Visit
<1>3. VisitOK'
  BY <1>1, <1>2 DEF VisitOK
<1> QED
  BY <1>3, SiteStays DEF Visit, SiteIInv

LEMMA FollowPreserves ==
  ASSUME SiteIInv, Follow
  PROVE  SiteIInv'
<1>1. UNCHANGED <<pageVars, postVars>> /\ visit.going /\ visit.path \in PathType
  BY DEF Follow, SiteIInv, VisitOK
<1>2. PagesIInv' /\ PostsIInv' /\ PostSlugsUnique'
  BY <1>1, SiteStays
<1>3. pages' = pages /\ posts' = posts
  BY <1>1 DEF pageVars, pageTables, postVars, postTables
<1>4. ASSUME NEW path PROVE OneLeft(path)' <=> OneLeft(path)
  BY <1>3, AnswerStays DEF OneLeft, Quiet
<1>5. ASSUME NEW path PROVE Quiet(path)' <=> Quiet(path)
  BY <1>3, AnswerStays DEF Quiet
<1>6. PICK from, next : from = visit.path /\ next = Bundle(visit.path).to
  OBVIOUS
<1>7. CASE next # Nowhere
  <2>1. visit' = [visit EXCEPT !.path = next, !.hops = @ + 1]
    BY <1>6, <1>7 DEF Follow
  <2>2. /\ visit'.path = next /\ visit'.hops = visit.hops + 1 /\ visit'.going = visit.going
        /\ visit' = [path |-> visit'.path, shows |-> visit'.shows, hops |-> visit'.hops,
                     going |-> visit'.going]
    BY <2>1 DEF SiteIInv, VisitOK
  <2>3. next \in PathType /\ OneLeft(next)
    BY <1>1, <1>6, <1>7, AnswersSettle DEF SiteIInv
  <2>4. visit.hops # 2
    BY <1>1, <1>6, <1>7 DEF SiteIInv, VisitOK, Quiet
  <2>5. visit.hops = 1 => Quiet(next)
    BY <1>1, <1>6, <1>7 DEF SiteIInv, VisitOK, OneLeft
  <2>6. visit.hops \in {0, 1}
    BY <2>4 DEF SiteIInv, VisitOK
  <2>7. visit'.hops \in 0 .. 2 /\ (visit'.hops = 2 => visit.hops = 1)
    BY <2>2, <2>6
  <2>8. visit'.hops = 1 => OneLeft(next)'
    BY <1>4, <2>3
  <2>9. visit'.hops = 2 => Quiet(next)'
    BY <1>5, <2>5, <2>7
  <2>10. VisitOK'
    BY <1>1, <1>7, <2>2, <2>3, <2>7, <2>8, <2>9 DEF VisitOK
  <2> QED
    BY <1>2, <2>10 DEF SiteIInv
<1>8. CASE next = Nowhere
  <2>1. visit' = [visit EXCEPT !.shows = Bundle(visit.path).shows, !.going = FALSE]
    BY <1>6, <1>8 DEF Follow
  <2>2. /\ visit'.path = visit.path /\ visit'.hops = visit.hops /\ visit'.going = FALSE
        /\ visit' = [path |-> visit'.path, shows |-> visit'.shows, hops |-> visit'.hops,
                     going |-> visit'.going]
    BY <2>1 DEF SiteIInv, VisitOK
  <2>3. VisitOK'
    BY <2>2 DEF SiteIInv, VisitOK
  <2> QED
    BY <1>2, <2>3 DEF SiteIInv
<1> QED
  BY <1>7, <1>8

LEMMA SwitchPreserves ==
  ASSUME SiteIInv, NEW l \in Langs, Switch(l)
  PROVE  SiteIInv'
<1>1. UNCHANGED <<pageVars, postVars>>
  BY DEF Switch
<1>2. Resolved(l) = l
  BY DEF Resolved
<1>3. ASSUME NEW s, s \in TranslatedSlug(l, "page", visit.path.page) PROVE s \in Slugs
  <2>1. PICK p \in OtherPages(visit.path.page, l) : s = pages[p].tr[l].slug
    BY <1>2, <1>3 DEF TranslatedSlug
  <2>2. p \in DOMAIN pages /\ l \in DOMAIN pages[p].tr
    BY DEF OtherPages, OpenPages
  <2> QED
    BY <2>1, <2>2, PageRows DEF SiteIInv
<1>4. ASSUME NEW s, s \in TranslatedSlug(l, "post", visit.path.post) PROVE s \in Slugs
  <2>1. PICK p \in DOMAIN posts : l \in DOMAIN posts[p].tr /\ s = posts[p].tr[l].slug
    BY <1>2, <1>4 DEF TranslatedSlug
  <2> QED
    BY <2>1, PostRows DEF SiteIInv
<1>5. PICK s \in Slugs :
        \E path \in {[Nowhere EXCEPT !.lang = l, !.page = s], [Nowhere EXCEPT !.lang = l, !.post = s]} :
          visit' = [visit EXCEPT !.hops = 0, !.going = TRUE, !.path = path]
  BY <1>3, <1>4 DEF Switch
<1>6. PICK path \in {[Nowhere EXCEPT !.lang = l, !.page = s], [Nowhere EXCEPT !.lang = l, !.post = s]} :
        visit' = [visit EXCEPT !.hops = 0, !.going = TRUE, !.path = path]
  BY <1>5
<1>7. path \in PathType /\ path # Nowhere
  <2>1. s # None
    BY PageBounds
  <2>2. CASE path = [Nowhere EXCEPT !.lang = l, !.page = s]
    BY <2>1, <2>2 DEF PathType, Nowhere
  <2>3. CASE path = [Nowhere EXCEPT !.lang = l, !.post = s]
    BY <2>1, <2>3 DEF PathType, Nowhere
  <2> QED
    BY <1>6, <2>2, <2>3
<1>8. visit' = [path |-> path, shows |-> visit.shows, hops |-> 0, going |-> TRUE]
  BY <1>6 DEF SiteIInv, VisitOK
<1>9. VisitOK'
  BY <1>7, <1>8 DEF VisitOK
<1> QED
  BY <1>1, <1>9, SiteStays DEF SiteIInv

LEMMA SiteKept ==
  ASSUME SiteIInv, [SiteNext]_siteVars
  PROVE  SiteIInv'
<1>1. CASE UNCHANGED siteVars
  <2>1. pages' = pages /\ posts' = posts /\ visit' = visit
    BY <1>1 DEF siteVars, pageVars, pageTables, postVars, postTables
  <2>2. VisitOK'
    BY <2>1, AnswerStays DEF SiteIInv, VisitOK, OneLeft, Quiet
  <2> QED
    BY <1>1, <2>2, SiteStays DEF SiteIInv, siteVars
<1> QED
  BY <1>1, MakeSitePreserves, FollowPreserves, VisitPreserves, SwitchPreserves DEF SiteNext

(* A visitor who follows redirects is sent on twice at most, whatever the  *)
(* pages, posts and sections are (the bundles of SiteService).             *)
THEOREM RedirectsEnd == SiteSpec => []RedirectsSettle
<1>1. SiteIInv => RedirectsSettle
  BY DEF SiteIInv, VisitOK, RedirectsSettle
<1> QED
  BY <1>1, SiteStart, SiteKept, PTL DEF SiteSpec

(* The addresses that mapPage prints for a page, and mapPostDetail and     *)
(* mapPostSummary for a post, are answered with it.                        *)
LEMMA PagePathShows ==
  ASSUME SiteIInv, NEW p \in OpenPages, NEW path \in PagePaths(p)
  PROVE  [kind |-> "page", id |-> p] \in Bundle(path).shows
<1>1. PICK l \in DOMAIN pages[p].tr : path = [lang |-> l, page |-> pages[p].tr[l].slug, post |-> None]
  BY DEF PagePaths
<1>2. l \in Langs
  BY PageRows DEF SiteIInv, OpenPages
<1>3. p \in FindPageTranslation(path.page, path.lang)
  BY <1>1 DEF FindPageTranslation, HasSlug
<1>4. Bundle(path) = PageBundle(path)
  BY <1>1, <1>2 DEF Bundle
<1>5. PageBundle(path).shows = {[kind |-> "page", id |-> q] : q \in FindPageTranslation(path.page, path.lang)}
  BY <1>3 DEF PageBundle, Show
<1> QED
  BY <1>3, <1>4, <1>5

LEMMA PostPathShows ==
  ASSUME SiteIInv, NEW p \in OpenPosts, NEW path \in PostPaths(p)
  PROVE  [kind |-> "post", id |-> p] \in Bundle(path).shows
<1>1. PICK t : t = posts[p].type
  OBVIOUS
<1>2. PICK l \in DOMAIN posts[p].tr : \E s \in SectionSlug(t, l) :
        path = [lang |-> l, page |-> s, post |-> posts[p].tr[l].slug]
  BY <1>1 DEF PostPaths
<1>3. PICK s \in SectionSlug(t, l) : path = [lang |-> l, page |-> s, post |-> posts[p].tr[l].slug]
  BY <1>2
<1>4. l \in Langs /\ posts[p].tr[l].slug \in Slugs
  BY PostRows DEF SiteIInv, OpenPosts
<1>5. s \in Slugs
  BY SectionSlugs DEF SiteIInv
<1>6. /\ path.lang = l /\ path.page = s /\ path.post = posts[p].tr[l].slug
      /\ path.page # None /\ path.post # None
  BY <1>3, <1>4, <1>5, PageBounds
<1>7. FindPostTranslation(path.post, path.lang) = {p}
  <2>1. p \in FindPostTranslation(path.post, path.lang)
    BY <1>6 DEF FindPostTranslation, HasSlug
  <2>2. ASSUME NEW q \in FindPostTranslation(path.post, path.lang) PROVE q = p
    BY <1>6, <2>2 DEF FindPostTranslation, HasSlug, OpenPosts, SiteIInv, PostSlugsUnique
  <2> QED
    BY <2>1, <2>2
<1>8. Bundle(path) = ExactPostBundle(path, p)
  <2>1. AnyOf({p}) = p
    BY AnyIn
  <2> QED
    BY <1>4, <1>6, <1>7, <2>1 DEF Bundle, PagePostBundle
<1>9. PICK q \in SectionPage(t) : l \in DOMAIN pages[q].tr /\ s = pages[q].tr[l].slug
  BY DEF SectionSlug
<1>10. CanonicalSection(l, t, s) = SectionSlug(t, l)
  BY <1>9 DEF CanonicalSection
<1>11. q \in FindPageTranslation(s, l)
  BY <1>9, SectionOpen DEF SiteIInv, FindPageTranslation, HasSlug
<1>12. PICK page : page = IF FindSectionPage(l, t, s) # {} THEN FindSectionPage(l, t, s)
                                                           ELSE FindPageTranslation(s, l)
  OBVIOUS
<1>13. page # {}
  BY <1>11, <1>12
<1>14. ExactPostBundle(path, p) =
         Show({[kind |-> "post", id |-> p]} \cup {[kind |-> "page", id |-> r] : r \in page})
  BY <1>1, <1>3, <1>6, <1>10, <1>12, <1>13 DEF ExactPostBundle
<1> QED
  BY <1>8, <1>14 DEF Show

THEOREM PrintedAddressesShow == SiteSpec => []PrintedPathsShow
<1>1. ASSUME SiteIInv PROVE PrintedPathsShow
  BY <1>1, PagePathShows, PostPathShows DEF PrintedPathsShow, Listed
<1> QED
  BY <1>1, SiteStart, SiteKept, PTL DEF SiteSpec

(***************************************************************************)
(* Menus.                                                                  *)
(***************************************************************************)
MenuRow == [menu : Nat, parent : Nat]

(* What a request will write: rows, and the items that it takes for those  *)
(* of its menu are of that menu, or have gone.                             *)
MenuEditOK(r) ==
  /\ r.at \in {"adding", "moving"} => r.menu \in Nat /\ r.parent \in Nat
  /\ r.at = "saving" =>
       /\ r.menu \in Nat /\ r.known \subseteq 1 .. nextItem - 1
       /\ DOMAIN r.sent \subseteq 0 .. nextItem - 1 /\ r.sent \in [DOMAIN r.sent -> MenuRow]
       /\ \A i \in r.known \cap DOMAIN items : items[i].menu = r.menu

MenusIInv ==
  /\ nextItem \in Nat \ {0} /\ nextMenu \in Nat /\ menus \subseteq Nat
  /\ items \in [DOMAIN items -> MenuRow] /\ DOMAIN items \subseteq 1 .. nextItem - 1
  /\ edit = [e \in Editors |-> edit[e]]
  /\ \A e \in Editors : MenuEditOK(edit[e])

LEMMA MenusStart == MenusInit => MenusIInv
<1> SUFFICES ASSUME MenusInit PROVE MenusIInv
  OBVIOUS
<1>1. edit = [e \in Editors |-> edit[e]] /\ \A e \in Editors : edit[e].at = "idle"
  BY DEF MenusInit, NoEdit
<1>2. \A e \in Editors : MenuEditOK(edit[e])
  BY <1>1 DEF MenuEditOK
<1> QED
  BY <1>1, <1>2 DEF MenusInit, MenusIInv

(* What every step does to the tables: an item stays in its menu, and a    *)
(* new one has a number that none has had.                                 *)
TablesGrow ==
  /\ nextItem' \in Nat /\ nextItem' >= nextItem /\ nextMenu' \in Nat /\ menus' \subseteq Nat
  /\ items' \in [DOMAIN items' -> MenuRow] /\ DOMAIN items' \subseteq 1 .. nextItem' - 1
  /\ \A i \in DOMAIN items' : i \in DOMAIN items => items'[i].menu = items[i].menu
  /\ \A i \in DOMAIN items' : i \notin DOMAIN items => i >= nextItem

LEMMA EditStaysOK ==
  ASSUME MenusIInv, TablesGrow, NEW r, MenuEditOK(r)
  PROVE  /\ r.at \in {"adding", "moving"} => r.menu \in Nat /\ r.parent \in Nat
         /\ r.at = "saving" =>
              /\ r.menu \in Nat /\ r.known \subseteq 1 .. nextItem' - 1
              /\ DOMAIN r.sent \subseteq 0 .. nextItem' - 1 /\ r.sent \in [DOMAIN r.sent -> MenuRow]
              /\ \A i \in r.known \cap DOMAIN items' : items'[i].menu = r.menu
<1>1. nextItem \in Nat /\ nextItem' \in Nat /\ nextItem' >= nextItem
  BY DEF MenusIInv, TablesGrow
<1>2. \A i : /\ i \in 1 .. nextItem - 1 => i \in 1 .. nextItem' - 1
             /\ i \in 0 .. nextItem - 1 => i \in 0 .. nextItem' - 1
  BY <1>1
<1>3. \A i \in 1 .. nextItem - 1 : ~(i >= nextItem)
  BY <1>1
<1> QED
  BY <1>2, <1>3 DEF MenuEditOK, TablesGrow

LEMMA EditsStayOK ==
  ASSUME MenusIInv, TablesGrow, edit' = edit
  PROVE  MenusIInv'
<1>1. ASSUME NEW e \in Editors PROVE MenuEditOK(edit[e])'
  BY EditStaysOK DEF MenusIInv, MenuEditOK
<1> QED
  BY <1>1 DEF MenusIInv, TablesGrow

LEMMA EndKeepsMenus ==
  ASSUME MenusIInv, TablesGrow, NEW e \in Editors, End(e)
  PROVE  MenusIInv'
<1>1. /\ edit' = [f \in Editors |-> edit'[f]] /\ edit'[e] = NoEdit
      /\ \A f \in Editors \ {e} : edit'[f] = edit[f]
  BY DEF MenusIInv, End
<1>2. ASSUME NEW f \in Editors PROVE MenuEditOK(edit[f])'
  <2>1. CASE f = e
    BY <1>1, <2>1 DEF MenuEditOK, NoEdit
  <2>2. CASE f # e
    BY <1>1, <2>2, EditStaysOK DEF MenusIInv, MenuEditOK
  <2> QED
    BY <2>1, <2>2
<1> QED
  BY <1>1, <1>2 DEF MenusIInv, TablesGrow

LEMMA BeginKeepsMenus ==
  ASSUME MenusIInv, NEW e \in Editors, NEW r, Begin(e, r), MenuEditOK(r),
         UNCHANGED <<menus, items, nextMenu, nextItem>>
  PROVE  MenusIInv'
<1>1. /\ edit' = [f \in Editors |-> edit'[f]] /\ edit'[e] = r
      /\ \A f \in Editors \ {e} : edit'[f] = edit[f]
  BY DEF MenusIInv, Begin
<1>2. ASSUME NEW f \in Editors PROVE MenuEditOK(edit[f])'
  BY <1>1 DEF MenusIInv, MenuEditOK
<1> QED
  BY <1>1, <1>2 DEF MenusIInv

(* Steps that leave the items alone, or only add one.                      *)
ItemsStay == \A i \in DOMAIN items : i \in DOMAIN items' /\ items'[i] = items[i]

LEMMA NewItemGrows ==
  ASSUME MenusIInv, NEW m \in Nat, NEW p \in Nat, items' = WithItem(m, p), nextItem' = nextItem + 1,
         nextMenu' \in Nat, menus' \subseteq Nat
  PROVE  TablesGrow /\ ItemsStay
<1>1. nextItem \in Nat \ {0} /\ DOMAIN items \subseteq 1 .. nextItem - 1
  BY DEF MenusIInv
<1>2. nextItem \notin DOMAIN items
  BY <1>1
<1>3. [menu |-> m, parent |-> p] \in MenuRow
  BY DEF MenuRow
<1>4. /\ DOMAIN items' = DOMAIN items \cup {nextItem} /\ items'[nextItem] \in MenuRow
      /\ \A i \in DOMAIN items : items'[i] = items[i] /\ items'[i] \in MenuRow
      /\ items' = [i \in DOMAIN items' |-> items'[i]]
  BY <1>2, <1>3 DEF MenusIInv, WithItem
<1>5. items' \in [DOMAIN items' -> MenuRow]
  BY <1>4
<1>6. DOMAIN items' \subseteq 1 .. nextItem' - 1
  BY <1>1, <1>4
<1> QED
  BY <1>1, <1>4, <1>5, <1>6 DEF TablesGrow, ItemsStay

LEMMA CreateMenuPreserves ==
  ASSUME MenusIInv, NEW dto \in CreateMenuAggregateDto, CreateMenu(dto.withItem, dto.parentId)
  PROVE  MenusIInv' /\ ItemsStay
<1>1. dto.parentId \in Nat
  BY DEF CreateMenuAggregateDto, MenusIInv
<1>2. nextMenu \in Nat /\ nextMenu' \in Nat /\ menus' \subseteq Nat
  BY DEF CreateMenu, MenusIInv
<1>3. TablesGrow /\ ItemsStay
  <2>1. CASE dto.withItem
    BY <1>1, <1>2, <2>1, NewItemGrows DEF CreateMenu
  <2>2. CASE ~dto.withItem
    BY <1>2, <2>2 DEF CreateMenu, MenusIInv, TablesGrow, ItemsStay
  <2> QED
    BY <2>1, <2>2
<1> QED
  BY <1>3, EditsStayOK DEF CreateMenu

LEMMA AddItemPreserves ==
  ASSUME MenusIInv, NEW e \in Editors, AddItem(e)
  PROVE  MenusIInv' /\ ItemsStay
<1>1. edit[e].menu \in Nat /\ edit[e].parent \in Nat
  BY DEF AddItem, MenusIInv, MenuEditOK
<1>2. TablesGrow /\ ItemsStay
  BY <1>1, NewItemGrows DEF AddItem, MenusIInv
<1> QED
  BY <1>2, EndKeepsMenus DEF AddItem

LEMMA StartPreserves ==
  ASSUME MenusIInv, NEW e \in Editors,
         \/ \E m \in menus : StartTitle(e, m)
         \/ \E m \in menus, dto \in UpdateMenuAggregateDto : \E c \in dto, p \in DOMAIN items \cup {0} :
              StartSave(e, m, dto, c, p)
         \/ \E m \in menus, p \in DOMAIN items \cup {0} : StartAddItem(e, m, p)
         \/ \E i \in DOMAIN items, p \in DOMAIN items \cup {0} : StartMoveItem(e, i, p)
  PROVE  MenusIInv' /\ ItemsStay
<1>1. /\ menus \subseteq Nat /\ DOMAIN items \subseteq Nat /\ nextItem \in Nat
      /\ DOMAIN items \subseteq 1 .. nextItem - 1 /\ DOMAIN items \subseteq 0 .. nextItem - 1
      /\ \A i \in DOMAIN items : items[i] \in MenuRow
  BY DEF MenusIInv
<1>2. ASSUME NEW m \in menus, StartTitle(e, m) PROVE MenusIInv' /\ ItemsStay
  <2>1. PICK r : r = [NoEdit EXCEPT !.at = "saving", !.menu = m, !.known = Roots(m),
                                    !.sent = Keep(items, Roots(m)), !.titleOnly = TRUE]
    OBVIOUS
  <2>2. /\ Roots(m) \subseteq DOMAIN items
        /\ \A i \in Roots(m) : items[i].menu = m
    BY DEF Roots
  <2>3. DOMAIN Keep(items, Roots(m)) = Roots(m) /\ Keep(items, Roots(m)) \in [Roots(m) -> MenuRow]
    BY <1>1, <2>2 DEF Keep
  <2>4. r.at = "saving" /\ r.menu = m /\ r.known = Roots(m) /\ r.sent = Keep(items, Roots(m))
    BY <2>1 DEF NoEdit
  <2>5. MenuEditOK(r)
    BY <1>1, <2>2, <2>3, <2>4 DEF MenuEditOK
  <2> QED
    BY <1>2, <2>1, <2>5, BeginKeepsMenus DEF StartTitle, ItemsStay
<1>3. ASSUME NEW m \in menus, NEW dto \in UpdateMenuAggregateDto, NEW c \in dto,
             NEW p \in DOMAIN items \cup {0}, StartSave(e, m, dto, c, p)
      PROVE  MenusIInv' /\ ItemsStay
  <2>1. PICK sent : sent = [i \in dto |->
          IF i = c THEN [menu |-> m, parent |-> p]
          ELSE IF i \in DOMAIN items THEN [items[i] EXCEPT !.menu = m]
          ELSE [menu |-> m, parent |-> 0]]
    OBVIOUS
  <2>2. PICK r : r = [NoEdit EXCEPT !.at = "saving", !.menu = m, !.known = Roots(m) \cap dto,
                                    !.sent = sent]
    OBVIOUS
  <2>3. m \in Nat /\ p \in Nat /\ dto \subseteq 0 .. nextItem - 1
    BY <1>1 DEF UpdateMenuAggregateDto
  <2>4. ASSUME NEW i \in dto PROVE sent[i] \in MenuRow
    BY <1>1, <2>1, <2>3 DEF MenuRow
  <2>5. DOMAIN sent = dto /\ sent \in [dto -> MenuRow]
    BY <2>1, <2>4
  <2>6. Roots(m) \subseteq DOMAIN items /\ \A i \in Roots(m) : items[i].menu = m
    BY DEF Roots
  <2>7. r.at = "saving" /\ r.menu = m /\ r.known = Roots(m) \cap dto /\ r.sent = sent
    BY <2>2 DEF NoEdit
  <2>8. MenuEditOK(r)
    BY <1>1, <2>3, <2>5, <2>6, <2>7 DEF MenuEditOK
  <2> QED
    BY <1>3, <2>1, <2>2, <2>8, BeginKeepsMenus DEF StartSave, ItemsStay
<1>4. ASSUME NEW m \in menus, NEW p \in DOMAIN items \cup {0}, StartAddItem(e, m, p)
      PROVE  MenusIInv' /\ ItemsStay
  <2>1. PICK r : r = [NoEdit EXCEPT !.at = "adding", !.menu = m, !.parent = p]
    OBVIOUS
  <2>2. MenuEditOK(r)
    BY <1>1, <2>1 DEF MenuEditOK, NoEdit
  <2> QED
    BY <1>4, <2>1, <2>2, BeginKeepsMenus DEF StartAddItem, ItemsStay
<1>5. ASSUME NEW i \in DOMAIN items, NEW p \in DOMAIN items \cup {0}, StartMoveItem(e, i, p)
      PROVE  MenusIInv' /\ ItemsStay
  <2>1. PICK r : r = [NoEdit EXCEPT !.at = "moving", !.id = i, !.parent = p]
    OBVIOUS
  <2>2. MenuEditOK(r)
    BY <1>1, <2>1 DEF MenuEditOK, NoEdit
  <2> QED
    BY <1>5, <2>1, <2>2, BeginKeepsMenus DEF StartMoveItem, ItemsStay
<1> QED
  BY <1>2, <1>3, <1>4, <1>5

LEMMA EditFailsPreserves ==
  ASSUME MenusIInv, NEW e \in Editors, EditFails(e)
  PROVE  MenusIInv' /\ ItemsStay
<1>1. TablesGrow /\ ItemsStay
  BY DEF EditFails, MenusIInv, TablesGrow, ItemsStay
<1> QED
  BY <1>1, EndKeepsMenus DEF EditFails

LEMMA DropGrows ==
  ASSUME MenusIInv, NEW gone, items' = Drop(items, gone), UNCHANGED <<nextMenu, nextItem>>,
         menus' \subseteq menus
  PROVE  /\ TablesGrow
         /\ DOMAIN items' = DOMAIN items \ Cascade(items, gone)
         /\ \A i \in DOMAIN items' : items'[i] = items[i]
<1>1. /\ DOMAIN items' = DOMAIN items \ Cascade(items, gone)
      /\ \A i \in DOMAIN items' : items'[i] = items[i]
      /\ items' = [i \in DOMAIN items' |-> items'[i]]
  BY DEF Drop, Keep
<1>2. items' \in [DOMAIN items' -> MenuRow]
  BY <1>1 DEF MenusIInv
<1> QED
  BY <1>1, <1>2 DEF MenusIInv, TablesGrow

LEMMA MoveItemPreserves ==
  ASSUME MenusIInv, NEW e \in Editors, MoveItem(e)
  PROVE  /\ MenusIInv'
         /\ \A i \in DOMAIN items \ {edit[e].id} : i \in DOMAIN items' /\ items'[i] = items[i]
<1>1. edit[e].parent \in Nat /\ edit[e].id \in DOMAIN items
  BY DEF MoveItem, MenusIInv, MenuEditOK
<1>2. /\ DOMAIN items' = DOMAIN items /\ items' = [i \in DOMAIN items' |-> items'[i]]
      /\ \A i \in DOMAIN items \ {edit[e].id} : items'[i] = items[i]
      /\ items'[edit[e].id] = [items[edit[e].id] EXCEPT !.parent = edit[e].parent]
  BY <1>1 DEF MoveItem, MenusIInv
<1>3. items'[edit[e].id] \in MenuRow /\ items'[edit[e].id].menu = items[edit[e].id].menu
  <2>1. items[edit[e].id] \in MenuRow
    BY <1>1 DEF MenusIInv
  <2> QED
    BY <1>1, <1>2, <2>1 DEF MenuRow
<1>4. \A i \in DOMAIN items' : items'[i] \in MenuRow /\ items'[i].menu = items[i].menu
  BY <1>2, <1>3 DEF MenusIInv
<1>5. items' \in [DOMAIN items' -> MenuRow]
  BY <1>2, <1>4
<1>6. TablesGrow
  BY <1>2, <1>4, <1>5 DEF MoveItem, MenusIInv, TablesGrow
<1> QED
  BY <1>2, <1>6, EndKeepsMenus DEF MoveItem

(* The items that a save adds are numbered on from the last.               *)
LEMMA NewIds ==
  ASSUME nextItem \in Nat, NEW renewed, IsFiniteSet(renewed), renewed \subseteq Nat, NEW i \in renewed
  PROVE  NewId(renewed, i) \in nextItem .. nextItem + Cardinality(renewed) - 1
<1> DEFINE before == {k \in renewed : k < i}
<1>1. before \subseteq renewed /\ i \notin before
  BY DEF before
<1>2. /\ Cardinality(before) \in Nat /\ Cardinality(renewed) \in Nat
      /\ Cardinality(before) <= Cardinality(renewed)
      /\ Cardinality(before) # Cardinality(renewed)
  BY <1>1, FS_Subset, FS_CardinalityType
<1>3. NewId(renewed, i) = nextItem + Cardinality(before)
  BY DEF NewId
<1> HIDE DEF before
<1> QED
  BY <1>2, <1>3

(* A save touches the items of its menu, those that it adds, and what      *)
(* hangs below items of its menu that it does not list.                    *)
LEMMA SaveMenuPreserves ==
  ASSUME MenusIInv, NEW e \in Editors, SaveMenu(e)
  PROVE  /\ MenusIInv'
         /\ \E kept : \A i \in DOMAIN items :
              items[i].menu # edit[e].menu /\ i \notin Cascade(items, RowsToDelete(edit[e].menu, kept)) =>
                i \in DOMAIN items' /\ items'[i] = items[i]
<1> DEFINE m == edit[e].menu
           sent == edit[e].sent
           kept == DOMAIN sent \cap edit[e].known
           renewed == DOMAIN sent \ kept
           left == DOMAIN items \ Cascade(items, RowsToDelete(m, kept))
           new == {NewId(renewed, i) : i \in renewed}
           Source(n) == CHOOSE i \in renewed : NewId(renewed, i) = n
<1>1. /\ m = edit[e].menu /\ sent = edit[e].sent /\ kept = DOMAIN sent \cap edit[e].known
      /\ renewed = DOMAIN sent \ kept
  OBVIOUS
<1>2. left = DOMAIN items \ Cascade(items, RowsToDelete(m, kept))
  OBVIOUS
<1>3. new = {NewId(renewed, i) : i \in renewed}
  OBVIOUS
<1>4. \A n : (\E i \in renewed : NewId(renewed, i) = n) => Source(n) \in renewed
  OBVIOUS
<1>5. /\ edit[e].at = "saving" /\ m \in menus /\ kept \subseteq left /\ End(e)
      /\ nextItem' = nextItem + Cardinality(renewed) /\ UNCHANGED <<menus, nextMenu>>
      /\ items' = [i \in left \cup new |->
                     IF i \in new THEN sent[Source(i)]
                     ELSE IF i \in kept THEN [sent[i] EXCEPT !.menu = items[i].menu]
                     ELSE items[i]]
  BY DEF SaveMenu
<1> HIDE DEF m, sent, kept, renewed, left, new, Source
<1>6. /\ edit[e].known \subseteq 1 .. nextItem - 1
      /\ DOMAIN sent \subseteq 0 .. nextItem - 1 /\ sent \in [DOMAIN sent -> MenuRow]
      /\ \A i \in edit[e].known \cap DOMAIN items : items[i].menu = m
      /\ nextItem \in Nat \ {0} /\ DOMAIN items \subseteq 1 .. nextItem - 1
      /\ \A i \in DOMAIN items : items[i] \in MenuRow
  BY <1>1, <1>5 DEF MenusIInv, MenuEditOK
<1>7. renewed \subseteq Nat /\ IsFiniteSet(renewed) /\ Cardinality(renewed) \in Nat
  <2>1. renewed \subseteq 0 .. nextItem - 1
    BY <1>1, <1>6
  <2>2. IsFiniteSet(0 .. nextItem - 1)
    <3>1. 0 \in Int /\ nextItem - 1 \in Int
      BY <1>6
    <3> QED
      BY <3>1, FS_Interval
  <2> QED
    BY <1>6, <2>1, <2>2, FS_Subset, FS_CardinalityType
<1>8. \A n \in new : n \in nextItem .. nextItem' - 1
  BY <1>3, <1>5, <1>6, <1>7, NewIds
<1>9. \A n \in new : Source(n) \in DOMAIN sent
  <2> TAKE n \in new
  <2>1. \E i \in renewed : NewId(renewed, i) = n
    BY <1>3
  <2>2. Source(n) \in renewed
    BY <1>4, <2>1
  <2> QED
    BY <1>1, <2>2
<1>10. left \subseteq DOMAIN items /\ \A i \in left : i \notin new
  BY <1>2, <1>6, <1>8
<1>11. \A i \in kept : i \in DOMAIN items /\ i \in DOMAIN sent /\ items[i].menu = m
  BY <1>1, <1>5, <1>6, <1>10
<1>12. \A i \in DOMAIN items' : items'[i] \in MenuRow /\ (i \in left => items'[i].menu = items[i].menu)
  <2> TAKE i \in DOMAIN items'
  <2>1. CASE i \in new
    <3>1. items'[i] = sent[Source(i)]
      BY <1>5, <2>1
    <3>2. sent[Source(i)] \in MenuRow
      BY <1>6, <1>9, <2>1
    <3> QED
      BY <1>10, <2>1, <3>1, <3>2
  <2>2. CASE i \in kept
    <3>1. items'[i] = [sent[i] EXCEPT !.menu = items[i].menu]
      BY <1>5, <1>10, <2>2
    <3>2. sent[i] \in MenuRow /\ items[i] \in MenuRow
      BY <1>6, <1>11, <2>2
    <3> QED
      BY <3>1, <3>2 DEF MenuRow
  <2>3. CASE i \notin new /\ i \notin kept
    <3>1. items'[i] = items[i] /\ i \in DOMAIN items
      BY <1>5, <1>10, <2>3
    <3> QED
      BY <1>6, <3>1
  <2> QED
    BY <2>1, <2>2, <2>3
<1>13. DOMAIN items' = left \cup new /\ items' = [i \in DOMAIN items' |-> items'[i]]
  BY <1>5
<1>14. TablesGrow
  <2>1. items' \in [DOMAIN items' -> MenuRow]
    BY <1>12, <1>13
  <2>2. nextItem' \in Nat /\ nextItem' >= nextItem
    BY <1>5, <1>6, <1>7
  <2>3. nextMenu' \in Nat /\ menus' \subseteq Nat
    BY <1>5 DEF MenusIInv
  <2>4. ASSUME NEW i \in DOMAIN items' PROVE i \in 1 .. nextItem' - 1
    BY <1>6, <1>8, <1>10, <1>13, <2>2
  <2>5. ASSUME NEW i \in DOMAIN items' PROVE i \in DOMAIN items => items'[i].menu = items[i].menu
    <3>1. i \in DOMAIN items => i \in left
      BY <1>6, <1>8, <1>13
    <3> QED
      BY <1>12, <3>1
  <2>6. ASSUME NEW i \in DOMAIN items' PROVE i \notin DOMAIN items => i >= nextItem
    BY <1>6, <1>8, <1>10, <1>13
  <2> QED
    BY <2>1, <2>2, <2>3, <2>4, <2>5, <2>6 DEF TablesGrow
<1>15. ASSUME NEW i \in DOMAIN items, items[i].menu # m, i \notin Cascade(items, RowsToDelete(m, kept))
       PROVE  i \in DOMAIN items' /\ items'[i] = items[i]
  <2>1. i \in left /\ i \notin new /\ i \notin kept
    BY <1>2, <1>10, <1>11, <1>15
  <2> QED
    BY <1>5, <2>1
<1> QED
  BY <1>1, <1>5, <1>14, <1>15, EndKeepsMenus

LEMMA MenusKept ==
  ASSUME MenusIInv, [MenusNext]_menuVars
  PROVE  MenusIInv'
<1>1. ASSUME NEW m, DropMenu(m) PROVE MenusIInv'
  <2>1. TablesGrow
    BY <1>1, DropGrows DEF DropMenu
  <2> QED
    BY <1>1, <2>1, EditsStayOK DEF DropMenu
<1>2. ASSUME NEW i, RemoveItem(i) PROVE MenusIInv'
  <2>1. TablesGrow
    BY <1>2, DropGrows DEF RemoveItem
  <2> QED
    BY <1>2, <2>1, EditsStayOK DEF RemoveItem
<1>3. CASE UNCHANGED menuVars
  BY <1>3 DEF menuVars, MenusIInv, MenuEditOK
<1>4. ASSUME NEW e \in Editors, MenuRoutes(e) \/ MenuItemRoutes(e) PROVE MenusIInv'
  BY <1>4, StartPreserves, SaveMenuPreserves, EditFailsPreserves, AddItemPreserves, MoveItemPreserves
     DEF MenuRoutes, MenuItemRoutes
<1> QED
  BY <1>1, <1>2, <1>3, <1>4, CreateMenuPreserves DEF MenusNext

(* What holds of 0 and goes from each number to the next holds of all up   *)
(* to the last: P is the set of the numbers that have it.                  *)
LEMMA UpTo ==
  ASSUME NEW P, 0 \in P, \A n \in 1 .. MaxItems : n - 1 \in P => n \in P
  PROVE  \A n \in 0 .. MaxItems : n \in P
<1> DEFINE out == {n \in 0 .. MaxItems : n \notin P}
<1>1. ASSUME out # {} PROVE FALSE
  <2>1. out \in SUBSET Nat /\ MaxItems \in Nat
    BY MenuBounds
  <2>2. PICK m : m = FirstOf(out)
    OBVIOUS
  <2>3. m \in out /\ \A n \in out : m <= n
    BY <1>1, <2>1, <2>2, FirstIn
  <2>4. m \in 1 .. MaxItems /\ m \notin P /\ m - 1 \in 0 .. MaxItems /\ ~(m <= m - 1)
    BY <2>1, <2>3
  <2> QED
    BY <2>3, <2>4
<1> QED
  BY <1>1

(* Sets that grow step by step, as the functions up and grow of the model. *)
StepByStep(first, step, f) ==
  f = [n \in 0 .. MaxItems |-> IF n = 0 THEN first ELSE step[f[n - 1]]]

LEMMA StepsExist ==
  ASSUME NEW U, NEW first \in SUBSET U, NEW step \in [SUBSET U -> SUBSET U]
  PROVE  \E f : StepByStep(first, step, f) /\ \A n \in 0 .. MaxItems : f[n] \in SUBSET U
<1> DEFINE Goes(k, f) == f = [n \in 0 .. k |-> IF n = 0 THEN first ELSE step[f[n - 1]]]
           P == {k \in Nat : \E f : Goes(k, f)}
<1>1. 0 \in P
  <2>1. Goes(0, [n \in 0 .. 0 |-> first])
    OBVIOUS
  <2> QED
    BY <2>1
<1>2. ASSUME NEW k \in 1 .. MaxItems, k - 1 \in P PROVE k \in P
  <2>1. PICK f : Goes(k - 1, f)
    BY <1>2
  <2>2. k \in Nat /\ k - 1 \in Nat /\ k # 0
    BY MenuBounds
  <2> DEFINE on == [n \in 0 .. k |-> IF n = k THEN step[f[k - 1]] ELSE f[n]]
  <2>3. \A n \in 0 .. k : on[n] = IF n = 0 THEN first ELSE step[on[n - 1]]
    <3> TAKE n \in 0 .. k
    <3>1. CASE n = k
      BY <2>2, <3>1
    <3>2. CASE n # k
      <4>1. n \in 0 .. k - 1 /\ n - 1 # k
        BY <2>2, <3>2
      <4>2. on[n] = f[n] /\ (n # 0 => on[n - 1] = f[n - 1])
        BY <2>2, <4>1
      <4>3. f[n] = IF n = 0 THEN first ELSE step[f[n - 1]]
        BY <2>1, <4>1
      <4> QED
        BY <4>2, <4>3
    <3> QED
      BY <3>1, <3>2
  <2>4. Goes(k, on)
    BY <2>3
  <2> QED
    BY <2>2, <2>4
<1> HIDE DEF P
<1>3. MaxItems \in P
  BY <1>1, <1>2, MenuBounds, UpTo
<1>4. PICK f : Goes(MaxItems, f)
  BY <1>3 DEF P
<1> DEFINE Q == {n \in 0 .. MaxItems : f[n] \in SUBSET U}
<1>5. 0 \in Q
  BY <1>4, MenuBounds
<1>6. ASSUME NEW n \in 1 .. MaxItems, n - 1 \in Q PROVE n \in Q
  <2>1. n \in 0 .. MaxItems /\ n # 0
    BY MenuBounds
  <2>2. f[n] = step[f[n - 1]]
    BY <1>4, <2>1
  <2> QED
    BY <1>6, <2>1, <2>2
<1> HIDE DEF Q
<1>7. \A n \in 0 .. MaxItems : n \in Q
  BY <1>5, <1>6, UpTo
<1> QED
  BY <1>4, <1>7 DEF Q, StepByStep

(* The walk up from an item, and the levels of the tree, step by step.     *)
Parents(rows, S) == {rows[k].parent : k \in S} \cap DOMAIN rows
Ups(rows, i, up) ==
  up = [n \in 0 .. MaxItems |->
          IF n = 0 THEN {i} \cap DOMAIN rows ELSE up[n - 1] \cup Parents(rows, up[n - 1])]

Top(rows) == {i \in DOMAIN rows : rows[i].parent = 0}
Below(rows, found) ==
  {i \in DOMAIN rows : /\ rows[i].parent \in found
                       /\ rows[rows[i].parent].menu = rows[i].menu}
Grows(rows, grow) ==
  grow = [n \in 0 .. MaxItems |->
            IF n = 0 THEN Top(rows) ELSE grow[n - 1] \cup Below(rows, grow[n - 1])]

UpOf(rows, i) == CHOOSE up : Ups(rows, i, up)
GrowOf(rows) == CHOOSE grow : Grows(rows, grow)

LEMMA UpSteps ==
  ASSUME NEW rows, NEW i
  PROVE  /\ Lineage(rows, i) = UpOf(rows, i)[MaxItems]
         /\ UpOf(rows, i)[0] = {i} \cap DOMAIN rows
         /\ \A n \in 1 .. MaxItems :
              UpOf(rows, i)[n] = UpOf(rows, i)[n - 1] \cup Parents(rows, UpOf(rows, i)[n - 1])
         /\ \A n \in 0 .. MaxItems : UpOf(rows, i)[n] \subseteq DOMAIN rows
<1> DEFINE U == DOMAIN rows
           step == [S \in SUBSET U |-> S \cup Parents(rows, S)]
<1>1. step \in [SUBSET U -> SUBSET U] /\ {i} \cap U \in SUBSET U
  BY DEF Parents
<1> HIDE DEF U, step
<1>2. PICK f : StepByStep({i} \cap U, step, f) /\ \A n \in 0 .. MaxItems : f[n] \in SUBSET U
  BY <1>1, StepsExist
<1> USE DEF U, step, StepByStep
<1>3. \A n \in 0 .. MaxItems :
        f[n] = IF n = 0 THEN {i} \cap U ELSE f[n - 1] \cup Parents(rows, f[n - 1])
  <2> TAKE n \in 0 .. MaxItems
  <2>1. CASE n = 0
    BY <1>2, <2>1
  <2>2. CASE n # 0
    <3>1. n - 1 \in 0 .. MaxItems
      BY <2>2, MenuBounds
    <3>2. f[n - 1] \in SUBSET U
      BY <1>2, <3>1
    <3> QED
      BY <1>2, <2>2, <3>2
  <2> QED
    BY <2>1, <2>2
<1>4. Ups(rows, i, f)
  BY <1>2, <1>3 DEF Ups
<1> DEFINE up == UpOf(rows, i)
<1>5. Ups(rows, i, up)
  BY <1>4 DEF UpOf
<1>6. Lineage(rows, i) = up[MaxItems]
  BY DEF Lineage, UpOf, Ups, Parents
<1> HIDE DEF up
<1>7. \A n \in 0 .. MaxItems :
        up[n] = IF n = 0 THEN {i} \cap DOMAIN rows ELSE up[n - 1] \cup Parents(rows, up[n - 1])
  BY <1>5 DEF Ups
<1>8. \A n \in 1 .. MaxItems : up[n] = up[n - 1] \cup Parents(rows, up[n - 1])
  <2> TAKE n \in 1 .. MaxItems
  <2>1. n \in 0 .. MaxItems /\ n # 0
    BY MenuBounds
  <2> QED
    BY <1>7, <2>1
<1> DEFINE P == {n \in 0 .. MaxItems : up[n] \subseteq DOMAIN rows}
<1>9. 0 \in 0 .. MaxItems /\ up[0] = {i} \cap DOMAIN rows /\ 0 \in P
  <2>1. 0 \in 0 .. MaxItems
    BY MenuBounds
  <2> QED
    BY <1>7, <2>1
<1>10. ASSUME NEW n \in 1 .. MaxItems, n - 1 \in P PROVE n \in P
  BY <1>8, <1>10, MenuBounds DEF Parents
<1> HIDE DEF P
<1>11. \A n \in 0 .. MaxItems : n \in P
  BY <1>9, <1>10, UpTo
<1> QED
  BY <1>6, <1>8, <1>9, <1>11 DEF P, up

LEMMA GrowSteps ==
  ASSUME NEW rows
  PROVE  /\ GrowOf(rows)[0] = Top(rows)
         /\ \A n \in 1 .. MaxItems :
              GrowOf(rows)[n] = GrowOf(rows)[n - 1] \cup Below(rows, GrowOf(rows)[n - 1])
<1> DEFINE U == DOMAIN rows
           step == [S \in SUBSET U |-> S \cup Below(rows, S)]
<1>1. step \in [SUBSET U -> SUBSET U] /\ Top(rows) \in SUBSET U
  BY DEF Below, Top
<1> HIDE DEF U, step
<1>2. PICK f : StepByStep(Top(rows), step, f) /\ \A n \in 0 .. MaxItems : f[n] \in SUBSET U
  BY <1>1, StepsExist
<1> USE DEF U, step, StepByStep
<1>3. \A n \in 0 .. MaxItems :
        f[n] = IF n = 0 THEN Top(rows) ELSE f[n - 1] \cup Below(rows, f[n - 1])
  <2> TAKE n \in 0 .. MaxItems
  <2>1. CASE n = 0
    BY <1>2, <2>1
  <2>2. CASE n # 0
    <3>1. n - 1 \in 0 .. MaxItems
      BY <2>2, MenuBounds
    <3>2. f[n - 1] \in SUBSET U
      BY <1>2, <3>1
    <3> QED
      BY <1>2, <2>2, <3>2
  <2> QED
    BY <2>1, <2>2
<1>4. Grows(rows, f)
  BY <1>2, <1>3 DEF Grows
<1> DEFINE grow == GrowOf(rows)
<1>5. Grows(rows, grow)
  BY <1>4 DEF GrowOf
<1> HIDE DEF grow
<1>6. \A n \in 0 .. MaxItems :
        grow[n] = IF n = 0 THEN Top(rows) ELSE grow[n - 1] \cup Below(rows, grow[n - 1])
  BY <1>5 DEF Grows
<1>7. grow[0] = Top(rows)
  <2>1. 0 \in 0 .. MaxItems
    BY MenuBounds
  <2> QED
    BY <1>6, <2>1
<1>8. \A n \in 1 .. MaxItems : grow[n] = grow[n - 1] \cup Below(rows, grow[n - 1])
  <2> TAKE n \in 1 .. MaxItems
  <2>1. n \in 0 .. MaxItems /\ n # 0
    BY MenuBounds
  <2> QED
    BY <1>6, <2>1
<1> QED
  BY <1>7, <1>8 DEF grow

LEMMA ShownGrows == Shown = GrowOf(items)[MaxItems] /\ Shown' = GrowOf(items')[MaxItems]
BY DEF Shown, GrowOf, Grows, Top, Below

(* The walk from an item is the item, and the walk from its parent.        *)
LEMMA UpFromParent ==
  ASSUME NEW i \in DOMAIN items
  PROVE  \A n \in 1 .. MaxItems : UpOf(items, i)[n] = {i} \cup UpOf(items, items[i].parent)[n - 1]
<1> DEFINE up == UpOf(items, i)
           over == UpOf(items, items[i].parent)
<1>1. /\ up[0] = {i}
      /\ \A n \in 1 .. MaxItems : up[n] = up[n - 1] \cup Parents(items, up[n - 1])
  BY UpSteps
<1>2. /\ over[0] = {items[i].parent} \cap DOMAIN items
      /\ \A n \in 1 .. MaxItems : over[n] = over[n - 1] \cup Parents(items, over[n - 1])
      /\ \A n \in 0 .. MaxItems : over[n] \subseteq DOMAIN items
  BY UpSteps
<1> HIDE DEF up, over
<1> DEFINE P == {n \in 0 .. MaxItems :
                   n # 0 => up[n] = {i} \cup over[n - 1] /\ over[0] \subseteq over[n - 1]}
<1>3. 0 \in P
  BY MenuBounds
<1>4. ASSUME NEW n \in 1 .. MaxItems, n - 1 \in P PROVE n \in P
  <2>1. n \in 0 .. MaxItems /\ n # 0 /\ n \in Nat
    BY MenuBounds
  <2>2. CASE n = 1
    <3>1. up[1] = {i} \cup Parents(items, {i})
      BY <1>1, <2>2
    <3>2. Parents(items, {i}) = over[0]
      BY <1>2 DEF Parents
    <3> QED
      BY <2>1, <2>2, <3>1, <3>2
  <2>3. CASE n # 1
    <3>1. n - 1 \in 1 .. MaxItems /\ n - 1 # 0
      BY <2>1, <2>3, MenuBounds
    <3>2. up[n - 1] = {i} \cup over[(n - 1) - 1] /\ over[0] \subseteq over[(n - 1) - 1]
      BY <1>4, <3>1
    <3>3. up[n] = up[n - 1] \cup Parents(items, up[n - 1])
      BY <1>1
    <3>4. over[n - 1] = over[(n - 1) - 1] \cup Parents(items, over[(n - 1) - 1])
      BY <1>2, <3>1
    <3>5. Parents(items, up[n - 1]) = over[0] \cup Parents(items, over[(n - 1) - 1])
      BY <1>2, <3>2 DEF Parents
    <3> QED
      BY <2>1, <3>2, <3>3, <3>4, <3>5
  <2> QED
    BY <2>2, <2>3
<1> HIDE DEF P
<1>5. \A n \in 0 .. MaxItems : n \in P
  BY <1>3, <1>4, UpTo
<1>6. ASSUME NEW n \in 1 .. MaxItems PROVE up[n] = {i} \cup over[n - 1]
  <2>1. n \in 0 .. MaxItems /\ n # 0
    BY MenuBounds
  <2> QED
    BY <1>5, <2>1 DEF P
<1> QED
  BY <1>6 DEF up, over

(* From what is not in the table no walk goes anywhere.                    *)
LEMMA NoUp ==
  ASSUME NEW i, i \notin DOMAIN items
  PROVE  \A n \in 0 .. MaxItems : UpOf(items, i)[n] = {}
<1> DEFINE up == UpOf(items, i)
<1>1. /\ up[0] = {}
      /\ \A n \in 1 .. MaxItems : up[n] = up[n - 1] \cup Parents(items, up[n - 1])
  BY UpSteps
<1> HIDE DEF up
<1> DEFINE P == {n \in 0 .. MaxItems : up[n] = {}}
<1>2. 0 \in P
  BY <1>1, MenuBounds
<1>3. ASSUME NEW n \in 1 .. MaxItems, n - 1 \in P PROVE n \in P
  <2>1. n \in 0 .. MaxItems
    BY MenuBounds
  <2> QED
    BY <1>1, <1>3, <2>1 DEF Parents
<1> HIDE DEF P
<1>4. \A n \in 0 .. MaxItems : n \in P
  BY <1>2, <1>3, UpTo
<1> QED
  BY <1>4 DEF P, up

(* The walk from an item that is shown ends at a root, after as many steps *)
(* as it takes to show the item.                                           *)
Ended(i, n) == \A m \in n .. MaxItems : UpOf(items, i)[m] = UpOf(items, i)[n]

LEMMA WalkOfShownEnds ==
  ASSUME MenusIInv, NEW n \in 0 .. MaxItems, NEW i \in GrowOf(items)[n]
  PROVE  i \in DOMAIN items /\ Ended(i, n)
<1> DEFINE grow == GrowOf(items)
           P == {k \in 0 .. MaxItems : \A j \in grow[k] : j \in DOMAIN items /\ Ended(j, k)}
<1>1. /\ grow[0] = Top(items)
      /\ \A k \in 1 .. MaxItems : grow[k] = grow[k - 1] \cup Below(items, grow[k - 1])
  BY GrowSteps
<1> HIDE DEF grow
<1>2. 0 \notin DOMAIN items
  BY DEF MenusIInv
<1>3. 0 \in P
  <2>1. 0 \in 0 .. MaxItems
    BY MenuBounds
  <2>2. ASSUME NEW j \in Top(items) PROVE j \in DOMAIN items /\ Ended(j, 0)
    <3>1. j \in DOMAIN items /\ items[j].parent = 0
      BY DEF Top
    <3>2. ASSUME NEW m \in 0 .. MaxItems PROVE UpOf(items, j)[m] = {j}
      <4>1. CASE m = 0
        BY <3>1, <4>1, UpSteps
      <4>2. CASE m # 0
        <5>1. m \in 1 .. MaxItems /\ m - 1 \in 0 .. MaxItems
          BY <4>2, MenuBounds
        <5>2. UpOf(items, j)[m] = {j} \cup UpOf(items, 0)[m - 1]
          BY <3>1, <5>1, UpFromParent
        <5>3. UpOf(items, 0)[m - 1] = {}
          BY <1>2, <5>1, NoUp
        <5> QED
          BY <5>2, <5>3
      <4> QED
        BY <4>1, <4>2
    <3> QED
      BY <2>1, <3>1, <3>2 DEF Ended
  <2> QED
    BY <1>1, <2>1, <2>2
<1>4. ASSUME NEW k \in 1 .. MaxItems, k - 1 \in P PROVE k \in P
  <2>1. k \in 0 .. MaxItems /\ k \in Nat /\ k - 1 \in 0 .. MaxItems /\ MaxItems \in Nat
    BY MenuBounds
  <2>2. ASSUME NEW j \in grow[k] PROVE j \in DOMAIN items /\ Ended(j, k)
    <3>1. CASE j \in grow[k - 1]
      <4>1. j \in DOMAIN items /\ Ended(j, k - 1)
        BY <1>4, <3>1
      <4>2. UpOf(items, j)[k] = UpOf(items, j)[k - 1]
        BY <2>1, <4>1 DEF Ended
      <4>3. ASSUME NEW m \in k .. MaxItems PROVE UpOf(items, j)[m] = UpOf(items, j)[k]
        <5>1. m \in k - 1 .. MaxItems
          BY <2>1
        <5> QED
          BY <4>1, <4>2, <5>1 DEF Ended
      <4> QED
        BY <4>1, <4>3 DEF Ended
    <3>2. CASE j \in Below(items, grow[k - 1])
      <4>1. j \in DOMAIN items /\ items[j].parent \in grow[k - 1]
        BY <3>2 DEF Below
      <4>2. Ended(items[j].parent, k - 1)
        BY <1>4, <4>1
      <4>3. ASSUME NEW m \in k .. MaxItems PROVE UpOf(items, j)[m] = UpOf(items, j)[k]
        <5>1. m \in 1 .. MaxItems /\ k \in 1 .. MaxItems /\ m - 1 \in k - 1 .. MaxItems
          BY <2>1
        <5>2. UpOf(items, j)[m] = {j} \cup UpOf(items, items[j].parent)[m - 1]
          BY <4>1, <5>1, UpFromParent
        <5>3. UpOf(items, j)[k] = {j} \cup UpOf(items, items[j].parent)[k - 1]
          BY <4>1, <5>1, UpFromParent
        <5>4. UpOf(items, items[j].parent)[m - 1] = UpOf(items, items[j].parent)[k - 1]
          BY <4>2, <5>1 DEF Ended
        <5> QED
          BY <5>2, <5>3, <5>4
      <4> QED
        BY <4>1, <4>3 DEF Ended
    <3> QED
      BY <1>1, <3>1, <3>2
  <2> QED
    BY <2>1, <2>2
<1> HIDE DEF P
<1>5. \A k \in 0 .. MaxItems : k \in P
  BY <1>3, <1>4, UpTo
<1> QED
  BY <1>5 DEF P, grow

(* A walk keeps what it has met; it begins with the item itself.           *)
LEMMA LineHasFirst ==
  ASSUME NEW i
  PROVE  {i} \cap DOMAIN items \subseteq Lineage(items, i)
<1> DEFINE up == UpOf(items, i)
           P == {n \in 0 .. MaxItems : {i} \cap DOMAIN items \subseteq up[n]}
<1>1. /\ up[0] = {i} \cap DOMAIN items /\ Lineage(items, i) = up[MaxItems]
      /\ \A n \in 1 .. MaxItems : up[n] = up[n - 1] \cup Parents(items, up[n - 1])
  BY UpSteps
<1> HIDE DEF up
<1>2. 0 \in P
  BY <1>1, MenuBounds
<1>3. ASSUME NEW n \in 1 .. MaxItems, n - 1 \in P PROVE n \in P
  <2>1. n \in 0 .. MaxItems
    BY MenuBounds
  <2> QED
    BY <1>1, <1>3, <2>1
<1> HIDE DEF P
<1>4. \A n \in 0 .. MaxItems : n \in P
  BY <1>2, <1>3, UpTo
<1>5. MaxItems \in 0 .. MaxItems
  BY MenuBounds
<1> QED
  BY <1>1, <1>4, <1>5 DEF P

(* An item of a level is a root, or below one of the level before.         *)
LEMMA LineageOfLevel ==
  ASSUME MenusIInv, NEW n \in 1 .. MaxItems, NEW i \in GrowOf(items)[n], i \notin GrowOf(items)[n - 1]
  PROVE  /\ i \in DOMAIN items /\ items[i].parent \in GrowOf(items)[n - 1]
         /\ items[items[i].parent].menu = items[i].menu
         /\ Lineage(items, i) = {i} \cup Lineage(items, items[i].parent)
<1>1. i \in Below(items, GrowOf(items)[n - 1])
  BY GrowSteps
<1>2. /\ i \in DOMAIN items /\ items[i].parent \in GrowOf(items)[n - 1]
      /\ items[items[i].parent].menu = items[i].menu
  BY <1>1 DEF Below
<1>3. /\ n - 1 \in 0 .. MaxItems /\ MaxItems \in 1 .. MaxItems
      /\ MaxItems - 1 \in n - 1 .. MaxItems /\ MaxItems \in n - 1 .. MaxItems
  BY MenuBounds
<1>4. Ended(items[i].parent, n - 1)
  BY <1>2, <1>3, WalkOfShownEnds
<1>5. UpOf(items, items[i].parent)[MaxItems - 1] = UpOf(items, items[i].parent)[MaxItems]
  BY <1>3, <1>4 DEF Ended
<1>6. UpOf(items, i)[MaxItems] = {i} \cup UpOf(items, items[i].parent)[MaxItems - 1]
  BY <1>2, <1>3, UpFromParent
<1> QED
  BY <1>2, <1>5, <1>6, UpSteps

LEMMA LineageOfTop ==
  ASSUME MenusIInv, NEW i \in Top(items)
  PROVE  i \in DOMAIN items /\ Lineage(items, i) = {i}
<1>1. i \in DOMAIN items /\ 0 \in 0 .. MaxItems /\ MaxItems \in 0 .. MaxItems
  BY MenuBounds DEF Top
<1>2. Ended(i, 0)
  BY <1>1, WalkOfShownEnds, GrowSteps
<1>3. UpOf(items, i)[MaxItems] = UpOf(items, i)[0]
  BY <1>1, <1>2 DEF Ended
<1> QED
  BY <1>1, <1>3, UpSteps

(* The line from an item that is shown is in the item's menu, and the line *)
(* of each of its members is part of it.                                   *)
LineOK(i) ==
  /\ i \in DOMAIN items /\ i \in Lineage(items, i)
  /\ \A c \in Lineage(items, i) :
       /\ c \in DOMAIN items /\ items[c].menu = items[i].menu
       /\ Lineage(items, c) \subseteq Lineage(items, i)

LEMMA LineOfShown ==
  ASSUME MenusIInv, NEW i \in Shown
  PROVE  LineOK(i)
<1> DEFINE grow == GrowOf(items)
           P == {n \in 0 .. MaxItems : \A j \in grow[n] : LineOK(j)}
<1>1. grow[0] = Top(items)
  BY GrowSteps
<1>2. 0 \in P
  <2>1. 0 \in 0 .. MaxItems
    BY MenuBounds
  <2>2. ASSUME NEW j \in Top(items) PROVE LineOK(j)
    BY LineageOfTop DEF LineOK
  <2> QED
    BY <1>1, <2>1, <2>2
<1>3. ASSUME NEW n \in 1 .. MaxItems, n - 1 \in P PROVE n \in P
  <2>1. n \in 0 .. MaxItems
    BY MenuBounds
  <2>2. ASSUME NEW j \in grow[n], j \notin grow[n - 1] PROVE LineOK(j)
    <3>1. /\ j \in DOMAIN items /\ items[j].parent \in grow[n - 1]
          /\ items[items[j].parent].menu = items[j].menu
          /\ Lineage(items, j) = {j} \cup Lineage(items, items[j].parent)
      BY <2>2, LineageOfLevel
    <3>2. LineOK(items[j].parent)
      BY <1>3, <3>1
    <3> HIDE DEF grow
    <3> QED
      BY <3>1, <3>2 DEF LineOK
  <2> QED
    BY <1>3, <2>1, <2>2
<1> HIDE DEF P
<1>4. \A n \in 0 .. MaxItems : n \in P
  BY <1>2, <1>3, UpTo
<1>5. MaxItems \in 0 .. MaxItems
  BY MenuBounds
<1> QED
  BY <1>4, <1>5, ShownGrows DEF P

(* An item stays in the menu as long as the line from it stays as it is.   *)
LEMMA ShownStays ==
  ASSUME MenusIInv, NEW i \in Shown,
         \A c \in Lineage(items, i) : c \in DOMAIN items' /\ items'[c] = items[c]
  PROVE  i \in Shown'
<1> DEFINE grow == GrowOf(items)
           next == GrowOf(items')
           Same(j) == \A c \in Lineage(items, j) : c \in DOMAIN items' /\ items'[c] = items[c]
           P == {n \in 0 .. MaxItems : \A j \in grow[n] : Same(j) => j \in next[n]}
<1>1. /\ grow[0] = Top(items) /\ next[0] = Top(items')
      /\ \A n \in 1 .. MaxItems : next[n] = next[n - 1] \cup Below(items', next[n - 1])
  BY GrowSteps
<1>2. 0 \in P
  <2>1. 0 \in 0 .. MaxItems
    BY MenuBounds
  <2>2. ASSUME NEW j \in Top(items), Same(j) PROVE j \in Top(items')
    BY <2>2, LineageOfTop DEF Top
  <2> QED
    BY <1>1, <2>1, <2>2
<1>3. ASSUME NEW n \in 1 .. MaxItems, n - 1 \in P PROVE n \in P
  <2>1. n \in 0 .. MaxItems
    BY MenuBounds
  <2>2. ASSUME NEW j \in grow[n], j \notin grow[n - 1], Same(j) PROVE j \in Below(items', next[n - 1])
    <3>1. /\ j \in DOMAIN items /\ items[j].parent \in grow[n - 1]
          /\ items[items[j].parent].menu = items[j].menu
          /\ Lineage(items, j) = {j} \cup Lineage(items, items[j].parent)
      BY <2>2, LineageOfLevel
    <3>2. items[j].parent \in next[n - 1]
      BY <1>3, <2>2, <3>1
    <3>3. items[j].parent \in Lineage(items, items[j].parent)
      <4>1. items[j].parent \in DOMAIN items
        <5>1. n - 1 \in 0 .. MaxItems
          BY MenuBounds
        <5> QED
          BY <3>1, <5>1, WalkOfShownEnds
      <4> QED
        BY <4>1, LineHasFirst
    <3>4. items'[j] = items[j] /\ j \in DOMAIN items' /\ items'[items[j].parent] = items[items[j].parent]
      BY <2>2, <3>1, <3>3
    <3> HIDE DEF grow, next
    <3> QED
      BY <3>1, <3>2, <3>4 DEF Below
  <2> QED
    BY <1>1, <1>3, <2>1, <2>2
<1> HIDE DEF P
<1>4. \A n \in 0 .. MaxItems : n \in P
  BY <1>2, <1>3, UpTo
<1>5. MaxItems \in 0 .. MaxItems
  BY MenuBounds
<1> QED
  BY <1>4, <1>5, ShownGrows DEF P

LEMMA DropLeavesShown ==
  ASSUME MenusIInv, NEW gone, items' = Drop(items, gone), NEW i \in Shown,
         Lineage(items, i) \cap gone = {}
  PROVE  i \in Shown'
<1>1. LineOK(i)
  BY LineOfShown
<1>2. ASSUME NEW c \in Lineage(items, i) PROVE c \in DOMAIN items' /\ items'[c] = items[c]
  <2>1. c \in DOMAIN items /\ Lineage(items, c) \cap gone = {}
    BY <1>1 DEF LineOK
  <2> QED
    BY <2>1 DEF Drop, Keep, Cascade
<1> QED
  BY <1>2, ShownStays

(* Why an item may vanish from its menu: its menu is gone, or the item or  *)
(* one above it is deleted and with it only what hangs below that; or a    *)
(* save of its menu or a move of its line ends.                            *)
MayVanish(i) ==
  \/ items[i].menu \notin menus'
  \/ \E k \in Lineage(items, i) \ DOMAIN items' :
       \A l \in DOMAIN items \ DOMAIN items' : k \in Lineage(items, l)
  \/ \E e \in Editors :
       /\ edit[e].at # "idle" /\ edit'[e].at = "idle"
       /\ \/ edit[e].at = "saving" /\ edit[e].menu = items[i].menu
          \/ edit[e].at = "moving" /\ edit[e].id \in Lineage(items, i)

LEMMA VanishesOnPurpose ==
  ASSUME MenusIInv, [MenusNext]_menuVars, NEW i \in Shown \ Shown'
  PROVE  MayVanish(i)
<1>1. LineOK(i)
  BY LineOfShown
<1>2. ASSUME ItemsStay PROVE FALSE
  BY <1>1, <1>2, ShownStays DEF LineOK, ItemsStay
<1>3. ASSUME NEW m, DropMenu(m) PROVE MayVanish(i)
  <2>1. CASE items[i].menu = m
    BY <1>3, <2>1 DEF DropMenu, MayVanish
  <2>2. CASE items[i].menu # m
    <3>1. Lineage(items, i) \cap {j \in DOMAIN items : items[j].menu = m} = {}
      BY <1>1, <2>2 DEF LineOK
    <3> QED
      BY <1>3, <3>1, DropLeavesShown DEF DropMenu
  <2> QED
    BY <2>1, <2>2
<1>4. ASSUME NEW j, RemoveItem(j) PROVE MayVanish(i)
  <2>1. j \in Lineage(items, i)
    BY <1>4, DropLeavesShown DEF RemoveItem
  <2>2. j \in DOMAIN items /\ DOMAIN items' = DOMAIN items \ Cascade(items, {j})
    BY <1>4 DEF RemoveItem, Drop, Keep
  <2>3. j \notin DOMAIN items'
    BY <2>2, LineHasFirst DEF Cascade
  <2>4. \A l \in DOMAIN items \ DOMAIN items' : j \in Lineage(items, l)
    BY <2>2 DEF Cascade
  <2> QED
    BY <2>1, <2>3, <2>4 DEF MayVanish
<1>5. ASSUME NEW e \in Editors, SaveMenu(e) PROVE MayVanish(i)
  <2>1. edit[e].at = "saving" /\ edit'[e].at = "idle"
    BY <1>5 DEF SaveMenu, End, NoEdit, MenusIInv
  <2>2. CASE items[i].menu = edit[e].menu
    BY <2>1, <2>2 DEF MayVanish
  <2>3. CASE items[i].menu # edit[e].menu
    <3>1. PICK kept : \A c \in DOMAIN items :
            items[c].menu # edit[e].menu /\ c \notin Cascade(items, RowsToDelete(edit[e].menu, kept)) =>
              c \in DOMAIN items' /\ items'[c] = items[c]
      BY <1>5, SaveMenuPreserves
    <3>2. ASSUME NEW c \in Lineage(items, i) PROVE c \in DOMAIN items' /\ items'[c] = items[c]
      <4>1. c \in DOMAIN items /\ items[c].menu # edit[e].menu
        BY <1>1, <2>3 DEF LineOK
      <4>2. c \notin Cascade(items, RowsToDelete(edit[e].menu, kept))
        BY <1>1, <2>3 DEF LineOK, Cascade, RowsToDelete
      <4> QED
        BY <3>1, <4>1, <4>2
    <3> QED
      BY <3>2, ShownStays
  <2> QED
    BY <2>2, <2>3
<1>6. ASSUME NEW e \in Editors, MoveItem(e) PROVE MayVanish(i)
  <2>1. edit[e].at = "moving" /\ edit'[e].at = "idle"
    BY <1>6 DEF MoveItem, End, NoEdit, MenusIInv
  <2>2. CASE edit[e].id \in Lineage(items, i)
    BY <2>1, <2>2 DEF MayVanish
  <2>3. CASE edit[e].id \notin Lineage(items, i)
    <3>1. \A c \in Lineage(items, i) : c \in DOMAIN items' /\ items'[c] = items[c]
      BY <1>1, <1>6, <2>3, MoveItemPreserves DEF LineOK
    <3> QED
      BY <3>1, ShownStays
  <2> QED
    BY <2>2, <2>3
<1>7. CASE UNCHANGED menuVars
  BY <1>2, <1>7 DEF menuVars, ItemsStay
<1>8. ASSUME NEW e \in Editors, MenuRoutes(e) \/ MenuItemRoutes(e) PROVE MayVanish(i)
  BY <1>2, <1>5, <1>6, <1>8, StartPreserves, EditFailsPreserves, AddItemPreserves
     DEF MenuRoutes, MenuItemRoutes
<1> QED
  BY <1>2, <1>3, <1>4, <1>7, <1>8, CreateMenuPreserves DEF MenusNext

(* For any number of menus, items and requests in flight, and trees of any *)
(* depth: what visitors see in a menu stays there through every request    *)
(* that is not about it, an item above it, or its whole menu (deleteMany,  *)
(* the cascade, and the writes of saveAggregate).                          *)
THEOREM MenusShowUntilTouched == MenusSpec => ShownUntilTouched
<1>1. ASSUME MenusIInv, [MenusNext]_menuVars
      PROVE  [\A i \in Shown \ Shown' : MayVanish(i)]_menuVars
  BY <1>1, VanishesOnPurpose
<1> QED
  BY <1>1, MenusStart, MenusKept, PTL DEF MenusSpec, ShownUntilTouched, MayVanish
================================================================================
