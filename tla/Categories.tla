------------------------------- MODULE Categories -------------------------------
(***************************************************************************)
(* The tree of post categories (PostCategoryService).  Before a parent is  *)
(* written the service walks from it to the root, one read after another,  *)
(* to see that it is no descendant; nothing holds the tree still meanwhile.*)
(* Translations, the flag isActive and the sort order are left out.        *)
(***************************************************************************)
EXTENDS Tables

CONSTANTS
  CategoryEditors, \* requests about categories in flight
  CategorySlugs,
  MaxCategories    \* bound: categories ever made

ASSUME CategoryBounds == MaxCategories \in Nat

VARIABLES
  categories,   \* id -> slug, parent (0: none)
  nextCategory,
  categoryEdit, \* what each request asks for, and how far up its walk is
  undermined    \* history: a parent was written under somebody's walk, who then wrote too

categoryVars == <<categories, nextCategory, categoryEdit, undermined>>

NoCategoryEdit == [at |-> "idle", id |-> 0, here |-> 0, dto |-> None, crossed |-> FALSE]

CategoriesInit ==
  /\ categories = << >> /\ nextCategory = 1
  /\ categoryEdit = [e \in CategoryEditors |-> NoCategoryEdit]
  /\ undermined = FALSE

-----------------------------------------------------------------------------
SlugExists(s, except) == \E c \in DOMAIN categories \ {except} : categories[c].slug = s

(* POST: the parent has to exist, and the foreign key sees to it that it   *)
(* still does at the write.                                                *)
CreatePostCategoryAggregateDto ==
  [slug : CategorySlugs, parent : DOMAIN categories \cup {0}]

CreateCategory(dto) ==
  /\ nextCategory <= MaxCategories
  /\ ~SlugExists(dto.slug, 0)
  /\ categories' = Put(categories, nextCategory, dto)
  /\ nextCategory' = nextCategory + 1
  /\ UNCHANGED <<categoryEdit, undermined>>

(* PUT of any fields.  A parent other than none, and other than the        *)
(* category itself, is walked up from.                                     *)
UpdatePostCategoryAggregateDto ==
  [slug : CategorySlugs \cup {None}, parent : DOMAIN categories \cup {0, None}]

StartUpdateCategory(e, c, dto) ==
  /\ categoryEdit[e].at = "idle"
  /\ dto.slug = None \/ ~SlugExists(dto.slug, c)
  /\ dto.parent # c
  /\ categoryEdit' = [categoryEdit EXCEPT ![e] =
       [NoCategoryEdit EXCEPT
          !.at = IF dto.parent \in {0, None} THEN "writing" ELSE "walking",
          !.id = c, !.here = IF dto.parent = None THEN 0 ELSE dto.parent, !.dto = dto]]
  /\ UNCHANGED <<categories, nextCategory, undermined>>

(* isDescendantOf: one step up, which may show the category to be moved    *)
(* (and the request is refused), or the root, or another step to take.     *)
NeverBelow(above, c) == FALSE
Below(above, c) == above = c

WalkUp(e) ==
  LET here == categoryEdit[e].here
      above == IF here \in DOMAIN categories THEN categories[here].parent ELSE 0
  IN
    /\ categoryEdit[e].at = "walking"
    /\ categoryEdit' = [categoryEdit EXCEPT ![e] =
         IF above = 0 THEN [@ EXCEPT !.at = "writing"]
         ELSE IF Below(above, categoryEdit[e].id) THEN NoCategoryEdit
         ELSE [@ EXCEPT !.here = above]]
    /\ UNCHANGED <<categories, nextCategory, undermined>>

(* updateAggregate.  Every other request that is on its walk, or past it,  *)
(* has been crossed if a parent is written.                                *)
WriteCategory(e) ==
  LET c == categoryEdit[e].id  dto == categoryEdit[e].dto
      moves == dto.parent # None
  IN
    /\ categoryEdit[e].at = "writing"
    /\ c \in DOMAIN categories
    /\ dto.slug = None \/ ~SlugExists(dto.slug, c)
    /\ moves => dto.parent \in DOMAIN categories \cup {0}
    /\ categories' = [categories EXCEPT
         ![c].slug = Given(dto.slug, @), ![c].parent = Given(dto.parent, @)]
    /\ undermined' = (undermined \/ (moves /\ categoryEdit[e].crossed))
    /\ categoryEdit' = [o \in CategoryEditors |->
         IF o = e THEN NoCategoryEdit
         ELSE [categoryEdit[o] EXCEPT !.crossed = @ \/ (moves /\ categoryEdit[o].at # "idle")]]
    /\ UNCHANGED nextCategory

UpdateCategoryFails(e) ==
  /\ categoryEdit[e].at = "writing"
  /\ LET c == categoryEdit[e].id  dto == categoryEdit[e].dto IN
       \/ c \notin DOMAIN categories
       \/ dto.slug # None /\ SlugExists(dto.slug, c)
       \/ dto.parent \notin DOMAIN categories \cup {0, None}
  /\ categoryEdit' = [categoryEdit EXCEPT ![e] = NoCategoryEdit]
  /\ UNCHANGED <<categories, nextCategory, undermined>>

(* The children of a deleted category become roots, in one transaction.    *)
Orphaned(c, row) == row
Freed(c, row) == IF row.parent = c THEN [row EXCEPT !.parent = 0] ELSE row

DeleteCategory(c) ==
  /\ categories' = [d \in DOMAIN categories \ {c} |-> Freed(c, categories[d])]
  /\ UNCHANGED <<nextCategory, categoryEdit, undermined>>

CategoryRoutes(e) ==
  \/ \E c \in DOMAIN categories : \E dto \in UpdatePostCategoryAggregateDto :
       StartUpdateCategory(e, c, dto)
  \/ WalkUp(e) \/ WriteCategory(e) \/ UpdateCategoryFails(e)

CategoriesNext ==
  \/ \E dto \in CreatePostCategoryAggregateDto : CreateCategory(dto)
  \/ \E e \in CategoryEditors : CategoryRoutes(e)
  \/ \E c \in DOMAIN categories : DeleteCategory(c)

CategoriesSpec == CategoriesInit /\ [][CategoriesNext]_categoryVars

-----------------------------------------------------------------------------
(* findAllTree: what hangs from no parent, or from what is in the tree.    *)
BuildTree(S) ==
  LET levels[n \in 0 .. MaxCategories] ==
        IF n = 0 THEN {}
        ELSE {c \in S : categories[c].parent = 0 \/ categories[c].parent \in levels[n - 1]}
  IN  levels[MaxCategories]

(* Every category is in the tree, unless two moves have crossed: each saw  *)
(* a tree without a circle, and together they made one, which hangs from   *)
(* no root (validateParent, post-category.service.ts:141-162).             *)
TreeLosesByCrossingOnly ==
  undermined \/ BuildTree(DOMAIN categories) = DOMAIN categories
=================================================================================
