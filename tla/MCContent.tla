-------------------------------- MODULE MCContent --------------------------------
(* Menus, pages and posts side by side: a behaviour is about one of them.        *)
EXTENDS Menus, Posts, TLC

MCInit == MenusInit /\ PagesInit /\ PostsInit
MCNext ==
  \/ MenusNext /\ UNCHANGED <<pageVars, postVars>>
  \/ PagesNext /\ UNCHANGED <<menuVars, postVars>>
  \/ PostsNext /\ UNCHANGED menuVars
MCSpec == MCInit /\ [][MCNext]_<<menuVars, pageVars, postVars>>

OneOfThem == Cardinality({n \in 1 .. 3 : <<nextMenu, nextPage, nextPost>>[n] # 1}) <= 1

MenusBound ==
  /\ nextItem + nextMenu <= 6
  /\ Cardinality({e \in Editors : edit[e].at # "idle"}) = 2 =>
       /\ nextItem + nextMenu <= 5
       /\ Cardinality({e \in Editors : edit[e].at = "saving" /\ ~edit[e].titleOnly}) <= 1

PagesInFlight == Cardinality({e \in PageEditors : pageEdit[e].at # "idle"})
PageVersions(n) == \A p \in DOMAIN pages : Cardinality(versions[p]) <= n
NoPageTrashed == \A p \in DOMAIN pages : ~pages[p].trashed
PagesBound ==
  /\ PageVersions(2)
  /\ PagesInFlight = 2 => nextPage = 2 /\ PageVersions(1) /\ NoPageTrashed
  /\ nextPage = 3 => PageVersions(1) /\ nextText = 1 /\
                     (PagesInFlight = 1 => NoPageTrashed /\ DOMAIN links = {})

PostsInFlight == Cardinality({e \in PostEditors : postEdit[e].at # "idle"})
PostVersions(n) == \A p \in DOMAIN posts : Cardinality(postVersions[p]) <= n
NoPostTrashed == \A p \in DOMAIN posts : ~posts[p].trashed
PostsBound ==
  /\ PostVersions(3)
  /\ PostsInFlight = 2 => nextPost = 2 /\ PostVersions(2) /\ NoPostTrashed
  /\ nextPost = 3 => PostVersions(1) /\ nextPostText = 1 /\ (PostsInFlight = 1 => NoPostTrashed)

Bound == OneOfThem /\ MenusBound /\ PagesBound /\ PostsBound
Symmetry == Permutations(Editors) \cup Permutations(Slugs)
=============================================================================
