---------------------------------- MODULE MCSite ----------------------------------
(* The public site and what else it is made of, post categories, settings and    *)
(* languages, and the caches before them, side by side: a behaviour is about one. *)
EXTENDS Site, Categories, Settings, Languages, ResponseCache, TLC

CONSTANTS news, plain, pagesRoutes, menusRoutes
MCFeeds == {<<pagesRoutes, pagesRoutes>>, <<pagesRoutes, menusRoutes>>, <<menusRoutes, menusRoutes>>}
MCTemplates == {[slug |-> plain, postType |-> None], [slug |-> news, postType |-> None],
                [slug |-> plain, postType |-> news]}

VARIABLE subject  \* the part that the behaviour is about, once it has begun
Is(part) == subject \in {None, part} /\ subject' = part

MCInit == SiteInit /\ CategoriesInit /\ SettingsInit /\ LanguagesInit /\ AnswersInit /\ subject = None
MCNext ==
  \/ Is("site") /\ SiteNext /\ UNCHANGED <<categoryVars, settingVars, languageVars, answerVars>>
  \/ Is("categories") /\ CategoriesNext /\ UNCHANGED <<siteVars, settingVars, languageVars, answerVars>>
  \/ Is("settings") /\ SettingsNext /\ UNCHANGED <<siteVars, categoryVars, languageVars, answerVars>>
  \/ Is("languages") /\ LanguagesNext /\ UNCHANGED <<siteVars, categoryVars, settingVars, answerVars>>
  \/ Is("answers") /\ AnswersNext /\ UNCHANGED <<siteVars, categoryVars, settingVars, languageVars>>
MCSpec == MCInit /\ [][MCNext]_<<siteVars, categoryVars, settingVars, languageVars, answerVars, subject>>

-----------------------------------------------------------------------------
(* Two pages and a post, all made before the visit.                        *)
SiteBound ==
  /\ nextPage > 1 => nextPost = 2
  /\ visit = NoVisit \/ (nextPage = 3 /\ nextPost = 2)
  /\ \A p \in DOMAIN posts : posts[p].published /\ news \notin SlugsOf(posts[p])

(* Once two moves have crossed the property says no more.                  *)
CategoriesBound == ~undermined

(* One of the two caches at a time, and two requests in flight.            *)
UsesPublic == DOMAIN publicCache # {} \/ \E r \in Readers : reading[r].cache = "public"
UsesLayout == DOMAIN layoutCache # {} \/ \E r \in Readers : reading[r].cache = "layout"
InWork == Cardinality(toInvalidate) + Cardinality({r \in Readers : reading[r].cache # None})
SettingsBound ==
  /\ InWork <= 2
  /\ IF UsesPublic THEN ~UsesLayout /\ time <= 1 ELSE Cardinality(toInvalidate) <= 1
  /\ nextSetting = 1 => time = 0

(* What any cache serves has caught up with the tables, but for the         *)
(* crossings and the time to live that SettingsCatchUp and AnswersCatchUp   *)
(* name.                                                                    *)
CachesCatchUp == SettingsCatchUp /\ AnswersCatchUp

Bound == SiteBound /\ CategoriesBound /\ SettingsBound

Symmetry == Permutations(CategorySlugs) \cup Permutations(CategoryEditors)
=============================================================================
