SPECIFICATION MCSpec
CONSTANTS
  PageEditors = {e}
  PostEditors = {e}
  Langs = {ka, en}
  DefaultLang = ka
  Slugs = {news, a, b}
  news = news
  plain = plain
  None = None
  Templates <- MCTemplates
  PostTypes = {news}
  MaxPages = 2
  MaxTexts = 0
  MaxPosts = 1
  MaxPostTexts = 0
  CategoryEditors = {e1, e2}
  CategorySlugs = {c1, c2, c3}
  MaxCategories = 3
  SettingEditors = {e1, e2}
  Readers = {r1, r2}
  SettingLangs = {ka}
  Values = {v1}
  TimeToLive = 1
  MaxTime = 2
  MaxSettings = 1
  LanguageEditors = {e1, e2}
  MaxLanguages = 2
  pagesRoutes = pagesRoutes
  menusRoutes = menusRoutes
  Controllers = {pagesRoutes, menusRoutes}
  Feeds <- MCFeeds
  Askers = {r1, r2}
  Changers = {e1, e2}
  CacheTTL = 1
  MaxEditions = 2
  MaxClock = 2
SYMMETRY Symmetry
CONSTRAINT Bound
CHECK_DEADLOCK FALSE
INVARIANTS RedirectsSettle PrintedPathsShow TreeLosesByCrossingOnly CachesCatchUp OneDefault
