SPECIFICATION MCSpec
CONSTANTS
  Editors = {e1, e2}
  PageEditors = {e1, e2}
  PostEditors = {e1, e2}
  Langs = {ka}
  Slugs = {a, b}
  None = None
  Templates = {plain}
  PostTypes = {news}
  MaxMenus = 2
  MaxItems = 3
  MaxListed = 2
  MaxPages = 2
  MaxTexts = 1
  MaxPosts = 2
  MaxPostTexts = 1
SYMMETRY Symmetry
CONSTRAINT Bound
CHECK_DEADLOCK FALSE
INVARIANT PageSlugsFindable
PROPERTIES ShownUntilTouched ReplacedTextsKept PublishedOnPurpose LinksStayRight PostLosesByCrossingOnly
