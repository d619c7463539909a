\* The page stops when its requests are used up.
SPECIFICATION GallerySpec
CHECK_DEADLOCK FALSE
CONSTANTS
  MaxLimit = 2
  HandlerPageSize = 4
  MaxPageSize = 4
  a = a
  b = b
  ab = ab
  blank = blank
  NoText = blank
  Parts <- MCParts
  KnownTags = {a, b}
  Ids = {1, 2, 3}
  Stored = {1, 2}
  TagsOf <- MCTagsOf
  URLFilters <- MCURLFilters
  MaxRequests = 4
INVARIANTS ListIsNewestMatching PagesCover SettledPageShowsItsFilters
