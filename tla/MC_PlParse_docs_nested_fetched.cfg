SPECIFICATION Spec
CONSTANTS
  r = r
  a = a
  b = b
  File <- MCFile
  Root = r
  Libraries <- FlatLinks
  Options <- Recursing
  RecurseLevelMax = 2
  TextTypes <- MCTextTypes
  IgnoredSchemes <- NoIgnored
  IgnoredMimes <- NoIgnored
INVARIANT NestedPlaylistsAreFetched
