SPECIFICATION SavedSpec
CONSTANTS
  File <- MCFile
  Root = root
  Libraries <- SavedLibraries
  Options <- MCOptions
  RecurseLevelMax = 3
  TextTypes <- MCTextTypes
  IgnoredSchemes <- NoIgnored
  IgnoredMimes <- NoIgnored
  Uri <- MCUri
  PlaceOf <- MCPlaceOf
  Unset = Unset
  Playlists <- MCPlaylists
  Formats = {"pls", "m3u", "m3u dos", "xspf", "pla"}
  Elsewhere = elsewhere
  root = root
  below = below
  hash = hash
  query = query
  local = local
  web = web
  smb = smb
  elsewhere = elsewhere
INVARIANTS EntriesReadBack
