SPECIFICATION Spec
CONSTANTS
  Uri <- MCUri
  PlaceOf <- MCPlaceOf
  Unset = Unset
  Playlists <- MCPlaylists
  Formats = {"pls", "m3u", "xspf", "pla"}
  song = song
  page = page
  share = share
INVARIANTS TypeOK WellFormed NothingLost StreamReleased
PROPERTY SaveEnds
