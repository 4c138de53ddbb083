------------------------------ MODULE MC_PlSave ------------------------------
(***************************************************************************)
(* Short playlists of files, web locations and elements without a URI.     *)
(***************************************************************************)
EXTENDS PlSave

CONSTANTS song, page, share

MCUri == {song, page, share}
MCPlaceOf == [u \in MCUri |-> IF u = song THEN "below" ELSE IF u = page THEN "web" ELSE "smb"]

Files  == [uri : {song}, titled : BOOLEAN]
Others == [uri : {page, share, Unset}, titled : {FALSE}]

MCPlaylists == UNION {[1 .. n -> Files \cup Others] : n \in 0 .. 3}
WebPlaylists == {<<[uri |-> page, titled |-> TRUE]>>}

=============================================================================
