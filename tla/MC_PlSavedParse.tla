--------------------------- MODULE MC_PlSavedParse ---------------------------
(***************************************************************************)
(* Playlists of up to three elements, one location of every kind.          *)
(***************************************************************************)
EXTENDS PlSavedParse

CONSTANTS root, below, hash, query, local, web, smb, elsewhere

MCUri  == {below, hash, query, local, web, smb}
MCFile == MCUri \cup {root, elsewhere}
MCPlaceOf == [u \in MCUri |->
  IF u = below THEN "below" ELSE IF u = hash THEN "hash" ELSE IF u = query THEN "query"
  ELSE IF u = local THEN "local" ELSE IF u = web THEN "web" ELSE "smb"]

MCTextTypes == {"text", "m3u", "xspf"}
MCOptions == [recurse : BOOLEAN, force : {FALSE}, disable_unsafe : {FALSE},
              fallback : BOOLEAN]
NoIgnored == {}

\* Any two elements, and some three of them.
MCElements  == [uri : MCUri, titled : BOOLEAN] \cup [uri : {Unset}, titled : {FALSE}]
MCPlaylists == UNION {[1 .. n -> MCElements] : n \in 1 .. 2}
  \cup {<<x, [uri |-> web, titled |-> FALSE], [uri |-> below, titled |-> TRUE]>> :
          x \in MCElements}

=============================================================================
