---------------------------- MODULE PlSavedParse ----------------------------
(***************************************************************************)
(* What idol_pl_parser_save() wrote, read by idol_pl_parser_parse(): the   *)
(* lines PlFormats lays out become the document the handlers of PlParse    *)
(* see, and the entries the parser reports are compared with the playlist  *)
(* that was saved.                                                         *)
(***************************************************************************)
EXTENDS PlParse, PlFormats

CONSTANTS
  Playlists,  \* the playlists that are saved: sequences of elements
  Formats,    \* the formats they are saved in
  Elsewhere   \* any location that was not meant

ASSUME FilesAssumption == File = {Root, Elsewhere} \cup Uri

VARIABLE saved  \* the arguments of the call of idol_pl_parser_save()

-----------------------------------------------------------------------------
(***************************************************************************)
(* The lines as the handlers take them apart.                              *)
(***************************************************************************)
\* The location a reader makes of the line for u: save_m3u writes a share with
\* backslashes for DOS, and add_m3u forgets to put smb: in front again; save_xspf
\* does not escape a path, and idol_pl_parser_resolve_uri takes what follows
\* its "?" for a query.
ReadUri(fmt, u) ==
  IF \/ fmt = "m3u dos" /\ PlaceOf[u] = "smb"
     \/ fmt = "xspf" /\ PlaceOf[u] = "query"
  THEN Elsewhere ELSE u

\* Relative paths of an M3U are reported at once, and those that begin with a
\* "#" are comments.
M3uHow(fmt, u) == IF PlaceOf[u] = "hash" THEN "skip"
                  ELSE IF IsBelow(u) \/ ReadUri(fmt, u) = Elsewhere THEN "direct"
                  ELSE "nested"

MakeItem(how, u, hasTitle) == [how |-> how, to |-> u, titled |-> hasTitle]

\* The lines that are items of the document, in document order: an M3U has one
\* per line, the others one per entry.
ItemLines(fmt, lines) ==
  IF fmt \in {"m3u", "m3u dos"} THEN lines
  ELSE LET announced == lines[1].num
           Starts(l)  == l.kind \in {"file", "location", "record"}
           starts     == SelectSeq(lines, Starts)
       IN  IF fmt = "pla" /\ Len(starts) > announced
           THEN SubSeq(starts, 1, announced) ELSE starts

HasTitle(lines, i) == \E n \in DOMAIN lines : lines[n] \in [kind : {"title"}, of : {i}, num : Nat]

ItemOf(fmt, playlist, lines, l) ==
  LET u == playlist[l.of].uri
  IN  IF l.of = 0 THEN MakeItem("skip", Root, FALSE)
      ELSE IF l.kind = "extinf" THEN MakeItem("extinf", Root, FALSE)
      ELSE MakeItem(IF l.kind = "path" THEN M3uHow(fmt, u)
                    ELSE IF l.kind = "file" THEN "nested" ELSE "direct",
                    ReadUri(fmt, u), HasTitle(lines, l.of))

\* The elements a saver keeps when no scheme is ignored.
Kept(playlist) ==
  LET HasUri(i) == playlist[i].uri # Unset
  IN  SelectSeq([i \in DOMAIN playlist |-> i], HasUri)

SavedLines(s) ==
  Written(s.format, s.playlist, s.titled, Len(s.playlist), Kept(s.playlist))

SavedDocument(s) ==
  LET lines == SavedLines(s)
      items == ItemLines(s.format, lines)
      type  == IF s.format = "m3u dos" THEN "m3u" ELSE s.format
  IN  [scheme |-> "file", name |-> type, data |-> type, readable |-> TRUE,
       form |-> type, heads |-> IF s.titled /\ s.format \in {"pls", "pla"} THEN 1 ELSE 0,
       named |-> TRUE,
       items |-> [n \in DOMAIN items |-> ItemOf(s.format, s.playlist, lines, items[n])]]

\* A video, wherever it is.
Video(u) == [scheme |-> IF u \in Uri /\ SchemeOf(u) = "file" THEN "file" ELSE "http",
             name |-> "media", data |-> "media", readable |-> TRUE, form |-> "other",
             heads |-> 0, named |-> FALSE, items |-> <<>>]

LibraryOf(s) == [f \in File |-> IF f = Root THEN SavedDocument(s) ELSE Video(f)]

\* The saves that succeed: a PLA can only hold paths.
Saves ==
  {s \in [format : Formats, playlist : Playlists, titled : BOOLEAN] :
     /\ s.playlist # <<>>
     /\ s.format = "pla" => \A i \in DOMAIN s.playlist :
          s.playlist[i].uri # Unset => SchemeOf(s.playlist[i].uri) = "file"}

SavedLibraries == {LibraryOf(s) : s \in Saves}

SavedInit == saved \in Saves /\ docs = LibraryOf(saved) /\ Fresh
SavedNext == Next /\ UNCHANGED saved
SavedSpec == SavedInit /\ [][SavedNext]_<<vars, saved>> /\ WF_<<vars, saved>>(SavedNext)

-----------------------------------------------------------------------------
(***************************************************************************)
(* What comes back.                                                        *)
(***************************************************************************)
\* The entries reported, but for the playlist itself: a PLA parsed with the
\* fallback on adds itself.
Reported ==
  LET OfPlaylist(e) == e.sig = "entry" /\ e.uri # Root
  IN  SelectSeq(events, OfPlaylist)

IsM3u == saved.format \in {"m3u", "m3u dos"}

\* The elements a reader can find again, and those it does not take for a
\* comment.
Findable ==
  LET Found(i) == ~(IsM3u /\ PlaceOf[saved.playlist[i].uri] = "hash")
  IN  SelectSeq(Kept(saved.playlist), Found)

\* add_m3u leaves an entry that is nested to report itself when the fallback is
\* on, and then nobody knows its title.
KeepsTitle(i) ==
  LET u == saved.playlist[i].uri
  IN  \/ saved.format \in {"pls", "xspf"}
      \/ IsM3u /\ (M3uHow(saved.format, u) = "direct" \/ ~opts.recurse \/ ~opts.fallback)

\* A parse of a saved playlist reports its elements, all of them, once and in
\* order, whichever of the formats it was saved in, with and without recurse and
\* fallback (force and disable-unsafe are off); and every element that had a
\* title comes back with it, and with no other, unless its format or the way it is
\* reported has no place for titles.
EntriesReadBack ==
  LET lines == ItemLines(saved.format, SavedLines(saved))
  IN  pc = "done" =>
        /\ Len(Reported) = Len(Findable)
        /\ \A n \in DOMAIN Findable :
             LET i == Findable[n]
             IN  /\ Reported[n].uri = ReadUri(saved.format, saved.playlist[i].uri)
                 /\ Findable = Kept(saved.playlist) =>
                      IF saved.playlist[i].titled /\ KeepsTitle(i)
                      THEN Reported[n].title > 0 /\ lines[Reported[n].title].of = i
                      ELSE Reported[n].title = 0

=============================================================================
