------------------------------ MODULE PlFormats ------------------------------
(***************************************************************************)
(* The playlist formats idol_pl_parser_save() writes, as the lines (or the *)
(* elements, or the records) the savers write one after the other.  A line *)
(* says what it is and which entry of the playlist it is about, not how it *)
(* is spelt; what does depend on the spelling is where an entry is.        *)
(***************************************************************************)
EXTENDS Integers, SequencesExt

CONSTANTS
  Uri,      \* the locations of the entries
  PlaceOf,  \* where they are, see Place
  Unset     \* the URI of an entry that was never given one

\* below: in the directory of the saved playlist or deeper, so that
\* idol_pl_parser_relative finds a relative path; hash and query are such
\* paths that begin with a "#" or contain a "?".
Place == {"below", "hash", "query", "local", "web", "smb"}
IsBelow(u) == PlaceOf[u] \in {"below", "hash", "query"}
SchemeOf(u) == IF PlaceOf[u] \in {"web", "smb"} THEN PlaceOf[u] ELSE "file"

ASSUME PlaceAssumption == PlaceOf \in [Uri -> Place]
ASSUME UnsetAssumption == Unset \notin Uri

Format  == {"pls", "m3u", "m3u dos", "xspf", "pla"}
Element == [uri : Uri \cup {Unset}, titled : BOOLEAN]

Line == [kind : {"magic", "list title", "count", "file", "title", "extinf", "path",
                 "location", "track end", "end", "record", "old"},
         of : Nat, num : Nat]
L(kind, of, num) == [kind |-> kind, of |-> of, num |-> num]

\* Mutant: a PLA announces one entry too few.
HeadLinesShort(format, titled, count) ==
  IF format = "pls"
  THEN <<L("magic", 0, 0)>> \o (IF titled THEN <<L("list title", 0, 0)>> ELSE <<>>)
         \o <<L("count", 0, count)>>
  ELSE IF format = "pla" THEN <<L(IF titled THEN "list title" ELSE "magic", 0, count - 1)>>
  ELSE <<L("magic", 0, 0)>>

\* What the savers write before the entries; count is the number of entries
\* they announce, titled whether the playlist has a title.
HeadLines(format, titled, count) ==
  IF format = "pls"
  THEN <<L("magic", 0, 0)>> \o (IF titled THEN <<L("list title", 0, 0)>> ELSE <<>>)
         \o <<L("count", 0, count)>>
  ELSE IF format = "pla" THEN <<L(IF titled THEN "list title" ELSE "magic", 0, count)>>
  ELSE <<L("magic", 0, 0)>>

\* What they write for entry i, the num-th one they keep.
EntryLines(format, entry, i, num) ==
  IF format = "pls"
  THEN <<L("file", i, num)>> \o (IF entry.titled THEN <<L("title", i, num)>> ELSE <<>>)
  ELSE IF format = "pla" THEN <<L("record", i, 0)>>
  ELSE IF format = "xspf"
  THEN <<L("location", i, 0)>> \o (IF entry.titled THEN <<L("title", i, 0)>> ELSE <<>>)
         \o <<L("track end", i, 0)>>
  ELSE (IF entry.titled THEN <<L("extinf", i, 0)>> ELSE <<>>) \o <<L("path", i, 0)>>

FootLines(format) == IF format = "xspf" THEN <<L("end", 0, 0)>> ELSE <<>>

\* The whole file, when the entries kept are those at the positions kept.
Written(format, playlist, titled, count, kept) ==
  HeadLines(format, titled, count)
    \o FlattenSeq([n \in DOMAIN kept |->
                     EntryLines(format, playlist[kept[n]], kept[n], n)])
    \o FootLines(format)

=============================================================================
