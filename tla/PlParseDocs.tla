----------------------------- MODULE PlParseDocs -----------------------------
(***************************************************************************)
(* What the API documentation says of a parse, read literally.  The code   *)
(* does something else; the run named docs_nested_fetched shows how.       *)
(***************************************************************************)
EXTENDS PlParse

\* "If %TRUE, the parser will recursively fetch playlists linked to by the
\* current one" (recurse, idol-pl-parser.c): a playlist is only refused for
\* being nested too deep, not for what was met before it.
NestedPlaylistsAreFetched ==
  (pc = "enter" /\ opts.recurse /\ Len(stack) <= RecurseLevelMax)
     => level <= RecurseLevelMax

=============================================================================
