------------------------------- MODULE PlSave -------------------------------
(***************************************************************************)
(* idol_pl_parser_save(): a playlist is written to a stream that replaces  *)
(* the destination when it is closed.  Every write can fail, and another   *)
(* thread can have schemes ignored while the playlist is written.          *)
(***************************************************************************)
EXTENDS PlFormats, FiniteSets

CONSTANTS
  Playlists,  \* the playlists considered: sequences of entries
  Formats     \* the formats considered

ASSUME PlaylistsAssumption == Playlists \subseteq Seq(Element)
ASSUME FormatsAssumption   == Formats \subseteq Format

VARIABLES
  playlist, format, titled,  \* the arguments of the call
  pc,        \* call, count, open, write, foot or done
  pos,       \* where iter is: the element that is looked at next
  num,       \* the number of the last entry written
  count,     \* the number of entries to announce
  todo,      \* the lines that are to be written before the code goes on
  out,       \* what the stream has taken
  dest,      \* what the destination holds
  refs,      \* the references to the stream
  ignored,   \* ignore_schemes
  result,    \* the return value
  atStart,   \* history: ignore_schemes when the call was made
  kept       \* history: the elements that were written

inputs == <<playlist, format, titled, atStart>>
vars == <<inputs, pc, pos, num, count, todo, out, dest, refs, ignored, result, kept>>

Old == <<L("old", 0, 0)>>

IsIgnored(entry) == SchemeOf(entry.uri) \in ignored

-----------------------------------------------------------------------------
\* Mutant: the entries are counted from nothing.
SaveCountsUp ==
  /\ pc = "call"
  /\ IF playlist = <<>> THEN pc' = "done" /\ result' = "FALSE"
     ELSE pc' = (IF format = "pls" THEN "count" ELSE "open") /\ UNCHANGED result
  /\ count' = IF format = "pls" THEN 0 ELSE Len(playlist)
  /\ UNCHANGED <<inputs, pos, num, todo, out, dest, refs, ignored, kept>>

\* idol_pl_parser_save: an empty playlist is refused.  Only save_pls calls
\* idol_pl_parser_num_entries, save_pla announces the size of the playlist.
Save ==
  /\ pc = "call"
  /\ IF playlist = <<>> THEN pc' = "done" /\ result' = "FALSE"
     ELSE pc' = (IF format = "pls" THEN "count" ELSE "open") /\ UNCHANGED result
  /\ count' = Len(playlist)
  /\ UNCHANGED <<inputs, pos, num, todo, out, dest, refs, ignored, kept>>

\* One turn of the loop of idol_pl_parser_num_entries.
CountEntry ==
  /\ pc = "count"
  /\ IF pos > Len(playlist) THEN pc' = "open" /\ pos' = 1 /\ UNCHANGED count
     ELSE /\ pos' = pos + 1
          /\ count' = IF playlist[pos].uri = Unset \/ IsIgnored(playlist[pos])
                      THEN count - 1 ELSE count
          /\ UNCHANGED pc
  /\ UNCHANGED <<inputs, num, todo, out, dest, refs, ignored, result, kept>>

\* g_file_replace.
Open ==
  /\ pc = "open"
  /\ \/ /\ pc' = "write"
        /\ refs' = 1
        /\ todo' = HeadLines(format, titled, count)
        /\ UNCHANGED result
     \/ /\ pc' = "done"
        /\ result' = "FALSE"
        /\ UNCHANGED <<refs, todo>>
  /\ UNCHANGED <<inputs, pos, num, count, out, dest, ignored, kept>>

\* idol_pl_parser_write_string and idol_pl_parser_write_buffer.
Write ==
  /\ todo # <<>>
  /\ out' = Append(out, Head(todo))
  /\ todo' = Tail(todo)
  /\ UNCHANGED <<inputs, pc, pos, num, count, dest, refs, ignored, result, kept>>

\* The last reference closes the stream: the destination is replaced with what
\* was written so far, or the error of that is lost.
Close(n) ==
  /\ refs' = refs - n
  /\ dest' \in {dest, out}
  /\ pc' = "done"

\* Mutant: the savers drop the stream again, as save_pla does.
WriteFailsTwice ==
  /\ todo # <<>>
  /\ Close(2)
  /\ todo' = <<>>
  /\ result' = "FALSE"
  /\ UNCHANGED <<inputs, pos, num, count, out, ignored, kept>>

\* write_buffer drops the stream; so does, once more, what save_pla does after
\* a record and save_xspf after the end of the list.
WriteFails ==
  /\ todo # <<>>
  /\ Close(IF Head(todo).kind \in {"record", "end"} THEN 2 ELSE 1)
  /\ todo' = <<>>
  /\ result' = "FALSE"
  /\ UNCHANGED <<inputs, pos, num, count, out, ignored, kept>>

Looking == /\ pc = "write"
           /\ todo = <<>>
           /\ pos <= Len(playlist)

\* Only save_pla does not ask whether the scheme is ignored.
Skipped(entry) == entry.uri # Unset => (format # "pla" /\ IsIgnored(entry))

\* Mutant: a skipped element uses up a number.
SkipEntryNumbered ==
  /\ Looking
  /\ Skipped(playlist[pos])
  /\ pos' = pos + 1
  /\ num' = num + 1
  /\ UNCHANGED <<inputs, pc, count, todo, out, dest, refs, ignored, result, kept>>

\* Mutant: iter_next is called again for a skipped element.
SkipEntryAndNext ==
  /\ Looking
  /\ Skipped(playlist[pos])
  /\ pos' = pos + 2
  /\ UNCHANGED <<inputs, pc, num, count, todo, out, dest, refs, ignored, result, kept>>

\* Mutant: the branch for a skipped element of save_xspf lacks its iter_next.
SkipEntryStays ==
  /\ Looking
  /\ Skipped(playlist[pos])
  /\ UNCHANGED vars

SkipEntry ==
  /\ Looking
  /\ Skipped(playlist[pos])
  /\ pos' = pos + 1
  /\ UNCHANGED <<inputs, pc, num, count, todo, out, dest, refs, ignored, result, kept>>

\* A PLA can only hold paths.
Convertible(entry) == format = "pla" => SchemeOf(entry.uri) = "file"

SaveEntry ==
  /\ Looking
  /\ ~Skipped(playlist[pos]) /\ Convertible(playlist[pos])
  /\ pos' = pos + 1
  /\ num' = num + 1
  /\ todo' = EntryLines(format, playlist[pos], pos, num + 1)
  /\ kept' = Append(kept, pos)
  /\ UNCHANGED <<inputs, pc, count, out, dest, refs, ignored, result>>

\* g_filename_from_uri fails, save_pla leaves its loop and drops the stream.
ConversionFails ==
  /\ Looking
  /\ ~Skipped(playlist[pos]) /\ ~Convertible(playlist[pos])
  /\ Close(1)
  /\ result' = "FALSE"
  /\ UNCHANGED <<inputs, pos, num, count, todo, out, ignored, kept>>

SaveFoot ==
  /\ pc = "write" /\ todo = <<>> /\ pos > Len(playlist)
  /\ pc' = "foot"
  /\ todo' = FootLines(format)
  /\ UNCHANGED <<inputs, pos, num, count, out, dest, refs, ignored, result, kept>>

\* The reference is dropped, and TRUE returned whatever became of the stream.
SaveReturns ==
  /\ pc = "foot" /\ todo = <<>>
  /\ Close(1)
  /\ result' = "TRUE"
  /\ UNCHANGED <<inputs, pos, num, count, todo, out, ignored, kept>>

\* idol_pl_parser_add_ignored_scheme, in another thread.
AddIgnoredScheme ==
  /\ pc # "done"
  /\ \E s \in {"file", "web", "smb"} \ ignored : ignored' = ignored \cup {s}
  /\ UNCHANGED <<inputs, pc, pos, num, count, todo, out, dest, refs, result, kept>>

Saver == \/ Save \/ CountEntry \/ Open \/ Write \/ WriteFails \/ SkipEntry
         \/ SaveEntry \/ ConversionFails \/ SaveFoot \/ SaveReturns

Terminated == pc = "done" /\ UNCHANGED vars

Init ==
  /\ playlist \in Playlists /\ format \in Formats /\ titled \in BOOLEAN
  /\ pc = "call" /\ pos = 1 /\ num = 0 /\ count = 0
  /\ todo = <<>> /\ out = <<>> /\ dest = Old
  /\ refs = 0
  /\ ignored \in {{}, {"web"}}
  /\ atStart = ignored
  /\ result = "none"
  /\ kept = <<>>

Next == Saver \/ AddIgnoredScheme \/ Terminated

\* The saver runs in the thread of its caller and never waits for another.
Spec == Init /\ [][Next]_vars /\ WF_vars(Saver)

-----------------------------------------------------------------------------
TypeOK ==
  /\ playlist \in Seq(Element) /\ format \in Format /\ titled \in BOOLEAN
  /\ pc \in {"call", "count", "open", "write", "foot", "done"}
  /\ pos \in 1 .. Len(playlist) + 1 /\ num \in 0 .. Len(playlist)
  /\ count \in 0 .. Len(playlist)
  /\ todo \in Seq(Line) /\ out \in Seq(Line) /\ dest \in Seq(Line)
  /\ refs \in Int
  /\ ignored \subseteq {"file", "web", "smb"} /\ atStart \subseteq ignored
  /\ result \in {"none", "TRUE", "FALSE"}
  /\ kept \in Seq(Nat)

\* A save that claims success has written a well-formed file: its entries are
\* numbered without a gap and every title stands with its own entry.  After a
\* failure the destination holds the old file or a beginning of the new one.  A
\* PLS announces at least the entries it has, and exactly those unless a scheme
\* was ignored between the count and the writing.
WellFormed ==
  LET whole == Written(format, playlist, titled, count, kept)
  IN  /\ result = "TRUE" => out = whole
      /\ dest # Old => dest = out /\ IsPrefix(out, whole)
      /\ (format = "pls" /\ result = "TRUE") =>
           /\ Len(kept) <= count
           /\ ignored = atStart => Len(kept) = count

\* A successful save has every entry that could be saved, in the order of the
\* playlist: what has a URI whose scheme nobody had ignored in the meantime, and
\* nothing that was ignored from the start.
NothingLost ==
  result = "TRUE" =>
    /\ \A m, n \in DOMAIN kept : m < n => kept[m] < kept[n]
    /\ \A i \in DOMAIN playlist :
         LET entry == playlist[i]
             in    == \E n \in DOMAIN kept : kept[n] = i
         IN  IF entry.uri = Unset THEN ~in
             ELSE /\ (format = "pla" \/ SchemeOf(entry.uri) \notin ignored) => in
                  /\ (format # "pla" /\ SchemeOf(entry.uri) \in atStart) => ~in

\* No way out of a saver leaks the stream, and save_pls and save_m3u drop it
\* no more than once.
StreamReleased ==
  pc = "done" => /\ refs <= 0
                 /\ format \in {"pls", "m3u", "m3u dos"} => refs = 0

\* Every save comes to an end, other threads or not.
SaveEnds == <>(pc = "done")

=============================================================================
