------------------------------- MODULE PlParse -------------------------------
(***************************************************************************)
(* One synchronous parse: idol_pl_parser_parse_with_base(), the recursive  *)
(* dispatcher idol_pl_parser_parse_internal() and the playlist handlers it *)
(* calls, over a library of documents that may refer to each other in any  *)
(* way, cycles included.                                                   *)
(*                                                                         *)
(* The C call stack is the variable stack: one frame per handler that is   *)
(* looping over the items of its playlist.  parse_data, the structure all  *)
(* the nested calls share by pointer, is level and fallback (mutable) and  *)
(* opts (the options copied when the parse started).  Handlers that never  *)
(* call back into the dispatcher run in the step that calls them.          *)
(***************************************************************************)
EXTENDS Integers, Sequences, FiniteSets

CONSTANTS
  File,             \* the locations playlists can refer to
  Root,             \* the location passed to idol_pl_parser_parse()
  Libraries,        \* the sets of documents considered: functions on File
  Options,          \* the option records considered
  RecurseLevelMax,  \* RECURSE_LEVEL_MAX
  TextTypes,        \* MIME classes that g_content_type_is_a "text/plain"
  IgnoredSchemes,   \* ignore_schemes, see idol_pl_parser_add_ignored_scheme()
  IgnoredMimes      \* ignore_mimetypes

-----------------------------------------------------------------------------
(***************************************************************************)
(* MIME classes, the handler tables and the documents.                     *)
(***************************************************************************)
SafeTypes   == {"m3u", "pls", "smil", "asx", "xspf", "urilist", "gvp", "pla",
                "atom", "rss", "opml"}
UnsafeTypes == {"desktop", "iso", "cue", "directory", "block"}
SpecialTypes == SafeTypes \cup UnsafeTypes

\* Types that may be a playlist or a video.  "asxdual" is audio/x-ms-asx.
DualTypes == {"real", "text", "php", "asxdual", "asf", "quicktime", "xml"}

\* "mpeg" is audio/mpeg, "unknown" application/octet-stream, "empty" the type
\* given to an empty file, "media" any other type and "none" a NULL type.
Mime == SpecialTypes \cup DualTypes
          \cup {"mpeg", "image", "archive", "media", "unknown", "empty", "none"}

\* ignore_types: image/*, text/plain, rar, zip and trash.
IgnoreTypes == TextTypes \cup {"image", "archive"}

\* The "func" column of special_types and dual_types.
HandlerOf == [m \in SpecialTypes \cup DualTypes |->
                CASE m \in {"urilist", "real", "text"} -> "ra"
                  [] m = "asxdual"                     -> "asx"
                  [] m = "xml"                         -> "feedxml"
                  [] m = "php"                         -> "none"
                  [] OTHER                             -> m]

GetFunctionForMimetype(m) ==
  IF m \in SpecialTypes \cup DualTypes THEN HandlerOf[m] ELSE "none"

Result == {"UNHANDLED", "ERROR", "SUCCESS", "IGNORED"}

\* "stream" is mms, rtsp, rtmp, icy or pnm; "feed" is itpc, feed or zcast.
Scheme == {"file", "http", "stream", "feed", "zune", "itms"}

\* One element of a playlist, in document order:
\*   nested  handed to parse_internal     direct  reported as it is
\*   link    a Type=Link .desktop target  extinf  an #EXTINF line of an M3U
\*   skip    a comment, a buffering image, an entry without href
\*   stop    --stop-- of a .ram           bad     a PLA path that cannot be
\*   open    a title of an ASX repeat             converted
\*   close   the end of an ASX repeat, titled if the last title in it has text
Item == [how : {"nested", "direct", "link", "extinf", "skip", "stop", "bad",
                "open", "close"},
         to : File, titled : BOOLEAN]

\* A document: the type its name suggests, the type its contents suggest,
\* whether it can be read, what the contents really are, how many headers
\* (titles of an ASX, title of a PLS or PLA, channel of an RSS, body of an
\* OPML or SMIL, a header of an ASF with no room for a reference behind it),
\* whether the last title of an ASX has text, and which items they hold.  A cue
\* sheet is a playlist of one item, the Video CD it stands for.
Document == [scheme : Scheme, name : Mime, data : Mime, readable : BOOLEAN,
             form : {"m3u", "pls", "urilist", "asx", "asf", "rss", "atom",
                     "opml", "smil", "xspf", "pla", "gvp", "quicktime",
                     "desktop", "disc", "list", "locked", "remote", "blank",
                     "other"},
             heads : Nat, named : BOOLEAN, items : Seq(Item)]

Option == [recurse : BOOLEAN, force : BOOLEAN, disable_unsafe : BOOLEAN,
           fallback : BOOLEAN]

ASSUME LibrariesAssumption == Libraries \subseteq [File -> Document]
ASSUME OptionsAssumption   == Options \subseteq Option
ASSUME RootAssumption      == Root \in File
ASSUME LevelAssumption     == RecurseLevelMax \in Nat

\* An #EXTINF line lends its title to an entry and is none itself.
ASSUME ExtinfAssumption ==
  \A lib \in Libraries : \A f \in File : \A n \in DOMAIN lib[f].items :
    lib[f].items[n].how = "extinf" => ~lib[f].items[n].titled

\* What PLS and PLA pass as the URI of ::playlist-ended.
TitleText == "title text"
ASSUME TitleTextAssumption == TitleText \notin File

LoopKind == {"m3u", "pls", "ram", "asx", "desktop", "directory"}

\* A signal.  list and item are history: the playlist and the position in it
\* that made the parser emit the signal; title is the position of the item
\* whose title the signal carries, 0 if it has none.
Signal == [sig : {"entry", "started", "ended"}, uri : File \cup {TitleText},
           title : Nat, list : File, item : Nat]

\* saved is the local copy of fallback in add_pls_with_contents, extinf the
\* pending #EXTINF line of add_m3u (0 when extinfo is NULL).
Frame == [file : File, kind : LoopKind, pos : Nat, saved : BOOLEAN,
          extinf : Nat]

VARIABLES
  docs,      \* the documents, fixed by Init
  opts,      \* the options of this parse, fixed by Init
  pc,        \* what the thread does next
  callee,    \* the argument of the pending call to parse_internal
  stack,     \* the handlers that are running, innermost last
  level,     \* parse_data->recurse_level
  fallback,  \* parse_data->fallback
  ret,       \* the result being returned
  events,    \* the signals emitted so far
  leaked     \* history: increments of recurse_level that are never undone

vars == <<docs, opts, pc, callee, stack, level, fallback, ret, events, leaked>>
inputs == <<docs, opts>>

-----------------------------------------------------------------------------
(***************************************************************************)
(* Signals: idol_pl_parser_add_uri() and idol_pl_parser_playlist_end().    *)
(***************************************************************************)
Entry(uri, title, list, item) ==
  [sig |-> "entry", uri |-> uri, title |-> title, list |-> list, item |-> item]

Started(f) ==
  [sig |-> "started", uri |-> f, title |-> 0, list |-> f, item |-> 0]

Ended(uri, f) ==
  [sig |-> "ended", uri |-> uri, title |-> 0, list |-> f, item |-> 0]

\* add_one_file(parser, file, NULL) for the playlist itself.
Itself(f) == <<Entry(f, 0, f, 0)>>

\* One entry per item of a playlist whose handler does not recurse.
Entries(f) ==
  [i \in 1 .. Len(docs[f].items) |->
     Entry(docs[f].items[i].to, IF docs[f].items[i].titled THEN i ELSE 0, f, i)]

-----------------------------------------------------------------------------
(***************************************************************************)
(* What a handler does when it is called: it gives up, it runs to the end  *)
(* (kind "none"), or it starts looping over items that may be playlists.   *)
(***************************************************************************)
Emits(sigs, r) == [kind |-> "none", sigs |-> sigs, ret |-> r]
GivesUp(r)     == Emits(<<>>, r)
Loops(k, sigs) == [kind |-> k, sigs |-> sigs, ret |-> "SUCCESS"]

AddPlsWithContents(f) ==
  IF docs[f].form # "pls" THEN GivesUp("UNHANDLED")
  ELSE Loops("pls", IF docs[f].heads > 0 THEN <<Started(f)>> ELSE <<>>)

AddPls(f) ==
  IF ~docs[f].readable THEN GivesUp("ERROR")
  ELSE IF docs[f].form = "blank" THEN GivesUp("SUCCESS")
  ELSE AddPlsWithContents(f)

\* Only a non-blank line sets the result of add_m3u to SUCCESS.
AddM3u(f) ==
  IF ~docs[f].readable THEN GivesUp("ERROR")
  ELSE IF docs[f].form = "pls" THEN AddPlsWithContents(f)
  ELSE IF docs[f].items = <<>> THEN GivesUp("UNHANDLED")
  ELSE Loops("m3u", <<>>)

AddRam(f) ==
  IF ~docs[f].readable THEN GivesUp("ERROR")
  ELSE IF docs[f].items = <<>> THEN GivesUp("UNHANDLED")
  ELSE Loops("ram", <<>>)

AddRa(f, data) ==
  IF data /\ docs[f].form = "urilist" THEN AddRam(f)
                                      ELSE Emits(Itself(f), "SUCCESS")

\* parse_asx_entries emits one ::playlist-started per title node, with text or
\* without, before it looks at the entries, and its result is never FALSE.
AddAsx(f, data) ==
  IF data /\ docs[f].form = "urilist" THEN AddRam(f)
  ELSE IF ~docs[f].readable \/ docs[f].form # "asx" THEN GivesUp("ERROR")
  ELSE Loops("asx", [i \in 1 .. docs[f].heads |-> Started(f)])

\* form "asf": a "[Reference]", "[Address]" or "ASF " file, whose first reference
\* is kept.  A [Reference] without Ref1 is tried as an ASX, which it is not, and
\* nothing behind "ASF " is an error too; an address, or something behind "ASF "
\* that is no location, is left to others.
AddAsf(f, data) ==
  IF ~data \/ docs[f].form \notin {"asx", "asf"} THEN Emits(Itself(f), "SUCCESS")
  ELSE IF docs[f].form = "asx" THEN AddAsx(f, data)
  ELSE IF docs[f].items = <<>>
       THEN GivesUp(IF docs[f].heads > 0 THEN "ERROR" ELSE "UNHANDLED")
  ELSE Emits(Entries(f), "SUCCESS")

AddRss(f) ==
  IF ~docs[f].readable \/ docs[f].form # "rss" THEN GivesUp("ERROR")
  ELSE IF docs[f].heads = 0 THEN GivesUp("SUCCESS")
  ELSE Emits(<<Started(f)>> \o Entries(f) \o <<Ended(f, f)>>, "SUCCESS")

\* ::playlist-started is emitted by the first entry, ::playlist-ended always.
AddAtom(f) ==
  IF ~docs[f].readable \/ docs[f].form # "atom" THEN GivesUp("ERROR")
  ELSE Emits((IF docs[f].items = <<>> THEN <<>> ELSE <<Started(f)>>)
               \o Entries(f) \o <<Ended(f, f)>>, "SUCCESS")

\* A body starts the playlist; nothing ends it.
AddOpml(f) ==
  IF ~docs[f].readable \/ docs[f].form # "opml" THEN GivesUp("ERROR")
  ELSE IF docs[f].heads = 0 THEN GivesUp("SUCCESS")
  ELSE Emits(<<Started(f)>> \o Entries(f), "SUCCESS")

AddXmlFeed(f, data) ==
  IF ~data THEN GivesUp("UNHANDLED")
  ELSE IF docs[f].form = "rss" THEN AddRss(f)
  ELSE IF docs[f].form = "atom" THEN AddAtom(f)
  ELSE IF docs[f].form = "opml" THEN AddOpml(f)
  ELSE GivesUp("UNHANDLED")

\* The code stops at a path it cannot convert; its result is never SUCCESS.
AddPla(f) ==
  LET items == docs[f].items
      bad   == items # <<>> /\ items[Len(items)].how = "bad"
      head  == IF docs[f].heads > 0 THEN <<Started(f)>> ELSE <<>>
      body  == IF bad THEN SubSeq(Entries(f), 1, Len(items) - 1) ELSE Entries(f)
      tail  == IF docs[f].heads > 0 THEN <<Ended(TitleText, f)>> ELSE <<>>
  IN  IF ~docs[f].readable \/ docs[f].form # "pla" THEN GivesUp("ERROR")
      ELSE Emits(head \o body \o tail, IF bad THEN "ERROR" ELSE "UNHANDLED")

AddXspf(f) ==
  IF ~docs[f].readable \/ docs[f].form # "xspf" THEN GivesUp("ERROR")
                                                ELSE Emits(Entries(f), "SUCCESS")

\* parse_smil_entries only succeeds if there is a body.
AddSmil(f) ==
  IF ~docs[f].readable \/ docs[f].form # "smil" \/ docs[f].heads = 0
  THEN GivesUp("ERROR") ELSE Emits(Entries(f), "SUCCESS")

AddGvp(f) ==
  IF ~docs[f].readable THEN GivesUp("ERROR")
  ELSE IF docs[f].form # "gvp" \/ docs[f].items = <<>> THEN GivesUp("UNHANDLED")
  ELSE Emits(Entries(f), "SUCCESS")

AddQuicktime(f, data) ==
  IF ~data \/ docs[f].form # "quicktime" THEN GivesUp("UNHANDLED")
  ELSE IF docs[f].items = <<>> THEN GivesUp("ERROR")
  ELSE Emits(Entries(f), "SUCCESS")

AddDesktop(f) ==
  IF ~docs[f].readable \/ docs[f].form # "desktop" \/ docs[f].items = <<>>
  THEN GivesUp("ERROR") ELSE Loops("desktop", <<>>)

AddIso(f) ==
  IF docs[f].form = "disc" THEN Emits(Entries(f), "SUCCESS")
                           ELSE GivesUp("IGNORED")

AddCue(f) ==
  IF docs[f].scheme = "file" THEN Emits(Entries(f), "SUCCESS")
                             ELSE GivesUp("IGNORED")

AddBlock(f) ==
  IF docs[f].form = "disc" THEN Emits(Entries(f), "SUCCESS")
                           ELSE GivesUp("UNHANDLED")

AddDirectory(f) ==
  IF docs[f].form = "disc" THEN Emits(Entries(f), "SUCCESS")
  ELSE IF docs[f].form = "remote" THEN GivesUp("UNHANDLED")
  ELSE IF docs[f].form = "locked" THEN GivesUp("ERROR")
  ELSE Loops("directory", <<>>)

Call(h, f, data) ==
  CASE h = "m3u"       -> AddM3u(f)         [] h = "pls"       -> AddPls(f)
    [] h = "ra"        -> AddRa(f, data)    [] h = "asx"       -> AddAsx(f, data)
    [] h = "asf"       -> AddAsf(f, data)   [] h = "rss"       -> AddRss(f)
    [] h = "atom"      -> AddAtom(f)        [] h = "opml"      -> AddOpml(f)
    [] h = "feedxml"   -> AddXmlFeed(f, data)
    [] h = "pla"       -> AddPla(f)         [] h = "xspf"      -> AddXspf(f)
    [] h = "smil"      -> AddSmil(f)        [] h = "gvp"       -> AddGvp(f)
    [] h = "quicktime" -> AddQuicktime(f, data)
    [] h = "desktop"   -> AddDesktop(f)     [] h = "iso"       -> AddIso(f)
    [] h = "cue"       -> AddCue(f)         [] h = "block"     -> AddBlock(f)
    [] h = "directory" -> AddDirectory(f)   [] OTHER -> GivesUp("UNHANDLED")

\* add_itpc, add_zune and add_itms: the RSS feed the location stands for.
\* A name of "none" is a location (zune) or a page (itms) naming no feed.
AddFeed(f) ==
  IF docs[f].scheme = "zune" /\ docs[f].name = "none" THEN GivesUp("UNHANDLED")
  ELSE IF docs[f].scheme = "itms" /\ docs[f].name = "none" THEN GivesUp("ERROR")
  ELSE AddRss(f)

-----------------------------------------------------------------------------
(***************************************************************************)
(* Which type a document is taken for: by name or, when that says too      *)
(* little, by a look at its first bytes.                                   *)
(***************************************************************************)
\* my_g_file_info_get_mime_type_with_data(): the type, and whether it leaves
\* the bytes in *data.
Sniff(d) == [mime |-> IF d.readable THEN d.data ELSE "none",
             data |-> d.readable /\ d.data \notin {"directory", "block", "empty"}]

\* A second look only replaces the type when it finds one.
LookAgain(t, d) == [Sniff(d) EXCEPT !.mime = IF @ = "none" THEN t.mime ELSE @]

FirstGuess(d) ==
  LET t == IF opts.force THEN Sniff(d) ELSE [mime |-> d.name, data |-> FALSE]
  IN  IF \/ t.mime \in {"none", "unknown"}
         \/ d.scheme = "file" /\ t.mime \in TextTypes
      THEN LookAgain(t, d) ELSE t

Guess(d) ==
  LET t == FirstGuess(d)
  IN  IF t.mime = "mpeg" /\ level = 0 /\ ~t.data THEN LookAgain(t, d) ELSE t

\* A dual type is decided by the contents alone.
DualGuess(d) == LET t == Guess(d) IN IF t.data THEN t ELSE Sniff(d)

DualHandler(d) ==
  LET m == DualGuess(d).mime
  IN  IF m = "none" THEN HandlerOf[Guess(d).mime] ELSE GetFunctionForMimetype(m)

-----------------------------------------------------------------------------
(***************************************************************************)
(* idol_pl_parser_parse_internal() up to the call of a handler.            *)
(***************************************************************************)
Return(r) == /\ pc' = "return"
             /\ ret' = r
             /\ UNCHANGED <<inputs, callee, stack, level, fallback, events, leaked>>

EnterTooDeep == /\ pc = "enter"
                /\ level > RecurseLevelMax
                /\ Return("ERROR")

Entering(schemes) == /\ pc = "enter"
                     /\ level <= RecurseLevelMax
                     /\ docs[callee].scheme \in schemes

EnterStream == Entering({"stream"}) /\ Return("UNHANDLED")

EnterFeed ==
  /\ Entering({"feed", "zune", "itms"})
  /\ pc' = "return"
  /\ ret' = AddFeed(callee).ret
  /\ events' = events \o AddFeed(callee).sigs
  /\ UNCHANGED <<inputs, callee, stack, level, fallback, leaked>>

EnterNoRecurse == /\ Entering({"file", "http"})
                  /\ ~opts.recurse /\ level > 0
                  /\ Return("UNHANDLED")

\* Mutant: the recurse option is forgotten.
ParsingAnyway == Entering({"file", "http"})

Parsing == Entering({"file", "http"}) /\ (opts.recurse \/ level = 0)

EnterUntyped == /\ Parsing
                /\ FirstGuess(docs[callee]).mime = "none"
                /\ Return("UNHANDLED")

EnterEmpty == /\ Parsing
              /\ FirstGuess(docs[callee]).mime = "empty"
              /\ Return("SUCCESS")

EnterIgnored == /\ Parsing
                /\ FirstGuess(docs[callee]).mime \notin {"none", "empty"}
                /\ Guess(docs[callee]).mime \in IgnoredMimes
                /\ Return("IGNORED")

ParsingType(types) ==
  /\ Parsing
  /\ FirstGuess(docs[callee]).mime \notin {"none", "empty"}
  /\ Guess(docs[callee]).mime \in types \ IgnoredMimes

\* Mutant: the early return undoes an increment that has not been made.
EnterUnsafeUndoes ==
  /\ ParsingType(UnsafeTypes)
  /\ opts.disable_unsafe
  /\ pc' = "return"
  /\ ret' = "IGNORED"
  /\ level' = level - 1
  /\ UNCHANGED <<inputs, callee, stack, fallback, events, leaked>>

\* The early return of the special_types loop skips recurse_level--.
EnterUnsafe ==
  /\ ParsingType(UnsafeTypes)
  /\ opts.disable_unsafe
  /\ pc' = "return"
  /\ ret' = "IGNORED"
  /\ level' = level + 1
  /\ leaked' = leaked + 1
  /\ UNCHANGED <<inputs, callee, stack, fallback, events>>

\* Mutant: the result of the handler is returned although the fallback worked.
EpilogueKeepsResult(sigs, r, mime) ==
  LET ignored == r # "SUCCESS" /\ mime \in IgnoreTypes
  IN  /\ pc' = "return"
      /\ ret' = IF ignored THEN "IGNORED" ELSE r
      /\ events' = events \o sigs
                     \o (IF r # "SUCCESS" /\ ~ignored /\ fallback
                         THEN Itself(callee) ELSE <<>>)

\* The end of parse_internal, once recurse_level is back to what it was: the
\* handler returned r after emitting sigs for a document taken for a mime.
Epilogue(sigs, r, mime) ==
  LET ignored == r # "SUCCESS" /\ mime \in IgnoreTypes
      report  == r # "SUCCESS" /\ ~ignored /\ fallback
  IN  /\ pc' = "return"
      /\ ret' = IF ignored THEN "IGNORED" ELSE IF report THEN "SUCCESS" ELSE r
      /\ events' = events \o sigs \o (IF report THEN Itself(callee) ELSE <<>>)

\* The handler gives up or runs to the end without calling the dispatcher.
RunToEnd(out, mime) ==
  /\ out.kind = "none"
  /\ Epilogue(out.sigs, out.ret, mime)
  /\ UNCHANGED <<inputs, callee, stack, level, fallback, leaked>>

\* The handler starts looping over the items of its playlist.
StartLoop(out) ==
  /\ out.kind # "none"
  /\ pc' = "run"
  /\ stack' = Append(stack, [file |-> callee, kind |-> out.kind, pos |-> 1,
                             saved |-> fallback, extinf |-> 0])
  /\ level' = level + 1
  /\ events' = events \o out.sigs
  /\ UNCHANGED <<inputs, callee, fallback, ret, leaked>>

Handle(h, t) == LET out == Call(h, callee, t.data)
                IN  RunToEnd(out, t.mime) \/ StartLoop(out)

\* Mutant: special_types is searched without a look at the unsafe column.
EnterSpecialUnchecked ==
  /\ ParsingType(SpecialTypes)
  /\ LET t == Guess(docs[callee]) IN Handle(HandlerOf[t.mime], t)

EnterSpecial ==
  /\ ParsingType(IF opts.disable_unsafe THEN SafeTypes ELSE SpecialTypes)
  /\ LET t == Guess(docs[callee]) IN Handle(HandlerOf[t.mime], t)

\* Still text after a look at the contents, or no handler for them.
EnterDualRejected ==
  /\ ParsingType(DualTypes)
  /\ LET t == DualGuess(docs[callee])
     IN  \/ /\ t.mime \in TextTypes
            /\ Epilogue(<<>>, "IGNORED", "none")
         \/ /\ t.mime \notin TextTypes
            /\ DualHandler(docs[callee]) = "none"
            /\ Epilogue(<<>>, "UNHANDLED", "none")
  /\ UNCHANGED <<inputs, callee, stack, level, fallback, leaked>>

EnterDual ==
  /\ ParsingType(DualTypes)
  /\ DualGuess(docs[callee]).mime \notin TextTypes
  /\ DualHandler(docs[callee]) # "none"
  /\ Handle(DualHandler(docs[callee]), DualGuess(docs[callee]))

\* No table knows the type.
EnterOther ==
  /\ ParsingType(Mime \ (SpecialTypes \cup DualTypes))
  /\ Epilogue(<<>>, "UNHANDLED", Guess(docs[callee]).mime)
  /\ UNCHANGED <<inputs, callee, stack, level, fallback, leaked>>

ParseInternal ==
  \/ EnterTooDeep \/ EnterStream \/ EnterFeed \/ EnterNoRecurse
  \/ EnterUntyped \/ EnterEmpty \/ EnterIgnored \/ EnterUnsafe
  \/ EnterSpecial \/ EnterDualRejected \/ EnterDual \/ EnterOther

-----------------------------------------------------------------------------
(***************************************************************************)
(* The loops of the handlers that call parse_internal for their items.     *)
(***************************************************************************)
Top   == stack[Len(stack)]
There == docs[Top.file].items[Top.pos]  \* the item the innermost loop is at

\* idol_pl_parser_ignore(), called by add_desktop with a URI it takes for a
\* path: only ignoring the scheme "file" matters.
Ignore(f) ==
  \/ "file" \in IgnoredSchemes
  \/ docs[f].name \notin {"none", "unknown"} \cup SpecialTypes \cup DualTypes

Nests(item) == \/ item.how = "nested"
               \/ item.how = "link" /\ Ignore(item.to)

\* The title an M3U entry gets is the pending #EXTINF line's.
TitleOf(frame, item) ==
  IF frame.kind = "m3u" THEN frame.extinf
  ELSE IF item.titled THEN frame.pos ELSE 0

\* The innermost loop goes on to position p with the #EXTINF line x pending.
Advance(p, x) ==
  stack' = [stack EXCEPT ![Len(stack)].pos = p, ![Len(stack)].extinf = x]

ItemEntry == Entry(There.to, TitleOf(Top, There), Top.file, Top.pos)

Looping == /\ pc = "run"
           /\ Top.pos <= Len(docs[Top.file].items)

\* The item is reported without asking the dispatcher.  In a PLS this is a
\* stream: the fallback add_pls_with_contents clears is restored at once.
ReportItem ==
  /\ Looping
  /\ There.how \in {"direct", "link"} /\ ~Nests(There)
  /\ events' = Append(events, ItemEntry)
  /\ Advance(Top.pos + 1, 0)
  /\ UNCHANGED <<inputs, pc, callee, level, fallback, ret, leaked>>

\* Only the first of several #EXTINF lines is kept.
SkipItem ==
  /\ Looping
  /\ There.how \in {"skip", "bad", "extinf"}
  /\ Advance(Top.pos + 1,
             IF There.how = "extinf" /\ Top.extinf = 0 THEN Top.pos ELSE Top.extinf)
  /\ UNCHANGED <<inputs, pc, callee, level, fallback, ret, events, leaked>>

StopAtItem ==
  /\ Looping
  /\ There.how = "stop"
  /\ Advance(Len(docs[Top.file].items) + 1, 0)
  /\ UNCHANGED <<inputs, pc, callee, level, fallback, ret, events, leaked>>

\* A repeat starts the playlist with every title, and ends it only if the last
\* title it met has text.
RepeatSignals(f, item) ==
  IF item.how = "open" THEN <<Started(f)>>
  ELSE IF item.titled THEN <<Ended(f, f)>> ELSE <<>>

RepeatItem ==
  /\ Looping
  /\ There.how \in {"open", "close"}
  /\ events' = events \o RepeatSignals(Top.file, There)
  /\ Advance(Top.pos + 1, 0)
  /\ UNCHANGED <<inputs, pc, callee, level, fallback, ret, leaked>>

\* Mutant: the fallback is saved after it has been cleared.
ParseItemSavesLate ==
  /\ Looping
  /\ Nests(There)
  /\ pc' = "enter"
  /\ callee' = There.to
  /\ fallback' = (fallback /\ ~(Top.kind = "pls" /\ opts.recurse))
  /\ stack' = [stack EXCEPT ![Len(stack)].saved = fallback']
  /\ UNCHANGED <<inputs, level, ret, events, leaked>>

\* Only add_pls_with_contents keeps nested documents from reporting themselves.
ParseItem ==
  /\ Looping
  /\ Nests(There)
  /\ pc' = "enter"
  /\ callee' = There.to
  /\ stack' = [stack EXCEPT ![Len(stack)].saved = fallback]
  /\ fallback' = (fallback /\ ~(Top.kind = "pls" /\ opts.recurse))
  /\ UNCHANGED <<inputs, level, ret, events, leaked>>

\* A directory only reports what nobody objected to.
ReportsFailed(kind, r) ==
  r # "SUCCESS" /\ (kind = "directory" => r = "UNHANDLED")

\* Mutant: the fallback is not restored when the nested parse succeeded.
ItemParsedUnrestored ==
  /\ pc = "return"
  /\ stack # <<>>
  /\ pc' = "run"
  /\ events' = IF ReportsFailed(Top.kind, ret) THEN Append(events, ItemEntry)
                                               ELSE events
  /\ Advance(Top.pos + 1, 0)
  /\ fallback' = IF Top.kind = "pls" /\ ret # "SUCCESS" THEN Top.saved ELSE fallback
  /\ UNCHANGED <<inputs, callee, level, ret, leaked>>

\* Mutant: an item that failed with an error is tried again.
ItemParsedRetries ==
  /\ pc = "return"
  /\ stack # <<>>
  /\ pc' = "run"
  /\ events' = IF ret = "UNHANDLED" THEN Append(events, ItemEntry) ELSE events
  /\ Advance(Top.pos + (IF ret = "ERROR" THEN 0 ELSE 1), 0)
  /\ fallback' = IF Top.kind = "pls" THEN Top.saved ELSE fallback
  /\ UNCHANGED <<inputs, callee, level, ret, leaked>>

\* Mutant: extinfo is only freed when the entry was reported with it.
ItemParsedKeepsTitle ==
  LET failed == ReportsFailed(Top.kind, ret)
  IN  /\ pc = "return"
      /\ stack # <<>>
      /\ pc' = "run"
      /\ events' = IF failed THEN Append(events, ItemEntry) ELSE events
      /\ Advance(Top.pos + 1, IF failed THEN 0 ELSE Top.extinf)
      /\ fallback' = IF Top.kind = "pls" THEN Top.saved ELSE fallback
      /\ UNCHANGED <<inputs, callee, level, ret, leaked>>

ItemParsed ==
  /\ pc = "return"
  /\ stack # <<>>
  /\ pc' = "run"
  /\ events' = IF ReportsFailed(Top.kind, ret) THEN Append(events, ItemEntry)
                                               ELSE events
  /\ Advance(Top.pos + 1, 0)
  /\ fallback' = IF Top.kind = "pls" THEN Top.saved ELSE fallback
  /\ UNCHANGED <<inputs, callee, level, ret, leaked>>

\* Mutant: the handler of an ASX never ends the playlist it started.
EndSignalsPlsOnly(frame) ==
  IF docs[frame.file].heads > 0 /\ frame.kind = "pls"
  THEN <<Ended(TitleText, frame.file)>> ELSE <<>>

\* Whether the handler ends what it has started: parse_asx_entries does so only
\* if the last title it met has text.
EndsItself(kind, f) ==
  docs[f].heads > 0 /\ (kind = "pls" \/ (kind = "asx" /\ docs[f].named))

\* ::playlist-ended, and whose URI it gives.
EndSignals(frame) ==
  IF EndsItself(frame.kind, frame.file)
  THEN <<Ended(IF frame.kind = "pls" THEN TitleText ELSE frame.file, frame.file)>>
  ELSE <<>>

\* Mutant: a playlist that is stopped early forgets its level.
EndLoopLeaks ==
  /\ pc = "run"
  /\ Top.pos > Len(docs[Top.file].items)
  /\ pc' = "return"
  /\ ret' = "SUCCESS"
  /\ events' = events \o EndSignals(Top)
  /\ stack' = SubSeq(stack, 1, Len(stack) - 1)
  /\ level' = IF Top.kind = "ram" THEN level ELSE level - 1
  /\ UNCHANGED <<inputs, callee, fallback, leaked>>

\* The loop is over; a loop that started always returns SUCCESS.
EndLoop ==
  /\ pc = "run"
  /\ Top.pos > Len(docs[Top.file].items)
  /\ pc' = "return"
  /\ ret' = "SUCCESS"
  /\ events' = events \o EndSignals(Top)
  /\ stack' = SubSeq(stack, 1, Len(stack) - 1)
  /\ level' = level - 1
  /\ UNCHANGED <<inputs, callee, fallback, leaked>>

HandlerStep == \/ ReportItem \/ SkipItem \/ StopAtItem \/ RepeatItem
               \/ ParseItem \/ ItemParsed \/ EndLoop

-----------------------------------------------------------------------------
(***************************************************************************)
(* idol_pl_parser_parse_with_base().                                       *)
(***************************************************************************)
\* Everything but the documents, which do not change.
Fresh ==
  /\ opts \in Options
  /\ pc = "start"
  /\ callee = Root
  /\ stack = <<>>
  /\ level = 0
  /\ fallback = opts.fallback
  /\ ret = "UNHANDLED"
  /\ events = <<>>
  /\ leaked = 0

Init == docs \in Libraries /\ Fresh

ParseWithBase ==
  /\ pc = "start"
  /\ IF docs[Root].scheme \in IgnoredSchemes
     THEN pc' = "done" /\ ret' = "UNHANDLED"
     ELSE pc' = "enter" /\ UNCHANGED ret
  /\ UNCHANGED <<inputs, callee, stack, level, fallback, events, leaked>>

ParseReturns ==
  /\ pc = "return"
  /\ stack = <<>>
  /\ pc' = "done"
  /\ UNCHANGED <<inputs, callee, stack, level, fallback, ret, events, leaked>>

Terminated == pc = "done" /\ UNCHANGED vars

Next == ParseWithBase \/ ParseInternal \/ HandlerStep \/ ParseReturns \/ Terminated

\* The parse runs in one thread that is never suspended for ever: every read
\* returns, with contents or with an error.
Spec == Init /\ [][Next]_vars /\ WF_vars(Next)

-----------------------------------------------------------------------------
(***************************************************************************)
(* What must hold.                                                         *)
(***************************************************************************)
TypeOK ==
  /\ docs \in [File -> Document]
  /\ opts \in Option
  /\ pc \in {"start", "enter", "run", "return", "done"}
  /\ callee \in File
  /\ stack \in Seq(Frame)
  /\ pc = "run" => stack # <<>>
  /\ pc \in {"start", "done"} => stack = <<>>
  /\ level \in Nat
  /\ leaked \in Nat
  /\ fallback \in BOOLEAN
  /\ ret \in Result
  /\ events \in Seq(Signal)

\* recurse_level counts the handlers that are running, plus one for every
\* unsafe document that was skipped, and stays within one of the limit: so
\* however the documents refer to each other, the C stack is bounded.
LevelAccounting ==
  /\ level = Len(stack) + leaked
  /\ level <= RecurseLevelMax + 1

\* Frame i is waiting for a call to parse_internal.
Waiting(i) == i < Len(stack) \/ pc \in {"enter", "return"}

\* Whether frame i keeps the documents nested in it from reporting themselves.
Silences(i) == stack[i].kind = "pls" /\ opts.recurse

\* What the fallback was when the loop of frame i called parse_internal.
FallbackAt(i) == opts.fallback /\ \A j \in 1 .. i - 1 : ~Silences(j)

\* A loop that waits for a nested parse waits at one of its items, and keeps
\* the fallback it has to restore: the one its own caller left it.
FramesWait ==
  \A i \in DOMAIN stack :
    /\ stack[i].pos >= 1
    /\ Waiting(i) => /\ stack[i].pos <= Len(docs[stack[i].file].items)
                     /\ stack[i].saved = FallbackAt(i)

\* parse_data->fallback is what the caller of the library asked for, except
\* while a PLS, at any depth, waits for one of its items: every way out of a
\* nested parse leads back to the assignment that restores it.
FallbackDiscipline ==
  fallback = (opts.fallback /\ \A i \in DOMAIN stack : ~(Waiting(i) /\ Silences(i)))

\* The title an M3U entry is given comes from an #EXTINF line that no other
\* entry stands behind: extinfo is cleared on every path through the loop.
TitleBelongs ==
  \A n \in DOMAIN events :
    LET e == events[n]
        items == docs[e.list].items
    IN  (e.sig = "entry" /\ e.title > 0 /\ items[e.title].how = "extinf")
          => /\ e.title < e.item
             /\ \A k \in e.title + 1 .. e.item - 1 :
                  items[k].how \in {"extinf", "skip", "bad"}

\* With the recurse property off, only the document that was asked for is
\* looked into: no other playlist reports anything, except for the feeds whose
\* scheme parse_internal acts on before it looks at the property.
OnlyRootWithoutRecurse ==
  ~opts.recurse =>
    \A n \in DOMAIN events :
      \/ events[n].list = Root
      \/ docs[events[n].list].scheme \in {"feed", "zune", "itms"}

\* What passes for something else: an unsafe document whose name promises a
\* handler of its own, or whose scheme makes it a feed.
Disguised(d) == \/ d.name \in SafeTypes \cup DualTypes
                \/ d.scheme \notin {"file", "http"}

\* With disable-unsafe on, no handler of an unsafe type runs at any depth and
\* no unsafe document reports what it holds, unless it is disguised.
UnsafeNotParsed ==
  opts.disable_unsafe =>
    /\ \A i \in DOMAIN stack :
         stack[i].kind \in {"desktop", "directory"} => Disguised(docs[stack[i].file])
    /\ \A n \in DOMAIN events :
         LET d == docs[events[n].list]
         IN  (events[n].item > 0 /\ d.data \in UnsafeTypes) => Disguised(d)

\* How many of the signals m to n are sig, about the playlist f.
CountIn(sig, f, m, n) ==
  Cardinality({k \in m .. n : events[k].sig = sig /\ events[k].list = f})

Count(sig, f) == CountIn(sig, f, 1, Len(events))

\* How many of the first n items of f are hows, and have a title if it matters.
ItemsUpTo(how, titles, f, n) ==
  Cardinality({k \in 1 .. n : /\ docs[f].items[k].how = how
                              /\ docs[f].items[k].titled \in titles})

\* The repeats of an ASX are elements of its tree: each closes after it opened.
\* One that starts more often than it ends, with two titles or with a title
\* without text, and one that a loop that stops early leaves open are no pairs.
Repeats(f) ==
  LET open(n)  == ItemsUpTo("open", BOOLEAN, f, n)
      close(n) == ItemsUpTo("close", {TRUE}, f, n)
      all      == Len(docs[f].items)
  IN  /\ \A n \in 0 .. all : close(n) <= open(n)
      /\ close(all) = open(all)
      /\ open(all) > 0 => ItemsUpTo("stop", BOOLEAN, f, all) = 0

\* Not announced properly: an OPML, which never ends, an Atom feed without entries,
\* which never starts, an ASX with two titles, which starts twice, an ASX whose title
\* has no text, which starts and never ends, and an ASX with such a repeat.
Pairs(f) == /\ docs[f].form # "opml" /\ docs[f].heads <= 1
            /\ docs[f].form = "atom" => docs[f].items # <<>>
            /\ docs[f].form = "asx" /\ docs[f].heads = 1 => docs[f].named
            /\ Repeats(f)

\* ::playlist-started and ::playlist-ended bracket: but for these, a playlist ends
\* after a start of its own that nothing closed yet, all that started in between
\* has ended in between, and in the end nothing is open.
SignalsPaired ==
  LET files == {f \in File : Pairs(f)}
  IN  /\ \A n \in DOMAIN events : (events[n].sig = "ended" /\ events[n].list \in files) =>
           \E m \in 1 .. n - 1 :
             /\ events[m].sig = "started" /\ events[m].list = events[n].list
             /\ \A f \in files : CountIn("started", f, m + 1, n - 1)
                                   = CountIn("ended", f, m + 1, n - 1)
      /\ pc = "done" => \A f \in files : Count("started", f) = Count("ended", f)

\* However the documents refer to each other, the parse ends.
Termination == <>(pc = "done")

=============================================================================
