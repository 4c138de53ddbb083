----------------------------- MODULE MC_PlParse -----------------------------
(***************************************************************************)
(* Libraries of documents for model-checking PlParse.                      *)
(***************************************************************************)
EXTENDS PlParseFlattens, PlParseDocs

CONSTANTS r, a, b  \* the playlist that is parsed, one nested in it, a leaf

MCFile == {r, a, b}

\* What the shared MIME database derives from text/plain.
MCTextTypes == {"text", "m3u", "urilist", "gvp", "opml", "xspf", "atom", "rss",
                "xml", "desktop", "cue", "php"}

NoIgnored    == {}
IgnoreStream == {"stream"}
IgnoreSome   == {"mpeg", "gvp"}

Doc(scheme, name, data, form, heads, items) ==
  [scheme |-> scheme, name |-> name, data |-> data, readable |-> TRUE,
   form |-> form, heads |-> heads, named |-> TRUE, items |-> items]

Web(type, form, heads, items) == Doc("http", type, type, form, heads, items)
Unreadable(d) == [d EXCEPT !.readable = FALSE]

It(how, to)     == [how |-> how, to |-> to, titled |-> FALSE]
Titled(how, to) == [how |-> how, to |-> to, titled |-> TRUE]

Library(root, nested, leaf) ==
  {[f \in File |-> IF f = r THEN x ELSE IF f = a THEN y ELSE z] :
     x \in root, y \in nested, z \in leaf}

Opts(recurse, force, unsafe) ==
  [recurse : recurse, force : force, disable_unsafe : unsafe, fallback : BOOLEAN]

AllOptions    == Opts(BOOLEAN, BOOLEAN, BOOLEAN)
Recursing     == Opts({TRUE}, {FALSE}, BOOLEAN)
SafeRecursing == Opts({TRUE}, {FALSE}, {FALSE})

-----------------------------------------------------------------------------
\* Playlists that refer to each other and to themselves.
LoopDocs(targets) ==
  UNION {{Web("m3u", "m3u", 0, its), Web("pls", "pls", 1, its),
          Doc("http", "text", "urilist", "urilist", 0, its),
          Web("asx", "asx", 1, its), Web("directory", "list", 0, its)} :
           its \in {[i \in DOMAIN t |-> It("nested", t[i])] : t \in targets}}

Leaf == {Web("media", "other", 0, <<>>), Web("xspf", "xspf", 0, <<It("direct", b)>>),
         Unreadable(Web("smil", "smil", 1, <<>>)), Doc("http", "text", "text", "other", 0, <<>>),
         Web("pls", "blank", 0, <<>>),
         Web("desktop", "desktop", 0, <<It("nested", a)>>),
         Doc("http", "none", "empty", "other", 0, <<>>)}

CyclicLibraries ==
  Library(LoopDocs({<<a, b>>, <<r, a>>, <<a, a, b>>}),
          LoopDocs({<<r, b>>, <<a>>, <<b, a>>, <<>>}), Leaf)

NestingLibraries ==
  Library(LoopDocs({<<a, b>>, <<r, a>>}), LoopDocs({<<r, b>>, <<a>>}), Leaf)

\* They are what FlattensSafely is about.
ASSUME NestingIsPlain == \A library \in NestingLibraries : PlainDocs(library, FALSE)

-----------------------------------------------------------------------------
\* One document of every form, with an item of every kind it can hold.
M3uDoc   == Web("m3u", "m3u", 0,
                <<It("extinf", b), It("skip", b), It("nested", a), It("nested", b),
                  It("extinf", b), It("extinf", b), It("direct", b)>>)
PlsDoc   == Web("pls", "pls", 1, <<Titled("nested", a), Titled("direct", b)>>)
RamDoc   == Doc("http", "text", "urilist", "urilist", 0,
                <<It("skip", b), It("nested", a), It("stop", b), It("nested", b)>>)
AsxDoc   == Doc("http", "asx", "asxdual", "asx", 1,
                <<Titled("nested", a), It("open", b), It("nested", b),
                  Titled("close", b), It("skip", b)>>)
AsfDoc   == Web("asf", "asf", 0, <<It("direct", b)>>)
BareAsf  == Web("asf", "asf", 1, <<>>)
RssDoc   == Web("rss", "rss", 1, <<It("direct", a), It("direct", b)>>)
AtomDoc  == Web("atom", "atom", 0, <<It("direct", b)>>)
OpmlDoc  == Web("opml", "opml", 1, <<It("direct", a)>>)
SmilDoc  == Web("smil", "smil", 1, <<It("direct", a)>>)
XspfDoc  == Web("xspf", "xspf", 0, <<It("direct", a)>>)
PlaDoc   == Web("pla", "pla", 1, <<It("direct", a), It("bad", b)>>)
GvpDoc   == Web("gvp", "gvp", 0, <<It("direct", b)>>)
QtDoc    == Web("quicktime", "quicktime", 0, <<It("direct", a)>>)
LinkDoc  == Web("desktop", "desktop", 0, <<It("link", a)>>)
DirDoc   == Doc("file", "directory", "directory", "list", 0,
                <<It("nested", a), It("nested", b)>>)
LockedDir == Doc("file", "directory", "directory", "locked", 0, <<>>)
IsoDoc   == Doc("file", "iso", "iso", "disc", 0, <<It("direct", b)>>)
CueDoc   == Doc("file", "cue", "cue", "other", 0, <<It("direct", b)>>)
BlockDoc == Doc("file", "block", "block", "disc", 0, <<It("direct", b)>>)
Video    == Web("media", "other", 0, <<>>)
Stream   == Doc("stream", "media", "none", "other", 0, <<>>)
Feed     == Doc("feed", "none", "rss", "rss", 1, <<It("direct", b)>>)
ItmsPage == Doc("itms", "none", "none", "other", 0, <<>>)
ZuneFeed == Doc("zune", "rss", "rss", "rss", 0, <<>>)
Nothing  == Doc("http", "none", "none", "other", 0, <<>>)
Blank    == Doc("http", "unknown", "empty", "blank", 0, <<>>)

Safe   == {M3uDoc, PlsDoc, RamDoc, AsxDoc, AsfDoc, RssDoc, AtomDoc, OpmlDoc,
           SmilDoc, XspfDoc, PlaDoc, GvpDoc, QtDoc, BareAsf, Video}
Unsafe == {LinkDoc, DirDoc, LockedDir, IsoDoc, CueDoc, BlockDoc}
Other  == {Stream, Nothing, Blank}

\* The same documents behind a name that says little, or something else.
Renamed(ds, names) == {[d EXCEPT !.name = n] : d \in ds, n \in names}

\* A location that is not a feed, whatever its name, with a playlist, a feed, a
\* stream or a video nested in it.
TypeLibraries ==
  Library(Safe \cup Unsafe \cup Other
            \cup Renamed(Safe, {"none", "text", "php", "mpeg", "asxdual"})
            \cup Renamed(Unsafe, {"none", "unknown"}) \cup Renamed({DirDoc}, {"real"})
            \cup {Unreadable(d) : d \in Safe \cup {LinkDoc}},
          {M3uDoc, AtomDoc, OpmlDoc, Video, Stream, LinkDoc, Feed}, {Video})
    \cup Library({DirDoc}, {BareAsf}, {Video})

AsxWith(items) == [AsxDoc EXCEPT !.items = items]

\* Playlists whose handlers announce them, nested in and next to each other; the
\* last two have a repeat, the second of them one whose title has no text.
Announced == {PlsDoc, AsxDoc, RssDoc, AtomDoc, [PlaDoc EXCEPT !.items = <<It("direct", b)>>],
              OpmlDoc, [AtomDoc EXCEPT !.items = <<>>], [AsxDoc EXCEPT !.heads = 2],
              [PlsDoc EXCEPT !.items = <<It("nested", r), It("nested", b)>>],
              [M3uDoc EXCEPT !.items = <<It("nested", a), It("nested", r)>>],
              [AsxDoc EXCEPT !.named = FALSE],
              AsxWith(<<It("nested", b), It("open", b), It("nested", r), Titled("close", b)>>),
              AsxWith(<<It("open", b), It("nested", r), It("close", b)>>)}
SignalLibraries == Library(Announced \cup {Feed, ZuneFeed, ItmsPage}, Announced,
                           {Video, RssDoc, Feed, Stream})

\* Cycles, documents of every type, and playlists that announce themselves.
AllLibraries == CyclicLibraries \cup TypeLibraries \cup SignalLibraries

-----------------------------------------------------------------------------
\* The documents behind docs_nested_fetched.
FlatLinks == Library({[M3uDoc EXCEPT !.items = [i \in 1 .. 4 |-> It("nested", a)]]},
                     {LinkDoc}, {Video})

=============================================================================
