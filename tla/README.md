# A verification model of the idol playlist parser

The repository holds a GObject library that parses and writes playlists
(`src/plparse`).  An application gives `IdolPlParser` a location; the library
finds out whether that is a playlist, which of some twenty formats it has, and
emits `::entry-parsed`, `::playlist-started` and `::playlist-ended` signals for
what it holds, looking into the playlists nested in it.  It also keeps playlists
(`IdolPlPlaylist`) and writes them in five formats.

This directory models the library in TLA+: the modules are checked by TLC on
small instances, and the properties that matter most are proved with TLAPS for
all instances.  Line numbers refer to the files under `src/plparse`.

## Inventory

| component | where | state | operations | what is hard about it |
|---|---|---|---|---|
| parser core | `idol-pl-parser.c` | the options and ignore lists of the object; `IdolPlParseData` of one parse (`recurse_level`, `fallback`, copied options) | `parse_with_base`, the recursive `parse_internal`, `set_property`, `add_ignored_*` | documents refer to each other in cycles; state shared by pointer along the C stack; early returns |
| recursive handlers | `-lines.c` (M3U, RAM), `-pls.c`, `-wm.c` (ASX), `-misc.c` (desktop), `-media.c` (directory) | locals of a loop: position, pending `#EXTINF`, saved fallback | one call per playlist | they call back into `parse_internal` for every item |
| leaf handlers | `-podcast.c`, `-xspf.c`, `-smil.c`, `-pla.c`, `-qt.c`, `-wm.c` (ASF), `-misc.c` (GVP), `-media.c` (ISO, cue, block) | none | one call per playlist | which result they return after having reported how much |
| signals and threads | `idol-pl-parser.c`, `-private.h` (`CALL_ASYNC`) | sources of the main loop, references, `ignore_mutex` | `parse_async`, `parse_thread`, signal emission, cancellation | order of signals and completion, races with cancellation and with `g_object_set` |
| playlists | `idol-pl-playlist.c` | a `GList` of hash tables, iterators held by the application | prepend, append, insert, set, first, next, prev | stale iterators |
| savers | `save`, `save_pls`, `save_m3u`, `save_xspf`, `save_pla` | an output stream | one call per save | errors in the middle, ignore lists that change meanwhile |
| discs | `idol-disc.c` | `CdCache` of one call, mounts shared with everybody | `idol_cd_detect_type*`, `idol_cd_has_medium` | iterates the main context while it waits for a mount, also from threads of its own |
| XML | `xmllexer.c`, `xmlparser.c` | a lexer and a token buffer per document, the C stack | build and free a tree | unclosed, surplus and cut-off elements, a buffer that grows and is not cleared, bounded recursion |
| helpers | durations, dates, INI lines, URIs | none | pure functions | arithmetic, conversions |

The application calls the core and the playlists; the core calls handlers, which
call the core again (nested playlists), `idol-disc.c` (directories, ISO images,
devices) and the XML parser; all of them emit signals through the object, in the
thread they run in or through the main loop; the savers walk a playlist with
iterators and ask the object for its ignore lists.

`PROJECT.json` lists under "hazards" where in the code things can go wrong in
ways a test would hardly reach, each with the properties that watch over it.

## The modules

| module | what it is | composed of |
|---|---|---|
| `PlParse` | one synchronous parse: dispatcher and handlers | - |
| `PlFlatten` | abstract: a playlist is flattened in document order | - |
| `PlParseFlattens` | the refinement mapping from `PlParse` to `PlFlatten` | `PlParse`, instance of `PlFlatten` |
| `PlParseDocs` | what the documentation says of a parse and the runs refute | `PlParse` |
| `PlParseProofs` | theorems about the state of `PlParse` and what it reports, the safety part of the refinement | `PlParseFlattens`, TLAPS |
| `AsyncParse` | threads, main loop, references, mutex, options, cancellation | - |
| `AsyncPromise` | abstract: signals in order, then the outcome, once | - |
| `AsyncParseKeeps` | the refinement mapping from `AsyncParse` to `AsyncPromise` | `AsyncParse`, instance of `AsyncPromise` |
| `AsyncParseProofs` | theorems about `AsyncParse`, the safety part of the refinement | `AsyncParseKeeps`, TLAPS |
| `PlPlaylist` | playlists and iterators | - |
| `PlPlaylistProofs` | theorems about `PlPlaylist` | `PlPlaylist`, TLAPS |
| `PlFormats` | the lines of the five formats | - |
| `PlSave` | the savers, step by step | `PlFormats` |
| `PlSaveProofs` | theorems about `PlSave` | `PlSave`, TLAPS |
| `PlSavedParse` | saving and then parsing | `PlParse`, `PlFormats` |
| `Durations` | texts to seconds, in an int | - |
| `PlsEntries` | how a PLS finds its entries | `Durations` |
| `PlsEntriesProofs` | theorems about `PlsEntries` and `Durations` | `PlsEntries`, TLAPS |
| `CdCache` | calls that look at discs, mounts, the main context | - |
| `CdCacheProofs` | theorems about `CdCache` | `CdCache`, TLAPS |
| `XmlLexer` | characters to tokens | - |
| `XmlParser` | tokens to a tree | `XmlLexer` |
| `XmlDocs` | documents, whole or cut off, and what their trees are | `XmlParser` |
| `XmlDocsProofs` | a theorem about `XmlDocs` | `XmlDocs`, TLAPS |
| `XmlEntries` | trees of SMIL, RSS and Atom to entries | - |
| `XmlEntriesProofs` | theorems about `XmlEntries` | `XmlEntries`, TLAPS |
| `MC_*` | instances for TLC, one per specification | the above |

Definitions named as a mutant in a comment ("Mutant: ...") are plausible bugs.
They are used by no specification; replacing the definition they stand before
by one of them must make a property fail, and does.

### PlParse: the parser core

The variable `stack` is the C stack: one frame for each handler that loops over
the items of its playlist.  `level` and `fallback` are the fields of
`IdolPlParseData`, which the nested calls share by pointer; `opts` are the
options copied from the object, which do not change during a parse.  `pc` says
whether the thread is about to call `parse_internal` ("enter"), in a loop
("run"), or coming back ("return").

| action | code |
|---|---|
| `ParseWithBase`, `ParseReturns` | `idol_pl_parser_parse_with_base` |
| `EnterTooDeep` ... `EnterOther` | `idol_pl_parser_parse_internal`, one action per way through it |
| `Handle`, `Call`, `AddM3u` ... `AddDirectory` | the handlers: what they emit and return, or that they start a loop |
| `ReportItem`, `SkipItem`, `StopAtItem`, `RepeatItem` | one turn of a loop that does not recurse |
| `ParseItem`, `ItemParsed` | the call of `parse_internal` for an item, and what follows its return |
| `EndLoop` | what follows the loop, and the end of the caller's `parse_internal` |

A document is a record: scheme, the type its name suggests, the type its
contents suggest, what the contents are, how many headers they have and which
items.  The library is a function from locations to documents, chosen by `Init`
from the constant `Libraries`; an item may refer to any location, its own
document included.  MIME types are grouped into classes, one per handler and
per way the dispatcher treats them; `TextTypes` is what the shared MIME database
derives from text/plain.

Conventions of the model:

- A location that is a feed or a leaf playlist is handled in one step, since its
  handler calls nothing that calls back.
- The `repeat` elements of an ASX are flattened into items: an "open" for every
  title in one, since each starts the playlist, and a "close" at its end, which ends
  it only if the last title has text.  `heads` and `named` say the same of the titles
  outside.  A cue sheet is a playlist of one item, its Video CD.
- `list`, `item` and `title` in a signal are history: they say which playlist
  made the parser emit it, and only properties look at them.
- A document `d` with `d.data` "none" has contents nobody recognises; reading it
  leaves data behind, as in `my_g_file_info_get_mime_type_with_data`.
- `leaked` is history as well: it counts the increments of `recurse_level` that
  the early return for unsafe types (line 1881) never undoes.

`UnsafeNotParsed` says that with disable-unsafe on no handler of an unsafe type runs
and no unsafe document is read out, unless it is disguised: its name promises a handler
of a safe or a dual type, or its scheme makes it a feed.  For a dual type the code picks
the handler by contents and does not look at the unsafe column again (line 1920).

### AsyncParse: threads and the main loop

A parse is reduced to what the threads share.  `at[o]` is where the code of parse
`o` is: queued in GIO, checking its cancellable, in or between the two critical
sections of `ignore_mutex`, copying options, emitting, returning.  `sources` is
the queue of the default main context, with priorities; `refs` the reference
count of the parser object.  A parse runs in a worker (`parse_async`), in a
thread of the application, or in the main thread, where `CALL_ASYNC` emits
signals at once.  Outside the library, and modelled from how it is used: the main
context, the pool of GIO and `GCancellable`.  `idol_pl_parser_add_ignored_scheme`
is called by the main thread; adding a MIME type follows the same pattern under
the same mutex and is not an action of its own.  That GIO drops a queued parse whose
cancellable fires before a thread takes it up happens outside the library, and is left
out: the model has a queued parse start and find itself cancelled.  What the parser is told while
a worker runs is nondeterministic: properties may be set, schemes added, parses
cancelled and the application's reference dropped at any step.

### PlPlaylist: playlists and iterators

`items` is the `GList` of each playlist as a sequence of nodes, `iters` the two
pointers of each iterator, which the application can use with any playlist in any
order.  `CheckIter` is `check_iter`: every call that gets an iterator asks it
first.  `visited` and `due` are history: what a walk has come past and what there
was when it began.  A finalized playlist is not used again, as for every
GObject; its memory is not modelled beyond that.

### PlFormats, PlSave and PlSavedParse: saving

`PlFormats` says which lines each format consists of, with the entry a line is
about.  `PlSave` writes them one at a time: before every line the write may fail,
after every step another thread may have a scheme ignored, and closing the stream
either replaces the destination or fails silently, because the savers close by
dropping the last reference.  A write that fails is taken to have written
nothing.  The playlist is not changed while it is saved.  `PlSavedParse` turns the
lines back into a document and runs `PlParse` on it, for the same thread and
without failures.  What is lost on the way by design of the code is named in
`ReadUri`, `Findable` and `KeepsTitle`: shares in an M3U written for DOS, file
names that begin with `#` in an M3U, `?` in the file names of an XSPF, titles of
entries that report themselves.  A PLA is saved with a title by contract: the code
passes the title to `strncpy`, and no title is undefined behaviour, which
the model leaves out.

### PlsEntries and Durations: the entries of a PLS

`PlParse` has the items of a PLS in the order they are reported.  How the handler
finds them is here: lines go into a hash table, keys that begin with "file" are
counted, and `file1`, `file2`, ... are looked up until that many have been found,
with an unsigned counter up to `UINT_MAX`.  The code prints the counter with `%d`, so
beyond `G_MAXINT` it looks keys up with negative numbers; a number in the model stands
for the key it is printed as, "file-2" included.  The length of an entry goes through
`ParseDuration`, and an entry whose length is negative is a stream.  A text is a
sequence of numbers and characters, since all that `sscanf` tells apart are the
numbers and what is between them; sums are computed in an int, up to `INT_MAX`, so
a length that does not fit (more than 596523 hours in the code) wraps.

### CdCache: discs and devices

`call[c]` is one call of a detecting function: `pc`, its `CdCache`, the
`CdCacheCallbackData` of its current wait (`called`, `result`) and what it
returns.  `stack` is the C stack of the main thread: a call made from a callback
that an iteration of another call dispatches is on top of it.  `requests` are
mounts and unmounts gvfs has to carry out, `sources` their completions in the
default main context.

| action | code |
|---|---|
| `NewRemote` ... `NewNoDisc`, `MountedIso`, `GuessTree` | `cd_cache_new`, one action for each way through it |
| `FindMedium` | `idol_cd_has_medium` |
| `OpenDevice`, `DetectCdda`, `OpenMountpoint`, `MountedVolume`, `DetectType`, `DetectParent` | the detecting functions and `cd_cache_disc_is_*` below them |
| `CdCacheFree`, `Unmounted` | `cd_cache_free` |
| `AskFor`, `Iterate`, `Dispatch`, `Own`, `WakeUp` | `while (!data.called) g_main_context_iteration (NULL, TRUE)` |
| `LoopDispatches`, `CompleteMount`, `CompleteUnmount` | `g_main_loop_run` and gvfs (external) |

Only one thread at a time owns the default context; `g_main_loop_run` owns it
throughout.  A call in another thread therefore waits to own it, and when the owner
dispatches the callback it waits for, nobody wakes it: the test of `data.called` is
made only when the iteration returns.  `Contended` names these situations; a disc
image looked at in a worker while the application's main loop runs, the normal case
of an asynchronous parse of an image, is one of them, and it ends only if the
condition variable is woken for another reason.

Other things the model shows of the code, which its properties name as exceptions:
the content types of a volume that is not mounted are not asked for again once it
is mounted, so a disc that was not mounted is taken for data; the parent of a
directory given as a URI, which is how the directory handler gives it, is not
looked at, since the URI is taken for a path; and a call whose image another call
unmounts may find the wrong type.  `idol_cd_detect_type_with_url` reads `*error`
although its callers pass NULL when a device has no medium (line 764); the model
gives each call a place for an error.

### XmlLexer, XmlParser, XmlDocs: XML documents

`XmlLexer` takes one character at a time, as `lexer_get_token_d_r` does: its state,
`tok_pos`, `lex_mode` and `in_comment`, and the token buffer with what earlier
tokens left in it.  A keyword like `OCTYPE` or `CDATA[` is one character of the
model.  `XmlParser` has the recursion of `xml_parser_get_node_internal` as a stack of
frames and the tree in document order; `XmlDocs` puts documents together from
pieces, cuts them off anywhere, and says what tree the pieces stand for without
knowing of characters or tokens.

What the reference says of documents that are not well-formed is what the relaxed
parser promises: a missing closing tag is made up for by the closing tag of an
element around it, a surplus one is ignored, and the end of the document closes
nothing but is no error.  Peculiarities it has to repeat: text behind a comment that
`idol_pl_parser_cleanup_xml` leaves in the document is an error; a name without a
value is lost in front of another name and an error in front of `/>`; text longer
than the token buffer loses all but its tail, since the buffer is doubled and the
token begun anew; a CDATA section shorter than what is left in the buffer carries that
with it (run `docs_cdata`); and a document cut off within a comment or a DOCTYPE is
read for ever, because `T_EOF` is ignored there like any token (`CutWithin` in
`Ends`).

Left out: quotes within comments that stay, and the terminator of a token that just
fills the buffer.

### XmlEntries: from trees to entries

How `parse_smil_entry`, `parse_rss_item` and `parse_atom_entry` collect the fields of an
entry from elements in any order, and when it is reported.  A document is a tree: a
function from the paths to its elements to their names, the properties they have and the
number of their children; the value of a field is the path to the
element it was found at, so that a property can say where every field has to come from.
One field stands for all that are treated alike.  Two facts of the code are visible
in the module: an Atom link without a `rel` is taken for an enclosure, because
`g_ascii_strcasecmp (NULL, ...)` returns 0, and the branch for a license is never
reached.  Left out are content types, durations and descriptions.

## The runs

Runs that pass (a few seconds to two minutes each):

| run | what it shows | instance |
|---|---|---|
| `parse` | `TypeOK`, `LevelAccounting`, `FramesWait`, `FallbackDiscipline`, `TitleBelongs`, `OnlyRootWithoutRecurse`, `UnsafeNotParsed`, `SignalsPaired` and `Termination` | three locations, limit 2, all options: playlists that contain themselves and each other; every document form, with every item it can hold, behind names that say the truth, nothing, or something else; playlists that announce themselves nested in and next to each other |
| `flattens` | `Flattens`: `PlParse` implements `PlFlatten` | playlists that contain themselves and each other and seven kinds of leaf, limit 1, no unsafe types refused |
| `threads` | `TypeOK`, `RefAccounting`, `MutualExclusion`, `DeliveredOnReturn`, `StoppedEarly`, `OptionsWhole`, and `KeepsPromise`: `AsyncParse` implements `AsyncPromise`, liveness included | an asynchronous parse with two signals, one in a thread and one in the main thread with one signal each, a scheme that can become ignored, one property change |
| `iterators` | `OnePlace`, `NeverAstray`, `WalkWhole`, `ElementsKeep` | two playlists, two iterators, three nodes, positions from -1 to past the end |
| `writes` | `WellFormed`, `NothingLost`, `StreamReleased`, `SaveEnds` | playlists of up to three entries in all formats |
| `back` | `EntriesReadBack` | playlists of up to two entries, every place an entry can be; force and disable-unsafe off, recurse and fallback as they may be |
| `pls_lines` | `EntriesReported`, `EndsIfFindable` | all files of up to four lines without lengths and of up to three with, every form of a length; 3-bit counter, 14-bit int |
| `discs` | `CallbackHasItsFrame`, `ImagesGivenBack`, `DetectsWhatIsThere`, `CallsReturn` | two calls of the main thread and one of another thread, through all five functions, with and without a main loop, at one location that holds any of twelve things, mounted or not |
| `xml` | `InBounds`, `TreeIsDocument`, `Ends` | some six hundred documents of up to four pieces, those of up to three cut off at every character; a token buffer of 8, recursion to 3 |
| `entries` | `EntriesWhole`, `AnnouncedWhole` | SMIL, RSS and Atom trees with their elements in every order, groups nested in groups, properties present and missing |

Why the bounds are enough.  With three locations there is a playlist that
contains itself, two that contain each other, and a leaf next to a nested
playlist; a limit of 2 is reached, passed, and passed again after leaked levels.
The properties of the core relate a frame to the one below it, and three frames
occur.  With one caller of each kind (a worker, a thread of the application, the
main thread) every pair of kinds meets at the mutex and in the main loop; that the
safety properties hold of any number of callers is proved.  Four lines of
a PLS allow a duplicate, a gap, a key that is only a prefix and a title at once,
and eight numbers make the counter wrap; in 14 bits a length of three hours does
not fit.  Two calls of the main thread nest or follow each other, with the third
as the rival for the context; all meet at one location, since calls at different
locations share nothing but the context.  In XML three open
elements reach the limit of the recursion and make a closing tag close two others,
and texts are shorter and longer than the buffer, which is doubled.

The runs of `AsyncParse`, `PlPlaylist`, `CdCache`, `XmlDocs` and `XmlEntries` do not
check for deadlock: there an application that asks for nothing more, or the end of
the document, stops the system.  That calls return and documents end are
properties of their own.

Runs that end in a violation (`docs_*`) each check one statement of the
documentation, a comment or the header, and show how the code does something
else; "findings" in `PROJECT.json` quotes the statement and says what happens.
They are:

- `docs_nested_fetched`: unsafe items of one flat playlist use up the recursion
  limit for those that follow;
- `docs_cdata`: the data of an element with a short CDATA section ends in what was
  in the token buffer before.

The model has more places where the code does something else than its
documentation says; they are single conditions that need no run: an Atom feed
without entries ends without having been started; a cancellation after the worker
has started goes unnoticed; a worker can copy options half old and half new; an
error of closing a saved file is lost, and TRUE is returned; an OPML starts
and never ends; an ASX, or a `repeat` in it, starts with every title, but ends once and
only if the last title has text; PLS and PLA end with their title in place of the URI; feeds are
fetched with recurse off; the fallback is not consulted for streams, untyped
locations and ignored schemes; an ignored scheme yields UNHANDLED where the header
says IGNORED, and so does a PLA that was parsed; only the location that is asked
for is checked against the ignored schemes, and a playlist reports its items of an
ignored MIME type; a negative position of an insert appends.

`SignalsPaired` and `OnlyRootWithoutRecurse` name as exceptions the formats and
schemes for which the code does this, and their instance contains them.

## Fairness

- `PlParse`, `PlsEntries`: weak fairness of the next-state relation.  The code
  runs in one thread, and every read ends, with contents or an error.
- `PlSave`: weak fairness of the saver.  Nothing is assumed of the other thread.
- `AsyncParse`: weak fairness of every parse's thread and of the main loop.  The
  application is never forced to ask for anything.  Weak fairness is enough for
  the mutex because the only critical sections are short and the scheme lists are
  changed finitely often.
- `CdCache`: weak fairness of the main thread, of gvfs, and of every other thread.
  Nobody is forced to make a call, and a wait for the context is not assumed to end
  without a cause (`g_cond_wait` may, but need not).
- `XmlDocs`: weak fairness of the next-state relation; one thread, which waits for
  nothing.
- `PlPlaylist`, `XmlEntries`: none; they have no liveness.

## What is proved

Every safety invariant the runs check is proved for all values of the constants, under
the assumptions the modules state about them, except the two named at the end of this
section.  Each proof has the form `Init => IInv`, one lemma per action or group of
actions for `IInv /\ [Next]_vars => IInv'`, `IInv => Property`, and a temporal step.
The inductive invariants were checked by TLC on the instance of the run before they
were proved.

`PlParseProofs`, for every set of locations, every library, all options and every limit:

- `TypeCorrect`: `Spec => []TypeOK`.  `recurse_level` is decremented with every
  loop that ends and is unsigned in C, so "level is a natural number" has to be
  earned: the inductive invariant joins `TypeOK` with `level = Len(stack) +
  leaked`.  A handler that loops was called one level up; the frame is pushed when
  the level goes up and popped when it goes down.
- `LevelBounded`: `Spec => []LevelAccounting`.  The bound follows because the level
  goes up only in `StartLoop` and `EnterUnsafe`, both behind the test against the
  limit, and by one.  So `Len(stack)` is bounded by the limit plus one however the
  documents refer to each other.
- `FallbackRestored` and `LoopsWait`: `FallbackDiscipline` and `FramesWait`.
  `FallbackDiscipline` alone is not inductive: that the assignment after the
  nested parse restores the right value needs the value the frame saved, for every
  frame at once; `FramesWait` says what it is.

- `TitlesBelong`, `RecurseObeyed` and `UnsafeBarred`.  The invariant (`RInv`) says of
  every frame that it may run (`MayRun`) and what the pending `#EXTINF` line it carries
  is (`TitleHeld`: one with only lines without an entry behind it), and of every
  signal sent that the frame that sent it was entitled to.  `ExtinfAssumption`, that
  an `#EXTINF` line is not itself an entry with a title, is how `add_m3u` reads a file.
- `SignalsBracket`: `SignalsPaired`.  The property counts signals; the invariant
  (`SInv`) instead names the starts that are still open: a set of positions for each
  frame of the stack, as many as the handler has announced and titles in `repeat` elements it
  has open, those of an inner frame behind those of an outer one, with as many
  starts as ends of every playlist between two neighbours.  A signal then opens,
  closes the last open one, or leaves the sets alone.

- `FlattensSafely`: `Spec /\ Plain => Flat!Init /\ [][Flat!Next]_(Flat!vars)`, the safety
  part of `Flattens`.  The work list of `PlFlatten` is on the C stack, in reverse: the
  rest of the loop of every frame, the innermost first (`Behind`), and in front of it
  the item the innermost loop is at (`Left`).  An inductive invariant (`FInv`) makes the
  steps match: the frames are those the outcomes of their documents ask for
  (`Outcome`, `KindOf`: the dispatch of `parse_internal` as a function of the document),
  whatever is being parsed is the item the loop below waits for, nothing has leaked, and
  a failure handed back means that there was nothing to look into.  Then a loop that
  starts is `Expand`, a handler that runs to the end is `Include`, `Report` or `Drop`, an
  item that parse_internal is not asked about or that failed is `Report`, and
  everything else moves a position or a frame without changing what is left.
- `Plain` says for which parses: the `recurse` property is on and the scheme of the
  location is not ignored, or nothing is looked into; `disable-unsafe` is off, or a
  level leaks with every document refused and documents are refused for their depth too
  early; no name is taken for MPEG audio without `force`, because
  such a document is read at the top and not when it is nested; and no PLA, because
  `add_pla` reports entries and then a failure, so that they and the PLA are both reported.
  Each of the four is a way in which the code is no flattening.
  `NestingIsPlain` in `MC_PlParse` has TLC confirm that all documents of the run qualify.

`AsyncParseProofs`, for any number of parses, threads, workers, signals and schemes:

- `MutexHeld`: `ignore_mutex` is held exactly by the parse in a critical section.
  The invariant adds that the main thread holds it exactly while it adds a scheme.
- `StoppedForGood`: `StoppedEarly` is not inductive as it stands; the invariant
  adds where a doomed parse can be (it cannot get past the check that dooms it) and
  that the ignore list only grows.
- `HeardOnReturn`: `DeliveredOnReturn`.  The invariant (`LInv`) describes the sources
  of the main loop: those of a parse are its signals in order, the ones emitted and not
  yet heard, and its completion, which is the last; none belongs to a parse in
  the main thread.
- `References` and `TypeCorrect`: `RefAccounting` and `TypeOK`.  The reference count is the
  application's reference, plus the operations in flight, plus the signals in the loop,
  as cardinalities of sets; that it never drops below zero follows.
- `OptionsStood`: `OptionsWhole`, with what a parse half-way through its copy has.
- `PromiseSafe`: the initial states and steps of `AsyncParse` are initial states and
  steps, or stutters, of `AsyncPromise` under the mapping of `AsyncParseKeeps`.  It is the
  safety part of `KeepsPromise`; that the callback comes is liveness.

`PlPlaylistProofs`, for any number of playlists, iterators, nodes and keys:

- `TypeCorrect`, `NodesApart` (`OnePlace`) and `IteratorsTrue` (`NeverAstray`) are
  inductive together: an iterator stays in the playlist it names because no node is in
  two, and an element is inserted where it is because the iterator is checked.
- `ElementsUndisturbed`: the action property `ElementsKeep`.
- `WalksWhole`: `WalkWhole`.  An insertion moves the elements behind it, so the
  invariant speaks of what lies before what and not of positions: a walk went forward
  all the time, and what was there at its start and has not been met lies ahead.

`PlSaveProofs`, for playlists of any length in every format:

- `TypeCorrect`, `FileWellFormed` (`WellFormed`), `NothingIsLost` (`NothingLost`) and
  `StreamDropped` (`StreamReleased`).  The inductive invariant says what the stream has
  taken so far (with what is in `todo`, the head and the lines of the entries kept), how
  often the stream is held, how the number announced by `NumberOfEntries` compares with
  the entries kept and those ahead, and which entries behind the iterator were kept.
  The contents are a `FlattenSeq`; the lemmas about it go by induction on a set of
  numbers, from the well-foundedness of the naturals.

`PlsEntriesProofs`, for files of any number of lines, any lengths, and counters and ints
of any width:

- `TypeCorrect` and `EntriesAreReported` (`EntriesReported`).  The invariant says of the
  table that it has the last of the lines loaded so far with each key; of the count that
  it is the number of lines of the two counted kinds; and of the loop that what was found
  is a number of whole turns and the locations earlier than the counter in this one,
  turns being unbounded and in no variable of the code.  That the entries come again
  if and only if a key too many was counted compares the locations with the counted
  lines, by an injection.
- `DurationIsSeconds`, a lemma: the formats of `idol_pl_parser_parse_duration` agree with
  the clock of `Seconds` on every text whose seconds an int can hold.
- `EndsOnlyIfFindable`: the half of `EndsIfFindable` that is no liveness.

`CdCacheProofs`, for any number of nested calls, threads, places and discs:

- `TypeCorrect`: `Spec => []TypeOK`.
- `CallbacksHaveTheirFrame`: `Spec => []CallbackHasItsFrame`.  A mount callback writes
  through a pointer into the frame of the function that waits; the theorem says that
  this function has not returned.  The invariant is inductive together with `TypeOK`:
  a call leaves its wait only when `called` is set, `called` is set only when the
  completion is dispatched, and a completion comes only of a request, of which a call
  has at most one.
- `ImagesRestored` (`ImagesGivenBack`) and `TypesAreRight` (`DetectsWhatIsThere`).  The
  invariant adds what a call knows of the disc at its place at each point of its code
  (`Knows`), that the calls on the stack are the ones inside an iteration (`Nested`), and
  that an image not mounted at the start and mounted now has exactly one call that
  will give it back, unless an unmount failed (`Images`).

`XmlDocsProofs`, for documents of any length, any buffer and any limit:

- `StaysInBounds`: `Spec => []InBounds`.  For the lexer, the invariant adds that the
  characters `-->` gives back behind a name had been taken.  For the parser, it adds that
  the nodes the calls fill lie behind one another in the tree, so that what an
  error cuts off belongs to no call around it; that only the innermost call can have
  decided to close others, and no more than there are; and that a call that has a
  subtree has a node in the tree behind the first one.  `DocumentsAssumption` says that
  documents are text, in which no element is called `[CDATA]`, the name the parser gives
  to the nodes it makes for text.

`XmlEntriesProofs`, for documents of any size and depth:

- `AnnouncedOnce`: `AnnouncedWhole`.  The invariant (`Announced`) says that what is known of
  the feed before it is announced is what the elements passed so far say (`SoFar`): the
  last one of a name, or the first of its substitute, behind the last without text.
- `EntriesComeWhole`: `EntriesWhole`.  For a feed, the invariant (`Feeding`) says what the
  item under way has from the elements passed (`Held`) and that exactly the located items
  behind it have been reported, in order (`Given`).  For a SMIL (`Showing`), every loop on
  the stack holds the last medium it passed with the last `textstream` behind that
  (`Waiting`), and what has been reported are the media that were complete before the
  place the innermost loop is at (`Sent`).  Each step then moves that place to the next
  one at which something can be complete (`Passes`), which is a fact about document order
  on paths: the first half of the module is lemmas about it.  `DocumentsAssumption` says that
  a document is a tree: it has the parents of its elements, and their children are numbered.

Only model-checked:

- `Termination`, `SaveEnds`, that the loop of `EndsIfFindable` ends, `CallsReturn`, `Ends` and the liveness part
  of the two refinements, `Flattens` and `KeepsPromise`: liveness under fairness is out of the prover's reach.
- `TreeIsDocument` and `EntriesReadBack`, which compare a run with definitions by recursion
  over the document.  They need an induction over data, which the library's theorems do
  not offer in a form the provers can use; the way round it taken for `FlattenSeq`, by the
  well-foundedness of the naturals, would have to be taken for every operator they use.

## What is not modelled

- Of `idol-disc.c`, the text of an MRL and the choice among several volumes of a drive.
- Of the XML code, conversion from UTF-16 and UTF-32, numeric entities, the second
  parse for a declared encoding, the deprecated API on a global parser, printing and
  freeing trees: data without control, or control without state.
- How the entries of OPML, XSPF and ASX are put together: the same pattern as in
  `XmlEntries`, with one element per field.  `PlParse` has what they report.
- Text: MIME sniffing, URI resolution and character sets are modelled by their
  outcome where a property depends on it, otherwise left out.  Dates are converted by
  GLib or GMime.
- `videosite.c`: a call into libquvi, optional at build time.
- GLib and GIO, except for the parts of the main loop, thread pool, lists, hash
  tables and streams the modules name as external.
- Allocation failure (GLib aborts), and `lib/asprintf.c`.

## Plan

In this order; what is done is marked.

1. Core: `PlParse`, its runs, refinement and first theorems (done).
2. Threads: `AsyncParse`, its refinement and theorems (done).
3. Playlists, savers, round trip, PLS entries and durations (done).
4. Discs: `CdCache`, its run and theorems (done).
5. XML: lexer, parser, and the tree against a reference definition (done).
6. The entries of SMIL, RSS and Atom (done).
7. Proofs: the safety invariants of every component and the safety parts of the two
   refinements (done).  Left: `TreeIsDocument` and `EntriesReadBack`, see above.
