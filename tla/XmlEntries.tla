----------------------------- MODULE XmlEntries -----------------------------
(***************************************************************************)
(* How parse_smil_entries, parse_rss_items and parse_atom_entries put an   *)
(* entry together from the elements of a document and report it.           *)
(*                                                                         *)
(* A document is the tree of XmlParser: the elements by the paths to them, *)
(* a path being the number of each element among its siblings on the way   *)
(* from the root.  An element has a name, which stands for the properties  *)
(* that select a branch as well ("title_meta" is a meta whose name is      *)
(* title, "link", "enclosure" and "alternate" are links without a rel,     *)
(* with rel="enclosure" and with another), the set of the properties it    *)
(* has, "data" being its text, and a number of children.  What a property  *)
(* says is the place it was found at: the path to its element.             *)
(***************************************************************************)
EXTENDS Naturals, SequencesExt

CONSTANT Documents

ASSUME DocumentsAssumption ==
  \A d \in Documents :
    /\ <<>> \in DOMAIN d
    /\ \A p \in DOMAIN d :
         /\ p \in Seq(Nat \ {0}) /\ d[p].kids \in Nat
         /\ \A i \in 1 .. d[p].kids : Append(p, i) \in DOMAIN d
         /\ \A n \in 1 .. Len(p) :
              SubSeq(p, 1, n - 1) \in DOMAIN d /\ p[n] <= d[SubSeq(p, 1, n - 1)].kids

VARIABLES
  doc,     \* the document, of one of the three formats
  calls,   \* the loops over the children of an element, the innermost last
  title,   \* SMIL: the title of the head
  feed,    \* RSS and Atom: what is known of the feed
  phase,   \* RSS: "feed" in the first of its two loops; "done" at the end
  out,     \* what was reported
  retval

vars == <<doc, calls, title, feed, phase, out, retval>>

At(p) == doc[p]

NULL == <<>>
Value(p, property) == IF property \in At(p).has THEN p ELSE NULL

Format == At(<<>>).name

(* author stands for the fields that come like it, in SMIL from the media  *)
(* element, in a feed from elements of their own.                          *)
NoEntry == [uri |-> NULL, title |-> NULL, author |-> NULL, size |-> NULL, subtitle |-> NULL]

Call(p) == [at |-> p, next |-> 1, entry |-> NoEntry]

Top == calls[Len(calls)]
AtEnd == Top.next > At(Top.at).kids
node == Append(Top.at, Top.next)
Named(names) == calls # <<>> /\ ~AtEnd /\ At(node).name \in names
Others(names) == calls # <<>> /\ ~AtEnd /\ At(node).name \notin names

InDocument == Len(calls) = 1
InEntry == Len(calls) > 1

(* Go on with the next child, with this much of the entry. *)
Collect(entry) ==
  /\ calls' = [calls EXCEPT ![Len(calls)] = [Top EXCEPT !.next = @ + 1, !.entry = entry]]
  /\ UNCHANGED <<doc, phase>>

Pass == Collect(Top.entry)

(* Do the children of this one before. *)
Enter ==
  /\ calls' = Append([calls EXCEPT ![Len(calls)].next = @ + 1], Call(node))
  /\ UNCHANGED <<doc, title>>

Leave ==
  /\ calls' = SubSeq(calls, 1, Len(calls) - 1)
  /\ UNCHANGED <<doc, title, feed>>

Report(entry) == [kind |-> "entry", entry |-> entry]
Announcement == [kind |-> "playlist", entry |-> feed]
PlaylistEnd == [kind |-> "ended", entry |-> NoEntry]

-----------------------------------------------------------------------------
(***************************************************************************)
(* SMIL.  The entry of the last media element waits for what belongs to    *)
(* it; parse_smil_entry_add is called when another media element comes, or *)
(* at the end.  Whatever a call returns, "!= FALSE" makes a success of it. *)
(***************************************************************************)
Smil == Format = "smil"
MediaNames == {"video"}
HeadTitle(p) ==
  LET metas == {i \in 1 .. At(p).kids : /\ At(Append(p, i)).name = "title_meta"
                                         /\ "content" \in At(Append(p, i)).has}
  IN  IF metas = {} THEN NULL ELSE Append(p, CHOOSE i \in metas : \A j \in metas : i <= j)

Send(entry) ==
  out' = IF entry.uri = NULL THEN out
         ELSE Append(out, Report([entry EXCEPT !.title = IF @ # NULL THEN @ ELSE title]))

SmilHead ==
  /\ Smil /\ InDocument /\ Others({"body"})
  /\ title' = IF title = NULL /\ At(node).name = "head" THEN HeadTitle(node) ELSE title
  /\ Pass /\ UNCHANGED <<feed, out, retval>>

SmilBody ==
  /\ Smil /\ InDocument /\ Named({"body"})
  /\ Enter /\ UNCHANGED <<feed, phase, out, retval>>

(* Mutant: the subtitles of the last media element are kept.               *)
SmilMediaKeeps ==
  /\ Smil /\ InEntry /\ Named(MediaNames)
  /\ Send(Top.entry)
  /\ Collect([Top.entry EXCEPT !.uri = Value(node, "src"), !.title = Value(node, "title"),
                               !.author = Value(node, "author")])
  /\ UNCHANGED <<title, feed, retval>>

SmilMedia ==
  /\ Smil /\ InEntry /\ Named(MediaNames)
  /\ Send(Top.entry)
  /\ Collect([NoEntry EXCEPT !.uri = Value(node, "src"), !.title = Value(node, "title"),
                             !.author = Value(node, "author")])
  /\ UNCHANGED <<title, feed, retval>>

SmilTextStream ==
  /\ Smil /\ InEntry /\ Named({"textstream"})
  /\ Collect([Top.entry EXCEPT !.subtitle = Value(node, "src")])
  /\ UNCHANGED <<title, feed, out, retval>>

SmilNested ==
  /\ Smil /\ InEntry /\ Others(MediaNames \cup {"textstream"})
  /\ Enter /\ UNCHANGED <<feed, phase, out, retval>>

SmilEntryEnd ==
  /\ Smil /\ InEntry /\ AtEnd
  /\ Send(Top.entry)
  /\ retval' = "success"
  /\ Leave /\ UNCHANGED phase

SmilEnd ==
  /\ Smil /\ InDocument /\ AtEnd /\ phase # "done"
  /\ phase' = "done"
  /\ UNCHANGED <<doc, calls, title, feed, out, retval>>

-----------------------------------------------------------------------------
(***************************************************************************)
(* RSS and Atom.  RSS looks at all of the feed before it announces it,     *)
(* Atom announces it at its first entry with what came before.             *)
(***************************************************************************)
Rss == Format = "rss"
Atom == Format = "atom"
ItemName == IF Rss THEN "item" ELSE "entry"

(* Mutant: the generator takes the place of an author.                     *)
FeedDataGenerator(f, name) ==
  IF name \in {"author", "generator"} THEN [f EXCEPT !.author = Value(node, "data")]
  ELSE IF name = (IF Rss THEN "image" ELSE "logo") \/ (Atom /\ name = "icon" /\ f.subtitle = NULL)
    THEN [f EXCEPT !.subtitle = Value(node, "data")]
  ELSE IF Rss /\ name = "itunes:image" /\ Value(node, "href") # NULL
    THEN [f EXCEPT !.subtitle = node]
  ELSE f

(* author stands for title, date and description too, but for the default  *)
(* the generator is for it; subtitle is the image of the feed.             *)
FeedData(f, name) ==
  IF name = "author" \/ (name = "generator" /\ f.author = NULL)
    THEN [f EXCEPT !.author = Value(node, "data")]
  ELSE IF name = (IF Rss THEN "image" ELSE "logo") \/ (Atom /\ name = "icon" /\ f.subtitle = NULL)
    THEN [f EXCEPT !.subtitle = Value(node, "data")]
  ELSE IF Rss /\ name = "itunes:image" /\ Value(node, "href") # NULL
    THEN [f EXCEPT !.subtitle = node]
  ELSE f

FeedElement ==
  /\ Rss \/ Atom
  /\ InDocument /\ phase = "feed" /\ ~AtEnd /\ ~(Atom /\ Named({ItemName}))
  /\ feed' = FeedData(feed, At(node).name)
  /\ Pass /\ UNCHANGED <<title, out, retval>>

(* The first loop over an RSS is over: the second starts at its beginning. *)
RssAnnounce ==
  /\ Rss /\ InDocument /\ phase = "feed" /\ AtEnd
  /\ out' = Append(out, Announcement)
  /\ phase' = "items"
  /\ calls' = <<Call(<<>>)>>
  /\ UNCHANGED <<doc, title, feed, retval>>

RssSkip ==
  /\ Rss /\ InDocument /\ phase = "items" /\ Others({"item"})
  /\ Pass /\ UNCHANGED <<title, feed, out, retval>>

RssItem ==
  /\ Rss /\ InDocument /\ phase = "items" /\ Named({"item"})
  /\ Enter /\ UNCHANGED <<feed, phase, out, retval>>

(* started is that something has been reported. *)
AtomEntry ==
  /\ Atom /\ InDocument /\ Named({"entry"})
  /\ out' = IF out = <<>> THEN <<Announcement>> ELSE out
  /\ Enter /\ UNCHANGED <<feed, phase, retval>>

Or(value, old) == IF value # NULL THEN value ELSE old

(* The locations of an item: url and, when they have an address, enclosure *)
(* and media:content that is audio or does not say.                        *)
RssData(e, name) ==
  IF name = "title" THEN [e EXCEPT !.title = Value(node, "data")]
  ELSE IF name = "author" THEN [e EXCEPT !.author = Value(node, "data")]
  ELSE IF name = "url" THEN [e EXCEPT !.uri = Value(node, "data")]
  ELSE IF name = "length" THEN [e EXCEPT !.size = Value(node, "data")]
  ELSE IF name \in {"enclosure", "audio_content"} /\ Value(node, "url") # NULL
    THEN [e EXCEPT !.uri = node, !.size = Or(Value(node, "length"), @)]
  ELSE e

(* g_ascii_strcasecmp (NULL, "enclosure") is 0: a link without a rel is    *)
(* taken for an enclosure.  The branch for a license is never reached.     *)
AtomData(e, name) ==
  IF name = "title" THEN [e EXCEPT !.title = Value(node, "data")]
  ELSE IF name \in {"link", "enclosure"} /\ Value(node, "href") # NULL
    THEN [e EXCEPT !.uri = node, !.size = Value(node, "length")]
  ELSE e

ItemElement ==
  /\ Rss \/ Atom
  /\ InEntry /\ ~AtEnd
  /\ Collect(IF Rss THEN RssData(Top.entry, At(node).name) ELSE AtomData(Top.entry, At(node).name))
  /\ UNCHANGED <<title, feed, out, retval>>

ItemEnd ==
  /\ Rss \/ Atom
  /\ InEntry /\ AtEnd
  /\ out' = IF Top.entry.uri = NULL THEN out ELSE Append(out, Report(Top.entry))
  /\ Leave /\ UNCHANGED <<phase, retval>>

FeedEnd ==
  /\ (Rss /\ phase = "items") \/ (Atom /\ phase = "feed")
  /\ InDocument /\ AtEnd
  /\ out' = Append(out, PlaylistEnd)
  /\ phase' = "done" /\ retval' = "success"
  /\ UNCHANGED <<doc, calls, title, feed>>

-----------------------------------------------------------------------------
Init ==
  /\ doc \in Documents
  /\ calls = <<Call(<<>>)>>
  /\ title = NULL /\ feed = NoEntry /\ phase = "feed" /\ out = <<>> /\ retval = "error"

Next ==
  \/ SmilHead \/ SmilBody \/ SmilMedia \/ SmilTextStream \/ SmilNested
  \/ SmilEntryEnd \/ SmilEnd
  \/ FeedElement \/ RssAnnounce \/ RssSkip \/ RssItem \/ AtomEntry
  \/ ItemElement \/ ItemEnd \/ FeedEnd

Spec == Init /\ [][Next]_vars

-----------------------------------------------------------------------------
(***************************************************************************)
(* What has to be reported, from the document as a whole.                  *)
(***************************************************************************)
Paths == DOMAIN doc

(* Document order: an element comes before what it holds. *)
Before(p, q) ==
  \/ IsStrictPrefix(p, q)
  \/ \E n \in DOMAIN p \cap DOMAIN q : (\A k \in 1 .. n - 1 : p[k] = q[k]) /\ p[n] < q[n]
FirstOf(ps) == IF ps = {} THEN NULL ELSE CHOOSE p \in ps : \A q \in ps : p = q \/ Before(p, q)
LastOf(ps) == IF ps = {} THEN NULL ELSE CHOOSE p \in ps : \A q \in ps : p = q \/ Before(q, p)

Siblings(p) == {q \in Paths : q # <<>> /\ Front(q) = Front(p)}
Tops == {p \in Paths : Len(p) = 1}
Has(p, property) == property \in At(p).has

(* The media of a body, in groups of any kind but not inside other media.  *)
Media ==
  {p \in Paths :
     /\ Len(p) > 1 /\ At(<<p[1]>>).name = "body" /\ At(p).name \in MediaNames
     /\ \A n \in 2 .. Len(p) - 1 : At(SubSeq(p, 1, n)).name \notin MediaNames \cup {"textstream"}}

MediaBehind(p) == {q \in Siblings(p) : At(q).name \in MediaNames /\ Before(p, q)}
TextsOf(p) ==
  {q \in Siblings(p) : /\ At(q).name = "textstream" /\ Before(p, q)
                       /\ \A m \in MediaBehind(p) : Before(q, m)}

(* The title of the first head with one, of those in front of this body.   *)
HeadTitles(p) ==
  {q \in Paths : /\ Len(q) = 2 /\ At(<<q[1]>>).name = "head" /\ q[1] < p[1]
                 /\ At(q).name = "title_meta" /\ Has(q, "content")}

MediaReport(p) ==
  LET text == LastOf(TextsOf(p))
  IN  [uri |-> p, title |-> Or(Value(p, "title"), FirstOf(HeadTitles(p))),
       author |-> Value(p, "author"), size |-> NULL,
       subtitle |-> IF text = NULL THEN NULL ELSE Value(text, "src")]

(* Where what is said of a media element is complete. *)
Complete(p) ==
  IF MediaBehind(p) = {} THEN Append(Front(p), At(Front(p)).kids + 1)
                         ELSE FirstOf(MediaBehind(p))

SmilWhole ==
  /\ {out[n] : n \in DOMAIN out} = {Report(MediaReport(p)) : p \in {q \in Media : Has(q, "src")}}
  /\ \A m, n \in DOMAIN out :
       m < n => Before(Complete(out[m].entry.uri), Complete(out[n].entry.uri))
  /\ retval = "success" <=> \E p \in Tops : At(p).name = "body"

(* The items and entries of a feed, and the elements that locate one.      *)
Items == {p \in Tops : At(p).name = ItemName}
Locating(p) ==
  \/ Rss /\ At(p).name \in {"enclosure", "audio_content"} /\ Has(p, "url")
  \/ Rss /\ At(p).name = "url"
  \/ Atom /\ At(p).name \in {"link", "enclosure"} /\ Has(p, "href")
Locations(item) == {p \in Paths : Len(p) = 2 /\ p[1] = item[1] /\ Locating(p)}
Located(item) ==
  LET p == LastOf(Locations(item))
  IN  p # NULL /\ (At(p).name = "url" => Has(p, "data"))

Entries == {n \in DOMAIN out : out[n].kind = "entry"}

FeedWhole ==
  /\ {out[n].entry.uri : n \in Entries} = {LastOf(Locations(p)) : p \in {q \in Items : Located(q)}}
  /\ \A m, n \in Entries : m < n => Before(out[m].entry.uri, out[n].entry.uri)
  /\ \A n \in Entries :
       LET e == out[n].entry
       IN  /\ \A v \in {e.title, e.author, e.size} : v # NULL => v[1] = e.uri[1]
           /\ (Atom \/ Locations(e.uri) = {e.uri}) =>
                e.size \in {NULL, e.uri} \/ At(e.size).name = "length"

(* Every media element of a SMIL is reported once, with its own title or   *)
(* the one of the head in front of it, its own fields and the last         *)
(* textstream between it and the next media element, in the order in which *)
(* the elements are complete: what is nested in a group comes out before   *)
(* the element in front of the group.  Every item of a feed that names a   *)
(* location is reported once, in order, with the last location it names,   *)
(* nothing that is reported comes from another item, and the size is that  *)
(* of the location unless an RSS item has several of them.                 *)
EntriesWhole == phase = "done" => IF Smil THEN SmilWhole ELSE FeedWhole

(* What is read of a feed before it is announced. *)
Told == {p \in Tops : Rss \/ \A i \in Items : Before(p, i)}

(* An element with text, of those behind the last one without: the last    *)
(* author or logo, or the first of what stands in for it.                  *)
ToldBy(name, substitute) ==
  LET told == {p \in Told : /\ Has(p, "data")
                            /\ \A q \in Told : At(q).name = name /\ ~Has(q, "data") => Before(q, p)}
  IN  Or(LastOf({p \in told : At(p).name = name}), FirstOf({p \in told : At(p).name = substitute}))
ImageTold ==
  IF Rss
    THEN LET last == LastOf({p \in Told : \/ At(p).name = "image"
                                          \/ At(p).name = "itunes:image" /\ Has(p, "href")})
         IN IF last # NULL /\ At(last).name = "image" THEN Value(last, "data") ELSE last
    ELSE ToldBy("logo", "icon")

(* A feed is announced once, before its first entry: an RSS with the last  *)
(* image and author given anywhere in it, an Atom feed with those          *)
(* in front of its first entry, or not at all when it has none; and it     *)
(* ends once, after its last entry.                                        *)
AnnouncedWhole ==
  ~Smil =>
    /\ \A n \in DOMAIN out : out[n].kind = "playlist" =>
         /\ n = 1
         /\ out[n].entry.author = ToldBy("author", "generator")
         /\ out[n].entry.subtitle = ImageTold
    /\ out # <<>> /\ (Rss \/ Items # {}) => out[1].kind = "playlist"
    /\ \A n \in DOMAIN out : out[n].kind = "ended" <=> phase = "done" /\ n = Len(out)
=============================================================================
