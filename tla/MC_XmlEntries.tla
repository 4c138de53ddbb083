--------------------------- MODULE MC_XmlEntries ---------------------------
(* Instances of XmlEntries for TLC: documents of each of the formats, as *)
(* elements within elements.                                             *)
EXTENDS XmlEntries

Element(name, has, children) == [name |-> name, has |-> has, children |-> children]
Leaf(name, has) == Element(name, has, <<>>)
Seqs(S, n) == UNION {[1 .. k -> S] : k \in 0 .. n}

Whole == Leaf("video", {"src", "title", "author"})
Bare == Leaf("video", {"src"})
Texts == {Leaf("textstream", {"src"}), Leaf("textstream", {})}
Groups == {Element("par", {}, s) : s \in {<<>>, <<Bare>>, <<Whole, Leaf("textstream", {"src"})>>}}
Odd == {Leaf("video", {"title"}), Element("video", {"src"}, <<Whole>>), Leaf("[CDATA]", {"data"}),
        Element("par", {}, <<Element("par", {}, <<Bare>>), Bare>>)}
Body(children) == Element("body", {}, children)

HeadOf(metas) == Element("head", {}, metas)
Heads == {<<>>, <<HeadOf(<<>>)>>, <<HeadOf(<<Leaf("meta", {"content"}), Leaf("title_meta", {}),
                                             Leaf("title_meta", {"content"})>>)>>}

MC_Smil ==
  {Element("smil", {}, h \o <<Body(s)>>) : h \in Heads, s \in Seqs({Whole, Bare} \cup Texts \cup Groups, 3)}
  \cup {Element("smil", {}, h \o <<Body(s)>> \o g \o <<Body(<<Bare>>)>>) :
          h \in Heads, g \in Heads, s \in Seqs({Bare} \cup Odd \cup Texts, 2)}
  \cup {Element("smil", {}, h) : h \in Heads}

Enclosures == {Leaf("enclosure", {"url", "href", "length"}), Leaf("enclosure", {"url", "href"}),
               Leaf("enclosure", {"length"})}
Item(name) ==
  {Element(name, {}, <<Leaf("enclosure", {"url", "href", "length"})>>), Leaf(name, {})}
About(image) ==
  {Leaf("author", {"data"}), Leaf("author", {}), Leaf("generator", {"data"}), image, Leaf("title", {"data"})}
RssItems ==
  {Element("item", {}, s) :
     s \in Seqs(Enclosures \cup {Leaf("title", {"data"}), Leaf("url", {"data"}), Leaf("url", {}),
                                 Leaf("length", {"data"}), Leaf("other_content", {"url"}),
                                 Leaf("audio_content", {"url"}), Leaf("author", {"data"})}, 2)}
AtomItems ==
  {Element("entry", {}, s) :
     s \in Seqs(Enclosures \cup {Leaf("title", {"data"}), Leaf("link", {"href"}),
                                 Leaf("alternate", {"href", "length"})}, 2)}

MC_Rss ==
  {Element("rss", {}, <<j, i, j>>) : i \in RssItems, j \in Item("item")}
  \cup {Element("rss", {}, s) :
          s \in Seqs(About(Leaf("image", {"data"})) \cup Item("item")
                     \cup {Leaf("itunes:image", {"href"}), Leaf("itunes:image", {})}, 3)}
MC_Atom ==
  {Element("atom", {}, <<j, i, j>>) : i \in AtomItems, j \in Item("entry")}
  \cup {Element("atom", {}, s) :
          s \in Seqs(About(Leaf("logo", {"data"})) \cup Item("entry") \cup {Leaf("icon", {"data"})}, 3)}

(* The elements of a tree by the paths to them. *)
RECURSIVE PathsIn(_)
PathsIn(e) ==
  {<<>>} \cup UNION {{<<i>> \o p : p \in PathsIn(e.children[i])} : i \in DOMAIN e.children}
ElementAt(root, p) == FoldLeft(LAMBDA e, i : e.children[i], root, p)
Tree(root) ==
  [p \in PathsIn(root) |->
     LET e == ElementAt(root, p)
     IN  [name |-> e.name, has |-> e.has, kids |-> Len(e.children)]]

MC_Documents == {Tree(e) : e \in MC_Smil \cup MC_Rss \cup MC_Atom}
=============================================================================
