------------------------------ MODULE XmlDocs ------------------------------
(***************************************************************************)
(* idol_pl_parser_parse_xml_relaxed (src/plparse/idol-pl-parser.c) on      *)
(* documents put together from tags, text, CDATA sections, comments and    *)
(* declarations, whole or cut off anywhere, and what the tree it returns   *)
(* has to be: a definition on the pieces, which knows nothing of           *)
(* characters, tokens or calls.                                            *)
(***************************************************************************)
EXTENDS XmlParser, SequencesExt

CONSTANTS Documents,   \* sequences of pieces
          CutPieces    \* a document of more pieces than this arrives whole

ASSUME CutAssumption == CutPieces \in Nat

(* A piece: its kind, a name, properties (with or without a value), text.  *)
Piece(kind, name, props, text) == [kind |-> kind, name |-> name, props |-> props, text |-> text]

VARIABLES
  pieces,   \* the document
  cut       \* the number of its characters that arrived

docVars == <<pieces, cut>>
vars == <<lexVars, parserVars, docVars>>

PropertyChars(p) ==
  <<" ">> \o p[1] \o (IF Len(p) = 2 THEN <<"=", "apos">> \o p[2] \o <<"apos">> ELSE <<>>)

Chars(p) ==
  LET props == FlattenSeq([i \in DOMAIN p.props |-> PropertyChars(p.props[i])])
  IN IF p.kind = "open" THEN <<"<">> \o p.name \o props \o <<">">>
     ELSE IF p.kind = "leaf" THEN <<"<">> \o p.name \o props \o <<"/", ">">>
     ELSE IF p.kind = "close" THEN <<"<", "/">> \o p.name \o <<">">>
     ELSE IF p.kind = "pi" THEN <<"<", "?">> \o p.name \o props \o <<"?", ">">>
     ELSE IF p.kind = "doctype" THEN <<"<", "!", "DO", " ">> \o p.name \o <<">">>
     ELSE IF p.kind = "cdata" THEN <<"<", "!", "[", "C">> \o p.text \o <<"]", "]", ">">>
     ELSE IF p.kind = "comment" THEN <<"<", "!", "-", "-">> \o p.text \o <<"-", "-", ">">>
     ELSE p.text

CharsOf(ps) == FoldLeft(LAMBDA s, p : s \o Chars(p), <<>>, ps)

(* A document is text, in which no element is called like the nodes the     *)
(* parser makes for text.                                                  *)
Characters == UNION {{CharsOf(ps)[i] : i \in DOMAIN CharsOf(ps)} : ps \in Documents}
ASSUME DocumentsAssumption ==
  /\ \A ps \in Documents : CharsOf(ps) \in Seq(Characters)
  /\ CDataName[1] \notin Characters

(* idol_pl_parser_cleanup_xml: a comment becomes blanks, unless it has no   *)
(* end or a "]]>" in it.                                                   *)
Cleaned(s) ==
  LET Has(i, w) == i + Len(w) - 1 <= Len(s) /\ SubSeq(s, i, i + Len(w) - 1) = w
      starts == {i \in DOMAIN s : Has(i, <<"<", "!", "-", "-">>)}
      ends(i) == {j \in DOMAIN s : j >= i /\ Has(j, <<"-", "-", ">">>)}
      end(i) == CHOOSE j \in ends(i) : \A k \in ends(i) : j <= k
      emptied(i) == ends(i) # {} /\ \A j \in i .. end(i) - 3 : ~Has(j, <<"]", "]", ">">>)
  IN  [k \in DOMAIN s |-> IF \E i \in starts : emptied(i) /\ i <= k /\ k <= end(i) + 2
                            THEN " " ELSE s[k]]

Init ==
  /\ pieces \in Documents
  /\ LET chars == CharsOf(pieces)
     IN  /\ cut \in IF Len(pieces) > CutPieces THEN {Len(chars)} ELSE 0 .. Len(chars)
         /\ LexInit(Cleaned(SubSeq(chars, 1, cut)))
  /\ ParserInit

Next ==
  /\ \/ Lex /\ UNCHANGED parserVars
     \/ Parse
     \/ Unwind
  /\ UNCHANGED docVars

Spec == Init /\ [][Next]_vars /\ WF_vars(Next)

-----------------------------------------------------------------------------
(***************************************************************************)
(* The tree of a document, from its pieces.                                *)
(***************************************************************************)
CleanedAway(p) ==
  p.kind = "comment" /\ \A i \in 1 .. Len(p.text) - 2 : SubSeq(p.text, i, i + 2) # <<"]", "]", ">">>

IsText(p) == p.kind = "text" \/ CleanedAway(p)
TextOf(p) == IF p.kind = "text" THEN p.text ELSE [i \in DOMAIN Chars(p) |-> " "]

(* open: the names of the open elements; bare: only tags may follow, after *)
(* a comment that stayed and at the start; text: read, and taken once      *)
(* something follows it; stopped: nothing more is read.                    *)
Nothing == [open |-> <<>>, tree |-> <<Node(0, <<>>, <<>>, <<>>)>>, bare |-> TRUE,
            text |-> <<>>, stopped |-> FALSE]

MaxOf(S) == CHOOSE i \in S : \A j \in S : j <= i

(* The element that is open, and whether anything is in it already. *)
Current(s) ==
  MaxOf({i \in DOMAIN s.tree : s.tree[i].depth = Len(s.open) /\ s.tree[i].name # CDataName})

WithText(s, text) ==
  LET last == Len(s.tree)
      node == s.tree[last]
  IN IF text = <<>> THEN s
     ELSE IF Current(s) = last
       THEN [s EXCEPT !.tree[last].data = IF @ = <<>> THEN Stripped(text) ELSE @ \o text]
     ELSE IF node.name = CDataName /\ node.depth = Len(s.open) + 1
       THEN [s EXCEPT !.tree[last].data = @ \o text]
     ELSE [s EXCEPT !.tree = Append(@, Node(Len(s.open) + 1, CDataName, <<>>, text))]

(* An error loses the elements that are open. *)
Stopped(s) ==
  [s EXCEPT !.stopped = TRUE,
            !.tree = IF s.open = <<>> THEN @
                     ELSE SubSeq(@, 1, MaxOf({i \in DOMAIN @ : @[i].depth = 1
                                                /\ @[i].name # CDataName}) - 1)]

(* A name without a value is only kept at the end of a tag. *)
KeptProps(props) ==
  LET kept == SelectSeq([i \in DOMAIN props |-> i],
                        LAMBDA i : Len(props[i]) = 2 \/ i = Len(props))
  IN  [i \in DOMAIN kept |->
         LET p == props[kept[i]] IN IF Len(p) = 2 THEN <<Upper(p[1]), Decode(p[2])>>
                                                  ELSE <<Upper(p[1])>>]

WithNode(s, name, props) ==
  [s EXCEPT !.tree = Append(@, Node(Len(s.open) + 1, name, KeptProps(props), <<>>)),
            !.bare = FALSE]

WithPiece(s, p) ==
  IF p.kind = "open"
    THEN IF Len(s.open) + 1 < MAX_RECURSION
           THEN [WithNode(s, Upper(p.name), p.props) EXCEPT !.open = Append(@, Upper(p.name))]
           ELSE Stopped(s)
  ELSE IF p.kind = "leaf" THEN WithNode(s, Upper(p.name), p.props)
  ELSE IF p.kind = "pi" THEN WithNode(s, <<"?">> \o Upper(p.name), p.props)
  ELSE IF p.kind = "cdata" THEN [WithText(s, p.text) EXCEPT !.bare = FALSE]
  ELSE IF p.kind = "close"
    THEN LET same == {i \in DOMAIN s.open : s.open[i] = Upper(p.name)}
         IN [s EXCEPT !.open = IF same = {} THEN @ ELSE SubSeq(@, 1, MaxOf(same) - 1),
                      !.bare = FALSE]
  ELSE [s EXCEPT !.bare = (p.kind = "comment")]

AllSpace(text) == \A i \in DOMAIN text : IsSpace(text[i])

Taken(s) ==
  LET clear == [s EXCEPT !.text = <<>>]
  IN IF ~s.bare THEN WithText(clear, Decode(s.text))
     ELSE IF AllSpace(s.text) THEN clear ELSE Stopped(clear)

Step(s, p) ==
  IF s.stopped THEN s
  ELSE IF IsText(p) THEN [s EXCEPT !.text = @ \o TextOf(p)]
  ELSE LET t == Taken(s) IN IF t.stopped THEN t ELSE WithPiece(t, p)

(* The pieces that arrived whole. *)
Arrived ==
  LET Length(n) == Len(CharsOf(SubSeq(pieces, 1, n)))
      whole == {n \in 0 .. Len(pieces) : Length(n) <= cut}
  IN  SubSeq(pieces, 1, MaxOf(whole))

AtBoundary == Len(CharsOf(Arrived)) = cut

CutPiece == pieces[Len(Arrived) + 1]

(* Text at the very end of a document is not taken, and a document that    *)
(* ends within a tag is an error.                                          *)
Expectation ==
  LET s == FoldLeft(Step, Nothing, Arrived)
  IN  IF AtBoundary \/ CutPiece.kind = "text" \/ s.stopped THEN s ELSE Stopped(s)

(* A document that ends in text after a comment that stayed is read as if  *)
(* the text were data; such documents are left out.                        *)
BareEnd ==
  Expectation.bare /\ (~AllSpace(Expectation.text) \/ (~AtBoundary /\ CutPiece.kind = "text"))

(***************************************************************************)
(* Properties.                                                             *)
(***************************************************************************)
(* No run of characters between tags fills the token buffer. *)
Fits ==
  \A i \in 1 .. Len(lexbuf) - TOKEN_SIZE + 1 :
    \E j \in i .. i + TOKEN_SIZE - 1 : lexbuf[j] \in {"<", ">"}

(* Every CDATA section is as long as what the lexer may have left in the   *)
(* token buffer, "<![CDATA[" at least.                                     *)
CDataCovers ==
  \A n \in DOMAIN Arrived : Arrived[n].kind = "cdata" =>
    /\ Len(Arrived[n].text) >= 4
    /\ \A m \in 1 .. n - 1 : Len(Chars(Arrived[m])) <= Len(Arrived[n].text)

IsElement(n) == n.node.name # CDataName
Elements(t) ==
  LET e == SelectSeq(Document(t), IsElement)
  IN  [i \in DOMAIN e |-> [e[i].node EXCEPT !.data = <<>>]]

(* The tree parse_xml_relaxed returns is the document's: the elements that *)
(* are written down, nested as the tags say once missing and surplus       *)
(* closing tags are made up for, with their properties, and the text in    *)
(* its place when it fits the token buffer and CDATA sections cover it.    *)
(* There is a tree if and only if the document has one root, where an      *)
(* element that is open when an error is met, or the document ends within  *)
(* a tag, counts for nothing.                                              *)
TreeIsDocument ==
  (Done /\ ~BareEnd) =>
    /\ Built(tree) <=> Built(Expectation.tree)
    /\ Built(tree) =>
         /\ Elements(tree) = Elements(Expectation.tree)
         /\ (Fits /\ CDataCovers) => Document(tree) = Document(Expectation.tree)

(* tok_pos stays in the token buffer (the terminator of a token that just  *)
(* fills it is not counted); frames and root_names, an array of            *)
(* MAX_RECURSION + 1, stay within MAX_RECURSION, and a return value closes *)
(* no more calls than there are.  Every call fills the node it was made    *)
(* for; and the first top-level node is never text, which the loop that    *)
(* deletes such text (xmlparser.c:711-726) would leave behind as the child *)
(* of the root.                                                            *)
InBounds ==
  /\ LexTypeOK
  /\ frames # <<>> /\ Len(frames) <= MAX_RECURSION
  /\ ret # <<>> /\ ret[1] # -1 => Len(frames) + ret[1] \in 0 .. Len(frames)
  /\ \A i \in DOMAIN frames : frames[i].node \in DOMAIN tree /\ tree[frames[i].node].depth = i - 1
  /\ Len(tree) > 1 => tree[2].depth = 1 /\ tree[2].name # CDataName

(* Every document is parsed to an end, unless it is cut off within a       *)
(* comment or a DOCTYPE: the parser then reads the end of the document for *)
(* ever (xmlparser.c:607-627).                                             *)
CutWithin ==
  ~AtBoundary /\
    LET n == cut - Len(CharsOf(Arrived))
    IN  (CutPiece.kind = "comment" /\ n >= 4) \/ (CutPiece.kind = "doctype" /\ n >= 3)

Ends == <>(Done \/ CutWithin)

(* What xmlparser.h:56 says of a node: ".data contains any text which      *)
(* precedes any subtree elements", of all text that fits the buffer.       *)
DataIsText ==
  (Done /\ ~BareEnd /\ AtBoundary /\ Fits /\ Built(tree)) =>
    Document(tree) = Document(Expectation.tree)
=============================================================================
