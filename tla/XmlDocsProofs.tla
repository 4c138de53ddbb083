---------------------------- MODULE XmlDocsProofs ----------------------------
(***************************************************************************)
(* Proofs about the XML lexer and parser, for documents of any length, cut *)
(* off anywhere, any size of the token buffer and any limit of the         *)
(* recursion: positions stay in the document and in the buffer, and the    *)
(* calls, the nodes they fill and their return values fit together.        *)
(***************************************************************************)
EXTENDS XmlDocs, SequenceTheorems, WellFoundedInduction, TLAPS

(***************************************************************************)
(* Types.                                                                  *)
(***************************************************************************)
\* What a token can consist of: the characters of the document and those the
\* lexer and the parser write themselves.
Glyph == Characters \cup {NUL, " ", "-", "DO", "[", "C", "<", "?", "A", "B"}

LexStates == {"idle", "eol", "separ", "m_start", "m_stop_1", "m_stop_2", "equal", "quote",
              "apos", "comment", "dashdash", "c_stop", "ti_stop", "ident"}

\* The characters "-->" gives back behind a name were taken before.
Placed ==
  /\ lexer.pos \in 1 .. Len(lexbuf) + 1
  /\ res = "none" /\ scan.state = "dashdash" => lexer.pos > 1
  /\ res = "none" /\ scan.state = "c_stop" => lexer.pos > 2

LInv ==
  /\ lexbuf \in Seq(Glyph) /\ tok \in Seq(Glyph)
  /\ lexer \in [pos : Nat, lex_mode : {"normal", "data", "cdata"}, in_comment : BOOLEAN]
  /\ scan \in [state : LexStates, tok_pos : Nat]
  /\ Placed
  /\ Len(tok) >= TOKEN_SIZE /\ scan.tok_pos <= Len(tok)
  /\ res \in Tokens \cup {"none"}

States == {"idle", "node", "node_close", "attribute", "attribute_equals", "string",
           "tag_term", "tag_term_ignore", "comment", "doctype", "cdata"}

Props == Seq(Seq(Seq(Glyph)))

FrameType ==
  [state : States, q : BOOLEAN, node : Nat, last : {"none", "node", "text"},
   name : Seq(Glyph), tag : Seq(Glyph), props : Props, property : Seq(Glyph), retval : Int]

NodeType ==
  [depth : Nat, name : Seq(Glyph) \cup {CDataName}, props : Props, data : Seq(Glyph)]

LEMMA NamedGlyph == CDataName \notin Seq(Glyph)
<1>1. CDataName[1] = "[CDATA]" /\ Len(CDataName) = 1 /\ DOMAIN CDataName = 1 .. 1
  BY DEF CDataName
<1>2. "[CDATA]" \notin Glyph  BY <1>1, DocumentsAssumption DEF Glyph, NUL
<1> QED  BY <1>1, <1>2, ElementOfSeq

(***************************************************************************)
(* Sets of numbers and sequences.                                          *)
(***************************************************************************)
LEMMA LeastExists ==
  ASSUME NEW S, S \subseteq Nat, S # {}
  PROVE  \E n \in S : \A m \in S : n <= m
<1> DEFINE R == OpToRel(<, Nat)
<1>1. S \subseteq Nat /\ S # {}  OBVIOUS
<1>2. IsWellFoundedOn(R, Nat)  BY NatLessThanWellFounded, Zenon
<1>3. \A x, y \in Nat : <<x, y>> \in R <=> x < y  BY DEF OpToRel
<1> HIDE DEF R
<1>4. PICK n \in S : \A m \in S : ~(<<m, n>> \in R)  BY <1>1, <1>2, WFMin
<1>5. \A m \in S : ~(m < n)  BY <1>1, <1>3, <1>4
<1>6. \A m \in S : n <= m  BY <1>1, <1>5
<1> QED  BY <1>6

LEMMA GreatestExists ==
  ASSUME NEW k \in Int, NEW S, S \subseteq 0 .. k, S # {}
  PROVE  \E n \in S : \A m \in S : m <= n
<1> DEFINE T == {m \in Nat : k - m \in S}
<1>1. T \subseteq Nat  OBVIOUS
<1>2. PICK s \in S : TRUE  OBVIOUS
<1>3. \A n \in S : k - n \in T
  <2> TAKE n \in S
  <2>1. n \in 0 .. k  OBVIOUS
  <2>2. k - n \in Nat /\ k - (k - n) = n  BY <2>1
  <2> QED  BY <2>2
<1>4. T # {}  BY <1>2, <1>3
<1>5. PICK t \in T : \A u \in T : t <= u
  <2> HIDE DEF T
  <2> QED  BY <1>1, <1>4, LeastExists
<1>6. t \in Nat /\ k - t \in S  OBVIOUS
<1>7. \A n \in S : n <= k - t
  <2> TAKE n \in S
  <2>1. n \in 0 .. k /\ t <= k - n  BY <1>3, <1>5
  <2> QED  BY <1>6, <2>1
<1> QED  BY <1>6, <1>7

LEMMA MadeSeq ==
  ASSUME NEW S, NEW n \in Nat, NEW f \in [1 .. n -> S]
  PROVE  f \in Seq(S) /\ Len(f) = n /\ DOMAIN f = 1 .. n
<1>1. f \in Seq(S)  BY SeqDef
<1> QED  BY <1>1, LenProperties

LEMMA LikeSeq ==
  ASSUME NEW S, NEW T, NEW s \in Seq(S), NEW f \in [DOMAIN s -> T]
  PROVE  f \in Seq(T) /\ Len(f) = Len(s)
BY LenProperties, MadeSeq

LEMMA Singleton ==
  ASSUME NEW S, NEW x \in S
  PROVE  <<x>> \in Seq(S) /\ Len(<<x>>) = 1 /\ <<x>>[1] = x
OBVIOUS

LEMMA UpperTypes == ASSUME NEW s \in Seq(Glyph) PROVE Upper(s) \in Seq(Glyph)
<1>1. Upper(s) \in [DOMAIN s -> Glyph]
  BY LenProperties, ElementOfSeq DEF Upper, Glyph
<1> QED  BY <1>1, LikeSeq

LEMMA DecodeTypes == ASSUME NEW s \in Seq(Glyph) PROVE Decode(s) \in Seq(Glyph)
<1>1. Decode(s) \in [DOMAIN s -> Glyph]
  BY LenProperties, ElementOfSeq DEF Decode, Glyph
<1> QED  BY <1>1, LikeSeq

LEMMA SlicesOf ==
  ASSUME NEW S, NEW s \in Seq(S), NEW m \in Nat \ {0}, NEW n \in Int, n <= Len(s)
  PROVE  SubSeq(s, m, n) \in Seq(S)
<1>1. \A i \in m .. n : s[i] \in S  BY ElementOfSeq, LenProperties
<1> QED  BY <1>1, SubSeqProperties

LEMMA StrippedTypes == ASSUME NEW s \in Seq(Glyph) PROVE Stripped(s) \in Seq(Glyph)
<1> DEFINE inked == {i \in DOMAIN s : ~IsSpace(s[i])}
<1>1. CASE inked = {}  BY <1>1, EmptySeq DEF Stripped
<1>2. CASE inked # {}
  <2> DEFINE first == CHOOSE i \in inked : \A j \in inked : i <= j
  <2>1. inked \in SUBSET Nat /\ inked \subseteq 1 .. Len(s)  BY LenProperties
  <2>2. \E i \in inked : \A j \in inked : i <= j
    <3> HIDE DEF inked
    <3> QED  BY <1>2, <2>1, LeastExists
  <2>3. first \in 1 .. Len(s)
    <3> HIDE DEF inked
    <3> QED  BY <2>1, <2>2
  <2>4. Stripped(s) = SubSeq(s, first, Len(s))  BY <1>2 DEF Stripped
  <2> HIDE DEF first
  <2> QED  BY <2>3, <2>4, SlicesOf, LenProperties
<1> QED  BY <1>1, <1>2

LEMMA TokenTypes == ASSUME tok \in Seq(Glyph) PROVE TokenText \in Seq(Glyph)
<1> DEFINE ends == {i \in DOMAIN tok : tok[i] = NUL}
<1>1. CASE ends = {}  BY <1>1 DEF TokenText
<1>2. CASE ends # {}
  <2> DEFINE first == CHOOSE i \in ends : \A j \in ends : i <= j
  <2>1. ends \in SUBSET Nat /\ ends \subseteq 1 .. Len(tok)  BY LenProperties
  <2>2. \E i \in ends : \A j \in ends : i <= j
    <3> HIDE DEF ends
    <3> QED  BY <1>2, <2>1, LeastExists
  <2>3. first \in 1 .. Len(tok)
    <3> HIDE DEF ends
    <3> QED  BY <2>1, <2>2
  <2>4. TokenText = SubSeq(tok, 1, first - 1)  BY <1>2 DEF TokenText
  <2> HIDE DEF first
  <2> QED  BY <2>3, <2>4, SlicesOf, LenProperties
<1> QED  BY <1>1, <1>2

(***************************************************************************)
(* The lexer.                                                              *)
(***************************************************************************)
LEMMA AheadTypes ==
  ASSUME LInv, NEW n \in Nat
  PROVE  /\ Ahead(n) \in Glyph
         /\ Ahead(n) # NUL => lexer.pos + n <= Len(lexbuf)
<1>1. lexer.pos \in Nat /\ lexbuf \in Seq(Glyph)  BY DEF LInv
<1>2. DOMAIN lexbuf = 1 .. Len(lexbuf)  BY <1>1, LenProperties
<1>3. \A i \in DOMAIN lexbuf : lexbuf[i] \in Glyph  BY <1>1, <1>2, ElementOfSeq
<1>4. NUL \in Glyph  BY DEF Glyph
<1> QED  BY <1>1, <1>2, <1>3, <1>4 DEF Ahead

LEMMA StoredTypes ==
  ASSUME LInv, NEW cells \in Seq(Glyph)
  PROVE  Stored(cells) \in Seq(Glyph) /\ Len(Stored(cells)) = Len(tok)
<1>1. tok \in Seq(Glyph) /\ scan.tok_pos \in Nat  BY DEF LInv
<1>2. DOMAIN tok = 1 .. Len(tok) /\ Len(tok) \in Nat  BY <1>1, LenProperties
<1>3. \A i \in DOMAIN tok : tok[i] \in Glyph  BY <1>1, <1>2, ElementOfSeq
<1>4. \A i \in 1 .. Len(cells) : cells[i] \in Glyph  BY ElementOfSeq
<1>5. Len(cells) \in Nat  BY LenProperties
<1>6. Stored(cells) \in [DOMAIN tok -> Glyph]
  BY <1>1, <1>2, <1>3, <1>4, <1>5 DEF Stored
<1> QED  BY <1>1, <1>6, LikeSeq

LEMMA KeepHolds ==
  ASSUME LInv, NEW n \in Nat, NEW cells \in Seq(Glyph), NEW state \in LexStates,
         Keep(n, cells, state),
         lexer.pos + n <= Len(lexbuf) + 1,
         scan.tok_pos + Len(cells) <= Len(tok),
         state = "dashdash" => n > 0,
         state = "c_stop" => n > 0 /\ lexer.pos > 1
  PROVE  LInv'
<1>1. /\ lexer' = [lexer EXCEPT !.pos = @ + n]
      /\ tok' = Stored(cells)
      /\ scan' = [state |-> state, tok_pos |-> scan.tok_pos + Len(cells)]
      /\ lexbuf' = lexbuf /\ res' = res
  BY DEF Keep
<1>2. tok' \in Seq(Glyph) /\ Len(tok') = Len(tok)  BY <1>1, StoredTypes
<1>3. Len(cells) \in Nat  BY LenProperties
<1>4. lexer.pos \in Nat /\ lexer.pos >= 1  BY DEF LInv, Placed
<1>5. lexer'.pos = lexer.pos + n  BY <1>1 DEF LInv
<1>6. lexer' \in [pos : Nat, lex_mode : {"normal", "data", "cdata"}, in_comment : BOOLEAN]
  <2>1. lexer \in [pos : Nat, lex_mode : {"normal", "data", "cdata"}, in_comment : BOOLEAN]
    BY DEF LInv
  <2>2. lexer.pos + n \in Nat  BY <1>4
  <2> QED  BY <1>1, <2>1, <2>2
<1>7. scan' \in [state : LexStates, tok_pos : Nat] /\ scan'.tok_pos <= Len(tok')
  BY <1>1, <1>2, <1>3 DEF LInv
<1>8. Placed'
  <2>1. Len(lexbuf) \in Nat  BY LenProperties DEF LInv
  <2> QED  BY <1>1, <1>4, <1>5, <2>1 DEF Placed
<1> QED  BY <1>1, <1>2, <1>6, <1>7, <1>8 DEF LInv

LEMMA GiveRawHolds ==
  ASSUME LInv, NEW n \in Nat, NEW cells \in Seq(Glyph), NEW token \in Tokens,
         GiveRaw(n, cells, token),
         lexer.pos + n <= Len(lexbuf) + 1
  PROVE  LInv'
<1>1. /\ lexer' = [pos |-> lexer.pos + n, lex_mode |-> ModeAfter(token),
                   in_comment |-> CommentAfter(token)]
      /\ tok' = Stored(cells) /\ res' = token
      /\ lexbuf' = lexbuf /\ scan' = scan
  BY DEF GiveRaw
<1>2. tok' \in Seq(Glyph) /\ Len(tok') = Len(tok)  BY <1>1, StoredTypes
<1>3. lexer.pos \in Nat /\ lexer.pos >= 1 /\ Len(lexbuf) \in Nat
  BY LenProperties DEF LInv, Placed
<1>4. ModeAfter(token) \in {"normal", "data", "cdata"}  BY DEF ModeAfter, LInv
<1>5. CommentAfter(token) \in BOOLEAN  BY DEF CommentAfter, LInv
<1>6. lexer' \in [pos : Nat, lex_mode : {"normal", "data", "cdata"}, in_comment : BOOLEAN]
  BY <1>1, <1>3, <1>4, <1>5
<1>7. Placed'  BY <1>1, <1>3 DEF Placed, LInv, Tokens
<1> QED  BY <1>1, <1>2, <1>6, <1>7 DEF LInv

LEMMA GiveHolds ==
  ASSUME LInv, NEW n \in Nat, NEW cells \in Seq(Glyph), NEW token \in Tokens,
         Give(n, cells, token),
         lexer.pos + n <= Len(lexbuf) + 1
  PROVE  LInv'
<1>1. Append(cells, NUL) \in Seq(Glyph)  BY AppendProperties DEF Glyph
<1> QED  BY <1>1, GiveRawHolds DEF Give

\* A token is being read, there is a next character and a place for it.
Room == res = "none" /\ ~Full /\ ~AtEnd

LEMMA RoomIs ==
  ASSUME LInv, Room
  PROVE  /\ lexer.pos + 1 <= Len(lexbuf) + 1 /\ lexer.pos >= 1
         /\ lexer.pos \in Nat /\ Len(lexbuf) \in Nat
         /\ scan.tok_pos + 1 <= Len(tok) /\ scan.tok_pos \in Nat
         /\ Char \in Glyph
         /\ <<Char>> \in Seq(Glyph) /\ Len(<<Char>>) = 1
         /\ <<>> \in Seq(Glyph) /\ Len(<<>>) = 0
<1>1. /\ lexer.pos \in Nat /\ lexer.pos >= 1
      /\ Len(lexbuf) \in Nat /\ Len(tok) \in Nat /\ scan.tok_pos \in Nat
  BY LenProperties DEF LInv, Placed
<1>2. Char \in Glyph  BY AheadTypes DEF Char
<1> QED  BY <1>1, <1>2, Singleton, EmptySeq DEF Room, Full, AtEnd

LEMMA OneKept ==
  ASSUME LInv, Room, NEW state \in LexStates, Keep(1, <<Char>>, state),
         state = "c_stop" => lexer.pos > 1
  PROVE  LInv'
<1>1. /\ lexer.pos + 1 <= Len(lexbuf) + 1
      /\ <<Char>> \in Seq(Glyph) /\ scan.tok_pos + Len(<<Char>>) <= Len(tok)
  BY RoomIs
<1>2. 1 \in Nat /\ 1 > 0  OBVIOUS
<1> QED  BY <1>1, <1>2, KeepHolds

LEMMA NoneGiven ==
  ASSUME LInv, Room, NEW token \in Tokens, Give(0, <<>>, token) \/ GiveRaw(0, <<>>, token)
  PROVE  LInv'
<1>1. 0 \in Nat /\ lexer.pos + 0 <= Len(lexbuf) + 1 /\ <<>> \in Seq(Glyph)  BY RoomIs
<1> QED  BY <1>1, GiveHolds, GiveRawHolds

LEMMA OneGiven ==
  ASSUME LInv, Room, NEW token \in Tokens, NEW cells \in Seq(Glyph),
         Give(1, cells, token) \/ GiveRaw(1, cells, token)
  PROVE  LInv'
<1>1. 1 \in Nat /\ lexer.pos + 1 <= Len(lexbuf) + 1  BY RoomIs
<1> QED  BY <1>1, GiveHolds, GiveRawHolds

LEMMA StateOfTypes == ASSUME NEW c PROVE StateOf(c) \in LexStates \ {"c_stop"}
BY DEF StateOf, LexStates

LEMMA IdleHolds == ASSUME LInv, Room, Idle PROVE LInv'
<1>1. CASE Char \in {"quote", "apos"}
  <2>1. Keep(1, <<>>, Char)  BY <1>1 DEF Idle
  <2>2. Char \in LexStates /\ Char # "dashdash" /\ Char # "c_stop"  BY <1>1 DEF LexStates
  <2>3. scan.tok_pos + Len(<<>>) <= Len(tok)  BY RoomIs DEF LInv
  <2> QED  BY <2>1, <2>2, <2>3, RoomIs, KeepHolds
<1>2. CASE Char \notin {"quote", "apos"}
  <2> DEFINE state == IF Char \in {"/", "?"} /\ lexer.in_comment THEN "idle" ELSE StateOf(Char)
  <2>1. Keep(1, <<Char>>, state)  BY <1>2 DEF Idle
  <2>2. state \in LexStates /\ state # "c_stop"  BY StateOfTypes DEF LexStates
  <2> HIDE DEF state
  <2> QED  BY <2>1, <2>2, OneKept
<1> QED  BY <1>1, <1>2

LEMMA SpaceHolds == ASSUME LInv, Room, Space PROVE LInv'
<1>1. CASE StateOf(Char) = scan.state
  <2>1. Keep(1, <<Char>>, scan.state)  BY <1>1 DEF Space
  <2>2. scan.state \in {"eol", "separ"}  BY DEF Space
  <2>3. scan.state \in LexStates /\ scan.state # "c_stop"  BY <2>2 DEF LexStates
  <2> QED  BY <2>1, <2>3, OneKept
<1>2. CASE StateOf(Char) # scan.state
  <2> DEFINE token == IF scan.state = "eol" THEN "EOL" ELSE "SEPAR"
  <2>1. Give(0, <<>>, token)  BY <1>2 DEF Space
  <2>2. token \in Tokens  BY DEF Tokens
  <2> HIDE DEF token
  <2> QED  BY <2>1, <2>2, NoneGiven
<1> QED  BY <1>1, <1>2

LEMMA MarkupHolds == ASSUME LInv, Room, Markup PROVE LInv'
<1>1. \/ Give(1, <<Char>>, "M_START_2") \/ Give(1, <<Char>>, "TI_START")
      \/ Keep(1, <<Char>>, "comment") \/ Give(0, <<>>, "M_START_1")
  BY DEF Markup
<1>2. "comment" \in LexStates /\ {"M_START_1", "M_START_2", "TI_START"} \subseteq Tokens
  BY DEF LexStates, Tokens
<1> QED  BY <1>1, <1>2, RoomIs, NoneGiven, OneGiven, OneKept

LEMMA ShortHolds == ASSUME LInv, Room, OneCharacter \/ TwoCharacters PROVE LInv'
<1>1. PICK token \in {"EQUAL", "M_STOP_1", "TI_STOP", "M_STOP_2", "ERROR"} :
        Give(1, <<Char>>, token) \/ Give(0, <<>>, token)
  BY DEF OneCharacter, TwoCharacters
<1>2. token \in Tokens  BY DEF Tokens
<1> QED  BY <1>1, <1>2, RoomIs, NoneGiven, OneGiven

LEMMA QuotedHolds == ASSUME LInv, Room, Quoted PROVE LInv'
<1>1. scan.state \in LexStates /\ scan.state # "c_stop" /\ "STRING" \in Tokens
  BY DEF Quoted, LexStates, Tokens
<1>2. Give(1, <<>>, "STRING") \/ Keep(1, <<Char>>, scan.state)  BY DEF Quoted
<1> QED  BY <1>1, <1>2, RoomIs, NoneGiven, OneGiven, OneKept

LEMMA DeclarationHolds == ASSUME LInv, Room, Declaration PROVE LInv'
<1>1. {"-", "DO", "[", "C"} \subseteq Glyph  BY DEF Glyph
<1>2. /\ <<"-", "-">> \in Seq(Glyph) /\ <<"DO">> \in Seq(Glyph) /\ <<"[", "C">> \in Seq(Glyph)
  BY <1>1
<1>3. {"C_START", "DOCTYPE_START", "CDATA_START", "ERROR"} \subseteq Tokens  BY DEF Tokens
<1>4. CASE Char = "-"
  <2>1. CASE Ahead(1) = "-"
    <3>1. Give(2, <<"-", "-">>, "C_START")  BY <1>4, <2>1 DEF Declaration
    <3>2. lexer.pos + 1 <= Len(lexbuf)  BY <2>1, AheadTypes DEF NUL
    <3>3. 2 \in Nat /\ lexer.pos + 2 <= Len(lexbuf) + 1  BY <3>2, RoomIs
    <3> QED  BY <1>2, <1>3, <3>1, <3>3, GiveHolds
  <2>2. CASE Ahead(1) # "-"
    <3>1. Keep(1, <<>>, "comment")  BY <1>4, <2>2 DEF Declaration
    <3>2. "comment" \in LexStates  BY DEF LexStates
    <3>3. scan.tok_pos + Len(<<>>) <= Len(tok)  BY RoomIs DEF LInv
    <3> QED  BY <3>1, <3>2, <3>3, RoomIs, KeepHolds
  <2> QED  BY <2>1, <2>2
<1>5. CASE Char = "DO"
  <2>1. GiveRaw(1, <<"DO">>, "DOCTYPE_START")  BY <1>5 DEF Declaration
  <2> QED  BY <1>2, <1>3, <2>1, OneGiven
<1>6. CASE Char = "[" /\ Ahead(1) = "C"
  <2>1. GiveRaw(2, <<"[", "C">>, "CDATA_START")  BY <1>6 DEF Declaration
  <2>2. lexer.pos + 1 <= Len(lexbuf)  BY <1>6, AheadTypes DEF NUL
  <2>3. 2 \in Nat /\ lexer.pos + 2 <= Len(lexbuf) + 1  BY <2>2, RoomIs
  <2> QED  BY <1>2, <1>3, <2>1, <2>3, GiveRawHolds
<1>7. CASE Char \notin {"-", "DO"} /\ ~(Char = "[" /\ Ahead(1) = "C")
  <2>1. GiveRaw(0, <<>>, "ERROR")  BY <1>7 DEF Declaration
  <2> QED  BY <1>3, <2>1, NoneGiven
<1> QED  BY <1>4, <1>5, <1>6, <1>7

LEMMA DashesHolds == ASSUME LInv, Room, Dashes PROVE LInv'
<1>1. PICK state \in {"c_stop", "ident"} : Keep(1, <<Char>>, state)  BY DEF Dashes
<1>2. state \in LexStates  BY DEF LexStates
<1>3. lexer.pos > 1  BY DEF Dashes, LInv, Placed, Room
<1> QED  BY <1>1, <1>2, <1>3, OneKept

\* Three characters were taken before a comment can end behind a name.
LEMMA CommentEndHolds == ASSUME LInv, Room, CommentEnd PROVE LInv'
<1>1. CASE Char # ">"
  <2>1. Keep(1, <<Char>>, "ident") /\ "ident" \in LexStates  BY <1>1 DEF CommentEnd, LexStates
  <2> QED  BY <2>1, OneKept
<1>2. CASE Char = ">" /\ scan.tok_pos = 2
  <2>1. Give(1, <<Char>>, "C_STOP") /\ "C_STOP" \in Tokens  BY <1>2 DEF CommentEnd, Tokens
  <2> QED  BY <2>1, RoomIs, OneGiven
<1>3. CASE Char = ">" /\ scan.tok_pos # 2
  <2> DEFINE stored == Stored(<<Char, NUL>>)
  <2>1. /\ lexer' = [lexer EXCEPT !.pos = @ - 2]
        /\ tok' = [stored EXCEPT ![scan.tok_pos - 1] = NUL]
        /\ res' = "IDENT" /\ lexbuf' = lexbuf /\ scan' = scan
    BY <1>3 DEF CommentEnd
  <2>2. NUL \in Glyph /\ "IDENT" \in Tokens  BY DEF Glyph, Tokens
  <2>3. <<Char, NUL>> \in Seq(Glyph)  BY <2>2, RoomIs
  <2>4. stored \in Seq(Glyph) /\ Len(stored) = Len(tok)  BY <2>3, StoredTypes
  <2>5. tok' \in Seq(Glyph) /\ Len(tok') = Len(tok)
    <3> HIDE DEF stored
    <3>1. tok' \in [DOMAIN stored -> Glyph]  BY <2>1, <2>2, <2>4, LenProperties, ElementOfSeq
    <3> QED  BY <2>4, <3>1, LikeSeq
  <2>6. lexer.pos \in Nat /\ lexer.pos > 2 /\ scan.state = "c_stop"
    BY DEF LInv, Placed, CommentEnd, Room
  <2>7. lexer'.pos = lexer.pos - 2
    BY <2>1 DEF LInv
  <2>8. lexer' \in [pos : Nat, lex_mode : {"normal", "data", "cdata"}, in_comment : BOOLEAN]
    <3>1. lexer \in [pos : Nat, lex_mode : {"normal", "data", "cdata"}, in_comment : BOOLEAN]
      BY DEF LInv
    <3>2. lexer.pos - 2 \in Nat  BY <2>6
    <3> QED  BY <2>1, <3>1, <3>2
  <2>9. Placed'
    <3>1. Len(lexbuf) \in Nat /\ lexer.pos \in 1 .. Len(lexbuf) + 1
      BY LenProperties DEF LInv, Placed
    <3>2. lexer'.pos \in 1 .. Len(lexbuf') + 1  BY <2>1, <2>6, <2>7, <3>1
    <3> QED  BY <2>1, <3>2 DEF Placed
  <2> QED  BY <2>1, <2>2, <2>5, <2>8, <2>9 DEF LInv
<1> QED  BY <1>1, <1>2, <1>3

LEMMA IdentHolds == ASSUME LInv, Room, Ident PROVE LInv'
<1>1. CASE Give(0, <<>>, "IDENT")
  <2>1. "IDENT" \in Tokens  BY DEF Tokens
  <2> QED  BY <1>1, <2>1, NoneGiven
<1>2. CASE \E state \in {"ti_stop", "dashdash", "ident"} : Keep(1, <<Char>>, state)
  <2>1. {"ti_stop", "dashdash", "ident"} \subseteq LexStates \ {"c_stop"}  BY DEF LexStates
  <2> QED  BY <1>2, <2>1, OneKept
<1> QED  BY <1>1, <1>2 DEF Ident

LEMMA DataHolds == ASSUME LInv, Room, Data \/ CData PROVE LInv'
<1>1. "idle" \in LexStates /\ "DATA" \in Tokens /\ "CDATA_STOP" \in Tokens
  BY DEF LexStates, Tokens
<1>2. CASE Give(0, <<>>, "DATA")  BY <1>1, <1>2, NoneGiven
<1>3. CASE Keep(1, <<Char>>, "idle")  BY <1>1, <1>3, OneKept
<1>4. CASE Ahead(2) = ">" /\ GiveRaw(3, <<>>, "CDATA_STOP")
  <2>1. lexer.pos + 2 <= Len(lexbuf)  BY <1>4, AheadTypes DEF NUL
  <2>2. 3 \in Nat /\ lexer.pos + 3 <= Len(lexbuf) + 1  BY <2>1, RoomIs
  <2>3. <<>> \in Seq(Glyph)  BY EmptySeq
  <2> QED  BY <1>1, <1>4, <2>2, <2>3, GiveRawHolds
<1> QED  BY <1>2, <1>3, <1>4 DEF Data, CData

LEMMA BlankTypes ==
  ASSUME NEW n \in Nat
  PROVE  Blanks(n) \in Seq(Glyph) /\ Len(Blanks(n)) = n
<1>1. Blanks(n) \in [1 .. n -> Glyph]  BY DEF Blanks, Glyph
<1> QED  BY <1>1, MadeSeq

\* The scanning begins anew with the token buffer t.
LEMMA BeginsAnew ==
  ASSUME LInv, scan' = [state |-> "idle", tok_pos |-> 0],
         lexbuf' = lexbuf, lexer' = lexer,
         tok' \in Seq(Glyph), Len(tok') >= Len(tok), res' \in Tokens \cup {"none"}
  PROVE  LInv'
<1>1. Len(tok) \in Nat /\ Len(tok') \in Nat /\ TOKEN_SIZE \in Nat
  BY LenProperties, TokenSizeAssumption DEF LInv
<1> QED  BY <1>1 DEF LInv, Placed, LexStates

LEMMA GrowHolds == ASSUME LInv, Grow PROVE LInv'
<1>1. tok \in Seq(Glyph) /\ Len(tok) \in Nat  BY LenProperties DEF LInv
<1>2. tok' \in Seq(Glyph) /\ Len(tok') = Len(tok) + Len(tok)
  BY <1>1, BlankTypes, ConcatProperties DEF Grow
<1> QED  BY <1>1, <1>2, BeginsAnew DEF Grow, LInv

LEMMA EndHolds == ASSUME LInv, End PROVE LInv'
<1>1. <<NUL>> \in Seq(Glyph)  BY Singleton DEF Glyph
<1>2. tok' \in Seq(Glyph) /\ Len(tok') = Len(tok)  BY <1>1, StoredTypes DEF End
<1>3. res' \in Tokens  BY DEF End, EndToken, Tokens
<1> QED  BY <1>2, <1>3 DEF End, LInv, Placed, Tokens

LEMMA LexHolds == ASSUME LInv, Lex PROVE LInv'
<1>1. CASE Grow  BY <1>1, GrowHolds
<1>2. CASE End  BY <1>2, EndHolds
<1>3. CASE Room /\ Normal
  BY <1>3, IdleHolds, SpaceHolds, MarkupHolds, ShortHolds, QuotedHolds, DeclarationHolds,
     DashesHolds, CommentEndHolds, IdentHolds DEF Normal
<1>4. CASE Room /\ (Data \/ CData)  BY <1>4, DataHolds
<1> QED  BY <1>1, <1>2, <1>3, <1>4 DEF Lex, Room

(***************************************************************************)
(* The parser: calls, the nodes they fill, and what they return.           *)
(***************************************************************************)
\* Every call fills a node at its depth, behind those of the calls around it.
Fills ==
  /\ \A i \in DOMAIN frames :
       frames[i].node \in DOMAIN tree /\ tree[frames[i].node].depth = i - 1
  /\ \A i, j \in DOMAIN frames : i < j => frames[i].node < frames[j].node

\* A call that closes others is the innermost and about to return.
ClosesFew ==
  \A i \in DOMAIN frames : frames[i].retval # 0 =>
    /\ i = Len(frames) /\ frames[i].state = "tag_term"
    /\ frames[i].retval >= -i /\ frames[i].retval < -1

\* A call that has a subtree has a node behind the first one.
HasSubtree ==
  ret # <<-1>> => \A i \in DOMAIN frames : frames[i].last # "none" => Len(tree) > 1

FirstIsElement == Len(tree) > 1 => tree[2].depth = 1 /\ tree[2].name # CDataName

Returns ==
  ret = <<>> \/ \E v \in Int : ret = <<v>> /\ (v = -1 \/ (v <= 0 /\ v >= -Len(frames)))

PInv ==
  /\ frames \in Seq(FrameType) /\ Len(frames) >= 1 /\ Len(frames) <= MAX_RECURSION
  /\ tree \in Seq(NodeType)
  /\ Fills /\ ClosesFew /\ HasSubtree /\ FirstIsElement /\ Returns

LEMMA TopTypes ==
  ASSUME PInv
  PROVE  /\ Top \in FrameType
         /\ Len(frames) \in DOMAIN frames /\ Len(frames) \in Nat
         /\ DOMAIN frames = 1 .. Len(frames)
         /\ DOMAIN tree = 1 .. Len(tree) /\ Len(tree) \in Nat
         /\ Top.node \in DOMAIN tree
         /\ Top.state # "tag_term" => Top.retval = 0
         /\ Top.last # "none" /\ ret = <<>> => Len(tree) > 1
<1>1. /\ Len(frames) \in DOMAIN frames /\ Len(frames) \in Nat
      /\ DOMAIN frames = 1 .. Len(frames)
      /\ DOMAIN tree = 1 .. Len(tree) /\ Len(tree) \in Nat
  BY LenProperties DEF PInv
<1>2. Top \in FrameType  BY <1>1, ElementOfSeq DEF Top, PInv
<1>3. Top.node \in DOMAIN tree  BY <1>1 DEF PInv, Fills, Top
<1>4. Top.state # "tag_term" => Top.retval = 0  BY <1>1 DEF PInv, ClosesFew, Top
<1>5. <<>> # <<-1>>  OBVIOUS
<1>6. Top.last # "none" /\ ret = <<>> => Len(tree) > 1
  BY <1>1, <1>5 DEF PInv, HasSubtree, Top
<1> QED  BY <1>1, <1>2, <1>3, <1>4, <1>6

\* The tree has only grown, and its nodes kept their depths.
Grown ==
  /\ tree' \in Seq(NodeType)
  /\ Len(tree') >= Len(tree)
  /\ \A i \in 1 .. Len(tree) : tree'[i].depth = tree[i].depth
  /\ FirstIsElement'

LEMMA SameTree == ASSUME PInv, tree' = tree PROVE Grown
BY TopTypes DEF Grown, PInv, FirstIsElement

LEMMA DataChanged ==
  ASSUME PInv, NEW k \in DOMAIN tree, NEW d \in Seq(Glyph),
         tree' = [tree EXCEPT ![k].data = d]
  PROVE  Grown
<1> DEFINE node == [tree[k] EXCEPT !.data = d]
<1>1. tree \in Seq(NodeType) /\ k \in 1 .. Len(tree) /\ Len(tree) \in Nat
  BY TopTypes DEF PInv
<1>2. tree[k] \in NodeType  BY <1>1, ElementOfSeq
<1>3. node \in NodeType /\ node.depth = tree[k].depth /\ node.name = tree[k].name
  BY <1>2 DEF NodeType
<1>4. tree' = [tree EXCEPT ![k] = node]  OBVIOUS
<1> HIDE DEF node
<1>5. /\ tree' \in Seq(NodeType) /\ Len(tree') = Len(tree)
      /\ \A j \in 1 .. Len(tree) : tree'[j] = IF j = k THEN node ELSE tree[j]
  <2> DEFINE changed == [tree EXCEPT ![k] = node]
  <2>1. /\ changed \in Seq(NodeType) /\ Len(changed) = Len(tree)
        /\ \A j \in 1 .. Len(tree) : changed[j] = IF j = k THEN node ELSE tree[j]
    BY <1>1, <1>3, ExceptSeq
  <2>2. tree' = changed  BY <1>4
  <2> HIDE DEF changed
  <2> QED  BY <2>1, <2>2
<1>6. FirstIsElement'  BY <1>1, <1>3, <1>5 DEF PInv, FirstIsElement
<1> QED  BY <1>1, <1>3, <1>5, <1>6 DEF Grown

\* Only the outermost call can put something into an empty tree.
LEMMA NodeAdded ==
  ASSUME PInv, NEW node \in NodeType, node.depth = Len(frames),
         Len(tree) = 1 => node.name # CDataName,
         tree' = Append(tree, node)
  PROVE  Grown /\ Len(tree') = Len(tree) + 1 /\ tree'[Len(tree) + 1] = node /\ Len(tree) >= 1
<1>1. /\ Len(frames) \in Nat /\ DOMAIN frames = 1 .. Len(frames)
      /\ DOMAIN tree = 1 .. Len(tree) /\ Len(tree) \in Nat
  BY TopTypes
<1>2. /\ tree' \in Seq(NodeType) /\ Len(tree') = Len(tree) + 1
      /\ \A i \in 1 .. Len(tree) : tree'[i] = tree[i]
      /\ tree'[Len(tree) + 1] = node
  BY AppendProperties DEF PInv
<1>3. Len(tree) >= 1  BY <1>1, TopTypes
<1>4. Len(tree) = 1 => Len(frames) = 1
  <2> SUFFICES ASSUME Len(tree) = 1, Len(frames) # 1 PROVE FALSE
    OBVIOUS
  <2>1. 1 \in DOMAIN frames /\ 2 \in DOMAIN frames  BY <1>1 DEF PInv
  <2>2. frames[1].node \in 1 .. 1 /\ frames[2].node \in 1 .. 1
    BY <1>1, <2>1 DEF PInv, Fills
  <2>3. frames[1].node < frames[2].node  BY <2>1 DEF PInv, Fills
  <2> QED  BY <2>2, <2>3
<1>5. FirstIsElement'
  <2>1. CASE Len(tree) = 1  BY <1>2, <1>4, <2>1 DEF FirstIsElement
  <2>2. CASE Len(tree) > 1  BY <1>1, <1>2, <2>2 DEF PInv, FirstIsElement
  <2> QED  BY <1>1, <1>3, <2>1, <2>2
<1> QED  BY <1>1, <1>2, <1>3, <1>5 DEF Grown

\* The innermost call goes on.
LEMMA CallGoesOn ==
  ASSUME PInv, Grown, ret = <<>>, ret' = ret,
         NEW f \in FrameType, frames' = [frames EXCEPT ![Len(frames)] = f],
         f.node = Top.node,
         f.retval # 0 => f.state = "tag_term" /\ f.retval >= -Len(frames) /\ f.retval < -1,
         f.last # "none" => Len(tree') > 1
  PROVE  PInv'
<1>1. /\ Len(frames) \in DOMAIN frames /\ Len(frames) \in Nat
      /\ DOMAIN frames = 1 .. Len(frames)
      /\ DOMAIN tree = 1 .. Len(tree) /\ Len(tree) \in Nat
  BY TopTypes
<1>2. /\ frames' \in Seq(FrameType) /\ Len(frames') = Len(frames)
      /\ \A i \in 1 .. Len(frames) : frames'[i] = IF i = Len(frames) THEN f ELSE frames[i]
  BY <1>1, ExceptSeq DEF PInv
<1>3. DOMAIN frames' = 1 .. Len(frames)  BY <1>2, LenProperties
<1>4. \A i \in 1 .. Len(frames) : frames'[i].node = frames[i].node  BY <1>2 DEF Top
<1>5. tree' \in Seq(NodeType) /\ DOMAIN tree' = 1 .. Len(tree') /\ Len(tree') \in Nat
  BY LenProperties DEF Grown
<1>6. \A i \in 1 .. Len(tree) : i \in DOMAIN tree' /\ tree'[i].depth = tree[i].depth
  BY <1>1, <1>5 DEF Grown
<1>7. Fills'
  <2>1. \A i \in DOMAIN frames' :
          frames'[i].node \in DOMAIN tree' /\ tree'[frames'[i].node].depth = i - 1
    <3> TAKE i \in DOMAIN frames'
    <3>1. i \in DOMAIN frames /\ frames'[i].node = frames[i].node  BY <1>1, <1>3, <1>4
    <3>2. frames[i].node \in DOMAIN tree /\ tree[frames[i].node].depth = i - 1
      BY <3>1 DEF PInv, Fills
    <3>3. frames[i].node \in 1 .. Len(tree)  BY <1>1, <3>2
    <3> QED  BY <1>6, <3>1, <3>2, <3>3
  <2>2. \A i, j \in DOMAIN frames' : i < j => frames'[i].node < frames'[j].node
    BY <1>1, <1>3, <1>4, ZenonT(40) DEF PInv, Fills
  <2> QED  BY <2>1, <2>2 DEF Fills
<1>8. ClosesFew'
  <2> SUFFICES ASSUME NEW i \in DOMAIN frames', frames'[i].retval # 0
               PROVE  /\ i = Len(frames') /\ frames'[i].state = "tag_term"
                      /\ frames'[i].retval >= -i /\ frames'[i].retval < -1
    BY DEF ClosesFew
  <2>1. i \in 1 .. Len(frames)  BY <1>3
  <2>2. CASE i = Len(frames)  BY <1>2, <2>1, <2>2
  <2>3. CASE i # Len(frames)
    <3>1. frames'[i] = frames[i]  BY <1>2, <2>1, <2>3
    <3> QED  BY <1>1, <2>1, <2>3, <3>1 DEF PInv, ClosesFew
  <2> QED  BY <2>2, <2>3
<1>9. HasSubtree'
  <2> SUFFICES ASSUME NEW i \in DOMAIN frames', frames'[i].last # "none" PROVE Len(tree') > 1
    BY DEF HasSubtree
  <2>1. i \in 1 .. Len(frames)  BY <1>3
  <2>2. CASE i = Len(frames)  BY <1>2, <2>1, <2>2
  <2>3. CASE i # Len(frames)
    <3>1. frames'[i] = frames[i]  BY <1>2, <2>1, <2>3
    <3>2. ret # <<-1>>  OBVIOUS
    <3>3. Len(tree) > 1  BY <1>1, <2>1, <3>1, <3>2 DEF PInv, HasSubtree
    <3> QED  BY <1>1, <1>5, <3>3 DEF Grown
  <2> QED  BY <2>2, <2>3
<1>10. Returns'  BY DEF Returns
<1> QED  BY <1>2, <1>5, <1>7, <1>8, <1>9, <1>10 DEF PInv, Grown

\* ... with a tree that stays as it is.
LEMMA CallReadsOn ==
  ASSUME PInv, ret = <<>>, tree' = tree,
         NEW f \in FrameType, Read(f) \/ Again(f),
         f.node = Top.node, f.last = Top.last,
         f.retval # 0 => f.state = "tag_term" /\ f.retval >= -Len(frames) /\ f.retval < -1
  PROVE  PInv'
<1>1. frames' = [frames EXCEPT ![Len(frames)] = f] /\ ret' = ret  BY DEF Read, Again
<1>2. f.last # "none" => Len(tree') > 1  BY TopTypes
<1> QED  BY <1>1, <1>2, SameTree, CallGoesOn

LEMMA ToTypes ==
  ASSUME PInv, NEW state \in States
  PROVE  /\ To(state) \in FrameType /\ To(state).state = state
         /\ To(state).node = Top.node /\ To(state).last = Top.last
         /\ To(state).retval = Top.retval
         /\ To(state).props = Top.props /\ To(state).tag = Top.tag
BY TopTypes DEF To, FrameType

\* A call comes to its end with v.
LEMMA CallEnds ==
  ASSUME PInv, ret = <<>>, NEW v \in Int, Return(v),
         v = -1 \/ (v <= 0 /\ v >= -Len(frames))
  PROVE  PInv'
<1>1. frames' = frames /\ tree' = tree /\ ret' = <<v>>  BY DEF Return
<1>2. Returns'  BY <1>1 DEF Returns
<1>3. HasSubtree'
  <2>1. ret # <<-1>>  OBVIOUS
  <2> QED  BY <1>1, <2>1 DEF PInv, HasSubtree
<1> QED  BY <1>1, <1>2, <1>3 DEF PInv, Fills, ClosesFew, FirstIsElement

\* Nothing but the state of the innermost call changes.
LEMMA StateChanges ==
  ASSUME PInv, ret = <<>>, Top.state # "tag_term", NEW state \in States,
         Read(To(state)), tree' = tree
  PROVE  PInv'
<1> DEFINE f == To(state)
<1>1. f \in FrameType /\ f.node = Top.node /\ f.last = Top.last /\ f.retval = 0
  BY ToTypes, TopTypes
<1> HIDE DEF f
<1>2. Read(f)  BY DEF f
<1> QED  BY <1>1, <1>2, CallReadsOn

LEMMA PassingHolds ==
  ASSUME PInv, ret = <<>>, Skip \/ CloseIgnored \/ Ignore
  PROVE  PInv'
<1>1. CASE Skip
  <2>1. Top.retval = 0  BY <1>1, TopTypes DEF Skip
  <2>2. Read(Top) /\ tree' = tree  BY <1>1 DEF Skip
  <2> QED  BY <2>1, <2>2, TopTypes, CallReadsOn
<1>2. CASE CloseIgnored
  <2>1. Top.state # "tag_term" /\ "idle" \in States  BY <1>2 DEF CloseIgnored, States
  <2> QED  BY <1>2, <2>1, StateChanges DEF CloseIgnored
<1>3. CASE Ignore
  <2> DEFINE state == IF res = (IF Top.state = "comment" THEN "C_STOP" ELSE "M_STOP_1")
                        THEN "idle" ELSE Top.state
  <2>1. Top.state # "tag_term" /\ state \in States  BY <1>3 DEF Ignore, States
  <2>2. Read(To(state)) /\ tree' = tree  BY <1>3 DEF Ignore
  <2> HIDE DEF state
  <2> QED  BY <2>1, <2>2, StateChanges
<1> QED  BY <1>1, <1>2, <1>3

LEMMA TagHolds ==
  ASSUME LInv, PInv, ret = <<>>,
         Begin \/ NodeName \/ PropertyName \/ Equals \/ PropertyValue \/ NoValue
  PROVE  PInv'
<1>1. TokenText \in Seq(Glyph)  BY TokenTypes DEF LInv
<1>2. CASE Begin
  <2> DEFINE state == Opens(res)
             f == [To(state) EXCEPT !.q = (res = "TI_START")]
  <2>1. state \in States  BY DEF Opens, States
  <2>2. Top.retval = 0  BY <1>2, TopTypes DEF Begin
  <2>3. To(state) \in FrameType  BY <2>1, ToTypes
  <2>4. f \in FrameType /\ f.node = Top.node /\ f.last = Top.last /\ f.retval = 0
    <3> HIDE DEF state
    <3> QED  BY <2>1, <2>2, <2>3, ToTypes DEF FrameType
  <2>5. Read(f) /\ tree' = tree  BY <1>2 DEF Begin
  <2> HIDE DEF f
  <2> QED  BY <2>4, <2>5, CallReadsOn
<1>3. CASE NodeName
  <2> DEFINE tag == (IF Top.q THEN <<"?">> ELSE <<>>) \o Upper(TokenText)
             f == [To("attribute") EXCEPT !.tag = tag, !.props = <<>>]
  <2>1. "attribute" \in States  BY DEF States
  <2>2. Top.retval = 0  BY <1>3, TopTypes DEF NodeName
  <2>3. tag \in Seq(Glyph)
    <3>1. "?" \in Glyph  BY DEF Glyph
    <3>2. (IF Top.q THEN <<"?">> ELSE <<>>) \in Seq(Glyph)  BY <3>1, Singleton, EmptySeq
    <3>3. Upper(TokenText) \in Seq(Glyph)  BY <1>1, UpperTypes
    <3> QED  BY <3>2, <3>3, ConcatProperties
  <2>4. To("attribute") \in FrameType  BY <2>1, ToTypes
  <2>5. <<>> \in Props  BY DEF Props
  <2>6. f \in FrameType /\ f.node = Top.node /\ f.last = Top.last /\ f.retval = 0
    <3> HIDE DEF tag
    <3> QED  BY <2>1, <2>2, <2>3, <2>4, <2>5, ToTypes DEF FrameType
  <2>7. Read(f) /\ tree' = tree  BY <1>3 DEF NodeName
  <2> HIDE DEF f
  <2> QED  BY <2>6, <2>7, CallReadsOn
<1>4. CASE PropertyName
  <2> DEFINE name == Upper(TokenText)
             f == [To("attribute_equals") EXCEPT !.property = name]
  <2>1. "attribute_equals" \in States  BY DEF States
  <2>2. Top.retval = 0  BY <1>4, TopTypes DEF PropertyName
  <2>3. name \in Seq(Glyph)  BY <1>1, UpperTypes
  <2>4. To("attribute_equals") \in FrameType  BY <2>1, ToTypes
  <2>5. f \in FrameType /\ f.node = Top.node /\ f.last = Top.last /\ f.retval = 0
    <3> HIDE DEF name
    <3> QED  BY <2>1, <2>2, <2>3, <2>4, ToTypes DEF FrameType
  <2>6. Read(f) /\ tree' = tree  BY <1>4 DEF PropertyName
  <2> HIDE DEF f
  <2> QED  BY <2>5, <2>6, CallReadsOn
<1>5. CASE Equals
  <2>1. Top.state # "tag_term" /\ "string" \in States  BY <1>5 DEF Equals, States
  <2> QED  BY <1>5, <2>1, StateChanges DEF Equals
<1>6. CASE PropertyValue
  <2> DEFINE value == Decode(TokenText)
             props == Append(Top.props, <<Top.property, value>>)
             f == [To("attribute") EXCEPT !.props = props]
  <2>1. "attribute" \in States  BY DEF States
  <2>2. Top.retval = 0  BY <1>6, TopTypes DEF PropertyValue
  <2>3. value \in Seq(Glyph)  BY <1>1, DecodeTypes
  <2>4. props \in Props
    <3>1. Top.props \in Props /\ Top.property \in Seq(Glyph)  BY TopTypes DEF FrameType
    <3> HIDE DEF value
    <3>2. <<Top.property, value>> \in Seq(Seq(Glyph))  BY <2>3, <3>1
    <3> QED  BY <3>1, <3>2, AppendProperties DEF Props
  <2>5. To("attribute") \in FrameType /\ To("attribute").props = Top.props  BY <2>1, ToTypes
  <2>6. f \in FrameType /\ f.node = Top.node /\ f.last = Top.last /\ f.retval = 0
    <3> HIDE DEF props
    <3> QED  BY <2>1, <2>2, <2>4, <2>5, ToTypes DEF FrameType
  <2>7. f = [To("attribute") EXCEPT !.props = Append(@, <<Top.property, value>>)]
    <3> HIDE DEF value
    <3> QED  BY <2>5 DEF props
  <2>8. Read(f) /\ tree' = tree  BY <1>6, <2>7 DEF PropertyValue
  <2> HIDE DEF f
  <2> QED  BY <2>6, <2>8, CallReadsOn
<1>7. CASE NoValue
  <2> DEFINE props == IF res = "IDENT" THEN Top.props ELSE Append(Top.props, <<Top.property>>)
             f == [To("attribute") EXCEPT !.props = props]
  <2>1. "attribute" \in States  BY DEF States
  <2>2. Top.retval = 0  BY <1>7, TopTypes DEF NoValue
  <2>3. props \in Props
    <3>1. Top.props \in Props /\ Top.property \in Seq(Glyph)  BY TopTypes DEF FrameType
    <3>2. <<Top.property>> \in Seq(Seq(Glyph))  BY <3>1
    <3> QED  BY <3>1, <3>2, AppendProperties DEF Props
  <2>4. To("attribute") \in FrameType /\ To("attribute").props = Top.props  BY <2>1, ToTypes
  <2>5. f \in FrameType /\ f.node = Top.node /\ f.last = Top.last /\ f.retval = 0
    <3> HIDE DEF props
    <3> QED  BY <2>1, <2>2, <2>3, <2>4, ToTypes DEF FrameType
  <2>6. f = [To("attribute") EXCEPT
               !.props = IF res = "IDENT" THEN @ ELSE Append(@, <<Top.property>>)]
    BY <2>4
  <2>7. Again(f) /\ tree' = tree  BY <1>7, <2>6 DEF NoValue, Again
  <2> HIDE DEF f
  <2> QED  BY <2>5, <2>7, CallReadsOn
<1> QED  BY <1>2, <1>3, <1>4, <1>5, <1>6, <1>7

LEMMA EndingHolds ==
  ASSUME PInv, ret = <<>>, Unexpected \/ EndOfDocument \/ Closed
  PROVE  PInv'
<1>1. CASE Unexpected
  <2>1. Return(-1)  BY <1>1 DEF Unexpected
  <2> QED  BY <2>1, CallEnds
<1>2. CASE EndOfDocument
  <2>1. Return(0)  BY <1>2, TopTypes DEF EndOfDocument
  <2>2. 0 >= -Len(frames)  BY TopTypes DEF PInv
  <2> QED  BY <2>1, <2>2, CallEnds
<1>3. CASE Closed
  <2> DEFINE v == Top.retval
  <2>1. Return(v)  BY <1>3 DEF Closed
  <2>2. v \in Int  BY TopTypes DEF FrameType
  <2>3. v = 0 \/ (v >= -Len(frames) /\ v < -1)
    BY TopTypes DEF PInv, ClosesFew, Top
  <2>4. v <= 0 /\ v >= -Len(frames)  BY <2>2, <2>3, TopTypes DEF PInv
  <2> HIDE DEF v
  <2> QED  BY <2>1, <2>2, <2>4, CallEnds
<1> QED  BY <1>1, <1>2, <1>3

\* A closing tag closes no more calls than there are.
LEMMA CloseHolds == ASSUME PInv, ret = <<>>, Close PROVE PInv'
<1> DEFINE name == Upper(TokenText)
           outer == {r \in 0 .. rec - 1 : frames[r + 1].name = name}
           back == CHOOSE r \in outer : \A s \in outer : s <= r
<1>1. Top.state # "tag_term" /\ Top.retval = 0 /\ tree' = tree  BY TopTypes DEF Close
<1>2. "tag_term" \in States /\ "tag_term_ignore" \in States  BY DEF States
<1>3. CASE name = Top.name
  <2>1. Read(To("tag_term"))  BY <1>3 DEF Close
  <2> QED  BY <1>1, <1>2, <2>1, StateChanges
<1>4. CASE name # Top.name /\ outer = {}
  <2>1. Read(To("tag_term_ignore"))  BY <1>4 DEF Close
  <2> QED  BY <1>1, <1>2, <2>1, StateChanges
<1>5. CASE name # Top.name /\ outer # {}
  <2> DEFINE v == back - rec - 1
             f == [To("tag_term") EXCEPT !.retval = v]
  <2>1. Read(f)  BY <1>5 DEF Close
  <2>2. rec \in Nat /\ rec = Len(frames) - 1  BY TopTypes DEF PInv, rec
  <2>3. back \in 0 .. rec - 1
    <3>1. outer \subseteq 0 .. rec - 1 /\ rec - 1 \in Int  BY <2>2
    <3> HIDE DEF outer
    <3>2. \E r \in outer : \A s \in outer : s <= r  BY <1>5, <3>1, GreatestExists
    <3> QED  BY <3>1, <3>2
  <2> HIDE DEF back
  <2>4. v \in Int /\ v < -1 /\ v >= -Len(frames)  BY <2>2, <2>3, TopTypes
  <2> HIDE DEF v
  <2>5. /\ f \in FrameType /\ f.state = "tag_term" /\ f.node = Top.node
        /\ f.last = Top.last /\ f.retval = v
    BY <1>2, <2>4, ToTypes, SMTT(30) DEF FrameType
  <2> HIDE DEF f
  <2> QED  BY <1>1, <2>1, <2>4, <2>5, CallReadsOn
<1> QED  BY <1>3, <1>4, <1>5

LEMMA AppendTextHolds ==
  ASSUME PInv, ret = <<>>, NEW text \in Seq(Glyph), Top.state # "tag_term", AppendText(text)
  PROVE  PInv'
<1>1. "idle" \in States  BY DEF States
<1> DEFINE idle == To("idle")
<1>2. idle \in FrameType /\ idle.node = Top.node /\ idle.last = Top.last /\ idle.retval = 0
  BY <1>1, ToTypes, TopTypes
<1>3. Top \in FrameType /\ Top.last \in {"none", "node", "text"}  BY TopTypes DEF FrameType
<1> HIDE DEF idle
<1>4. CASE text = <<>>
  <2>1. Read(idle) /\ tree' = tree  BY <1>4 DEF AppendText, idle
  <2> QED  BY <1>2, <2>1, CallReadsOn
<1>5. CASE text # <<>> /\ Top.last = "text"
  <2> DEFINE d == tree[Len(tree)].data \o text
  <2>1. tree' = [tree EXCEPT ![Len(tree)].data = d] /\ Read(idle)
    BY <1>5 DEF AppendText, idle
  <2>2. Len(tree) > 1 /\ Len(tree) \in DOMAIN tree  BY <1>5, TopTypes
  <2>3. tree[Len(tree)] \in NodeType  BY <2>2, TopTypes, ElementOfSeq DEF PInv
  <2>4. d \in Seq(Glyph)  BY <2>3, ConcatProperties DEF NodeType
  <2> HIDE DEF d
  <2>5. Grown  BY <2>1, <2>2, <2>4, DataChanged
  <2>6. Len(tree') > 1  BY <2>2, <2>5, TopTypes, LenProperties DEF Grown
  <2>7. frames' = [frames EXCEPT ![Len(frames)] = idle] /\ ret' = ret  BY <2>1 DEF Read
  <2> QED  BY <1>2, <2>5, <2>6, <2>7, CallGoesOn
<1>6. CASE text # <<>> /\ Top.last = "node"
  <2> DEFINE node == Node(Len(frames), CDataName, <<>>, text)
             f == [idle EXCEPT !.last = "text"]
  <2>1. tree' = Append(tree, node) /\ Read(f)  BY <1>6 DEF AppendText, idle
  <2>2. <<>> \in Props  BY DEF Props
  <2>3. node \in NodeType /\ node.depth = Len(frames)
    BY <2>2, TopTypes DEF Node, NodeType
  <2>4. Len(tree) > 1 /\ Len(tree) # 1  BY <1>6, TopTypes
  <2> HIDE DEF node
  <2>5. Grown /\ Len(tree') = Len(tree) + 1  BY <2>1, <2>3, <2>4, NodeAdded
  <2>6. Len(tree') > 1  BY <2>4, <2>5, TopTypes
  <2>7. f \in FrameType /\ f.node = Top.node /\ f.retval = 0  BY <1>2 DEF FrameType
  <2> HIDE DEF f
  <2>8. frames' = [frames EXCEPT ![Len(frames)] = f] /\ ret' = ret  BY <2>1 DEF Read
  <2> QED  BY <2>5, <2>6, <2>7, <2>8, CallGoesOn
<1>7. CASE text # <<>> /\ Top.last = "none"
  <2> DEFINE d == IF tree[Top.node].data = <<>> THEN Stripped(text)
                  ELSE tree[Top.node].data \o text
  <2>1. tree' = [tree EXCEPT ![Top.node].data = d] /\ Read(idle)
    BY <1>7 DEF AppendText, idle
  <2>2. Top.node \in DOMAIN tree  BY TopTypes
  <2>3. tree[Top.node] \in NodeType  BY <2>2, TopTypes, ElementOfSeq DEF PInv
  <2>4. d \in Seq(Glyph)  BY <2>3, ConcatProperties, StrippedTypes DEF NodeType
  <2> HIDE DEF d
  <2>5. Grown  BY <2>1, <2>2, <2>4, DataChanged
  <2>6. frames' = [frames EXCEPT ![Len(frames)] = idle] /\ ret' = ret  BY <2>1 DEF Read
  <2> QED  BY <1>2, <1>7, <2>5, <2>6, CallGoesOn
<1> QED  BY <1>3, <1>4, <1>5, <1>6, <1>7

LEMMA TextHolds == ASSUME LInv, PInv, ret = <<>>, Text \/ CDataText PROVE PInv'
<1> DEFINE plain == TokenText
           decoded == Decode(TokenText)
<1>1. plain \in Seq(Glyph)  BY TokenTypes DEF LInv
<1>2. decoded \in Seq(Glyph)  BY <1>1, DecodeTypes
<1>3. Top.state # "tag_term"  BY DEF Text, CDataText
<1>4. AppendText(plain) \/ AppendText(decoded)  BY DEF Text, CDataText
<1> HIDE DEF plain, decoded
<1> QED  BY <1>1, <1>2, <1>3, <1>4, AppendTextHolds

\* The node of the tag that was read.
LEMMA TagNode ==
  ASSUME PInv
  PROVE  LET node == Node(Len(frames), Top.tag, Top.props, <<>>)
         IN  node \in NodeType /\ node.depth = Len(frames) /\ node.name # CDataName
<1>1. Top.tag \in Seq(Glyph) /\ Top.props \in Props  BY TopTypes DEF FrameType
<1>2. Len(frames) \in Nat  BY TopTypes
<1>3. <<>> \in Seq(Glyph)  BY EmptySeq
<1>4. Top.tag # CDataName  BY <1>1, NamedGlyph
<1> QED  BY <1>1, <1>2, <1>3, <1>4 DEF Node, NodeType

LEMMA LeafHolds == ASSUME PInv, ret = <<>>, Leaf PROVE PInv'
<1> DEFINE node == Node(Len(frames), Top.tag, Top.props, <<>>)
           f == [To("idle") EXCEPT !.last = "node", !.q = FALSE]
<1>1. tree' = Append(tree, node) /\ Read(f) /\ Top.retval = 0
  BY TopTypes DEF Leaf
<1>2. node \in NodeType /\ node.depth = Len(frames) /\ node.name # CDataName  BY TagNode
<1> HIDE DEF node
<1>3. Grown /\ Len(tree') = Len(tree) + 1 /\ Len(tree) >= 1  BY <1>1, <1>2, NodeAdded
<1>4. Len(tree') > 1  BY <1>3, TopTypes
<1>5. "idle" \in States  BY DEF States
<1>6. f \in FrameType /\ f.node = Top.node /\ f.retval = 0
  <2> DEFINE idle == To("idle")
  <2>1. idle \in FrameType /\ idle.node = Top.node /\ idle.retval = 0
    BY <1>1, <1>5, ToTypes
  <2>2. f = [idle EXCEPT !.last = "node", !.q = FALSE]  OBVIOUS
  <2> HIDE DEF idle, f
  <2> QED  BY <2>1, <2>2 DEF FrameType
<1> HIDE DEF f
<1>7. frames' = [frames EXCEPT ![Len(frames)] = f] /\ ret' = ret  BY <1>1 DEF Read
<1> QED  BY <1>3, <1>4, <1>6, <1>7, CallGoesOn

LEMMA SubtreeHolds == ASSUME PInv, ret = <<>>, Subtree PROVE PInv'
<1>1. /\ Len(frames) \in Nat /\ DOMAIN frames = 1 .. Len(frames)
      /\ DOMAIN tree = 1 .. Len(tree) /\ Len(tree) \in Nat
  BY TopTypes
<1>2. CASE rec + 1 < MAX_RECURSION
  <2> DEFINE node == Node(Len(frames), Top.tag, Top.props, <<>>)
             f == Frame(Len(tree) + 1, Top.tag)
  <2>1. tree' = Append(tree, node) /\ frames' = Append(frames, f) /\ ret' = ret
    BY <1>2 DEF Subtree
  <2>2. node \in NodeType /\ node.depth = Len(frames) /\ node.name # CDataName  BY TagNode
  <2>3. Top.tag \in Seq(Glyph) /\ <<>> \in Seq(Glyph) /\ <<>> \in Props
    BY TopTypes DEF FrameType, Props
  <2>4. f \in FrameType /\ f.node = Len(tree) + 1 /\ f.last = "none" /\ f.retval = 0
    BY <1>1, <2>3 DEF Frame, FrameType, States
  <2> HIDE DEF node, f
  <2>5. Grown /\ Len(tree') = Len(tree) + 1 /\ tree'[Len(tree) + 1] = node /\ Len(tree) >= 1
    BY <2>1, <2>2, NodeAdded
  <2>6. /\ frames' \in Seq(FrameType) /\ Len(frames') = Len(frames) + 1
        /\ \A i \in 1 .. Len(frames) : frames'[i] = frames[i]
        /\ frames'[Len(frames) + 1] = f
    BY <2>1, <2>4, AppendProperties DEF PInv
  <2>7. DOMAIN frames' = 1 .. Len(frames) + 1 /\ DOMAIN tree' = 1 .. Len(tree) + 1
    BY <2>5, <2>6, LenProperties DEF Grown
  <2>8. \A i \in 1 .. Len(frames) :
          frames[i].node \in 1 .. Len(tree) /\ tree[frames[i].node].depth = i - 1
    BY <1>1 DEF PInv, Fills
  <2>9. Fills'
    <3>1. ASSUME NEW i \in DOMAIN frames'
          PROVE  frames'[i].node \in DOMAIN tree' /\ tree'[frames'[i].node].depth = i - 1
      <4>1. CASE i = Len(frames) + 1  BY <1>1, <2>2, <2>4, <2>5, <2>6, <2>7, <4>1
      <4>2. CASE i \in 1 .. Len(frames)
        <5>1. frames'[i].node \in 1 .. Len(tree) /\ tree[frames'[i].node].depth = i - 1
          BY <2>6, <2>8, <4>2
        <5> QED  BY <1>1, <2>5, <2>7, <5>1 DEF Grown
      <4> QED  BY <1>1, <2>7, <4>1, <4>2
    <3>2. ASSUME NEW i \in DOMAIN frames', NEW j \in DOMAIN frames', i < j
          PROVE  frames'[i].node < frames'[j].node
      <4>1. i \in 1 .. Len(frames) /\ frames'[i] = frames[i]  BY <1>1, <2>6, <2>7, <3>2
      <4>2. CASE j = Len(frames) + 1
        <5>1. frames'[j].node = Len(tree) + 1  BY <2>4, <2>6, <4>2
        <5> QED  BY <1>1, <2>8, <4>1, <5>1
      <4>3. CASE j \in 1 .. Len(frames)
        <5>1. frames'[j] = frames[j]  BY <2>6, <4>3
        <5> QED  BY <1>1, <3>2, <4>1, <4>3, <5>1 DEF PInv, Fills
      <4> QED  BY <1>1, <2>7, <4>2, <4>3
    <3> QED  BY <3>1, <3>2 DEF Fills
  <2>10. ClosesFew'
    <3>1. Top.retval = 0  BY TopTypes DEF Subtree
    <3>2. \A i \in 1 .. Len(frames) : frames[i].retval = 0
      BY <1>1, <3>1 DEF PInv, ClosesFew, Top
    <3>3. \A i \in DOMAIN frames' : frames'[i].retval = 0
      BY <1>1, <2>4, <2>6, <2>7, <3>2
    <3> QED  BY <3>3 DEF ClosesFew
  <2>11. HasSubtree'  BY <1>1, <2>5 DEF HasSubtree
  <2>12. Returns'  BY <2>1 DEF Returns
  <2>13. Len(frames') >= 1 /\ Len(frames') <= MAX_RECURSION
    BY <1>1, <1>2, <2>6, RecursionAssumption DEF rec
  <2> QED  BY <2>5, <2>6, <2>9, <2>10, <2>11, <2>12, <2>13 DEF PInv, Grown
<1>3. CASE ~(rec + 1 < MAX_RECURSION)
  <2>1. Return(-1)  BY <1>3 DEF Subtree
  <2> QED  BY <2>1, CallEnds
<1> QED  BY <1>2, <1>3

\* An error takes the subtree with it, and no call around it looks at it again.
LEMMA UnwindHolds == ASSUME PInv, Unwind PROVE PInv'
<1> DEFINE n == Len(frames) - 1
           v == ret[1]
           outer == SubSeq(frames, 1, n)
           caller == [frames[n] EXCEPT !.state = "idle", !.last = "node"]
<1>1. /\ Len(frames) \in Nat /\ DOMAIN frames = 1 .. Len(frames)
      /\ DOMAIN tree = 1 .. Len(tree) /\ Len(tree) \in Nat
  BY TopTypes
<1>2. n \in Nat /\ n >= 1 /\ n + 1 = Len(frames)  BY <1>1 DEF Unwind
<1>3. v \in Int /\ ret = <<v>> /\ (v = -1 \/ (v <= 0 /\ v >= -Len(frames)))
  BY DEF Unwind, PInv, Returns
<1>4. /\ outer \in Seq(FrameType) /\ Len(outer) = n /\ DOMAIN outer = 1 .. n
      /\ \A i \in 1 .. n : outer[i] = frames[i]
  <2>1. \A i \in 1 .. n : frames[i] \in FrameType  BY <1>1, <1>2, ElementOfSeq DEF PInv
  <2> HIDE DEF n
  <2>2. outer \in Seq(FrameType) /\ Len(outer) = n /\ \A i \in 1 .. n : outer[i] = frames[i]
    BY <1>2, <2>1, SubSeqProperties
  <2> QED  BY <2>2, LenProperties
<1>5. \A i \in 1 .. n : frames[i].retval = 0
  BY <1>1, <1>2 DEF PInv, ClosesFew
<1>6. \A i \in 1 .. Len(frames) :
        frames[i].node \in 1 .. Len(tree) /\ tree[frames[i].node].depth = i - 1
  BY <1>1 DEF PInv, Fills
<1>7. \A i, j \in 1 .. Len(frames) : i < j => frames[i].node < frames[j].node
  BY <1>1 DEF PInv, Fills
<1>8. Top = frames[n + 1]  BY <1>2 DEF Top
<1>9. CASE v = -1
  <2> DEFINE k == Top.node - 1
  <2>1. frames' = outer /\ tree' = SubSeq(tree, 1, k) /\ ret' = ret
    BY <1>9 DEF Unwind
  <2>2. k \in Nat /\ k <= Len(tree) /\ \A i \in 1 .. n : frames[i].node \in 1 .. k
    <3>1. Top.node \in 1 .. Len(tree)  BY <1>1, TopTypes
    <3>2. \A i \in 1 .. n : frames[i].node \in 1 .. Len(tree) /\ frames[i].node < Top.node
      BY <1>2, <1>6, <1>7, <1>8
    <3> QED  BY <1>1, <3>1, <3>2
  <2> HIDE DEF k
  <2>3. \A i \in 1 .. k : tree[i] \in NodeType  BY <1>1, <2>2, ElementOfSeq DEF PInv
  <2>4. tree' \in Seq(NodeType) /\ Len(tree') = k /\ \A i \in 1 .. k : tree'[i] = tree[i]
    BY <2>1, <2>2, <2>3, SubSeqProperties
  <2>5. DOMAIN tree' = 1 .. k  BY <2>4, LenProperties
  <2> HIDE DEF outer
  <2>6. Fills'
    <3>1. \A i \in DOMAIN frames' :
            frames'[i].node \in DOMAIN tree' /\ tree'[frames'[i].node].depth = i - 1
      <4> TAKE i \in DOMAIN frames'
      <4>1. i \in 1 .. n /\ frames'[i] = frames[i]  BY <1>4, <2>1
      <4>2. frames[i].node \in 1 .. k  BY <2>2, <4>1
      <4>3. tree[frames[i].node].depth = i - 1  BY <1>2, <1>6, <4>1
      <4> QED  BY <2>4, <2>5, <4>1, <4>2, <4>3
    <3>2. \A i, j \in DOMAIN frames' : i < j => frames'[i].node < frames'[j].node
      BY <1>2, <1>4, <1>7, <2>1
    <3> QED  BY <3>1, <3>2 DEF Fills
  <2>7. ClosesFew'  BY <1>4, <1>5, <2>1 DEF ClosesFew
  <2>8. HasSubtree'  BY <1>3, <1>9, <2>1 DEF HasSubtree
  <2>9. FirstIsElement'  BY <1>1, <2>2, <2>4 DEF PInv, FirstIsElement
  <2>10. Returns'  BY <1>3, <1>9, <2>1 DEF Returns
  <2>11. Len(frames') >= 1 /\ Len(frames') <= MAX_RECURSION
    BY <1>1, <1>2, <1>4, <2>1, RecursionAssumption DEF PInv
  <2> QED  BY <1>4, <2>1, <2>4, <2>6, <2>7, <2>8, <2>9, <2>10, <2>11 DEF PInv
<1>10. CASE v # -1
  <2>1. /\ frames' = [outer EXCEPT ![Len(outer)] = caller]
        /\ ret' = IF v = 0 THEN <<>> ELSE IF v = -2 THEN <<0>> ELSE <<v + 1>>
        /\ tree' = tree
    BY <1>10 DEF Unwind
  <2>2. /\ caller \in FrameType /\ caller.node = frames[n].node /\ caller.retval = 0
    <3>1. n \in 1 .. n  BY <1>2
    <3>2. frames[n] \in FrameType /\ frames[n].retval = 0
      BY <1>1, <1>2, <1>5, <3>1, ElementOfSeq DEF PInv
    <3> HIDE DEF n
    <3> QED  BY <3>2 DEF FrameType, States
  <2> HIDE DEF caller, outer, v, n
  <2>3. /\ frames' \in Seq(FrameType) /\ Len(frames') = n
        /\ \A i \in 1 .. n : frames'[i] = IF i = n THEN caller ELSE frames[i]
    BY <1>2, <1>4, <2>1, <2>2, ExceptSeq
  <2>4. DOMAIN frames' = 1 .. n  BY <2>3, LenProperties
  <2>5. \A i \in 1 .. n : frames'[i].node = frames[i].node /\ frames'[i].retval = 0
    BY <1>5, <2>2, <2>3
  <2>6. Fills'
    <3>1. \A i \in 1 .. n : i \in 1 .. Len(frames)  BY <1>2
    <3>2. \A i \in DOMAIN frames' :
            frames'[i].node \in DOMAIN tree' /\ tree'[frames'[i].node].depth = i - 1
      BY <1>1, <1>6, <2>1, <2>4, <2>5, <3>1
    <3>3. \A i, j \in DOMAIN frames' : i < j => frames'[i].node < frames'[j].node
      BY <1>7, <2>4, <2>5, <3>1
    <3> QED  BY <3>2, <3>3 DEF Fills
  <2>7. ClosesFew'  BY <2>4, <2>5 DEF ClosesFew
  <2>8. Len(tree) > 1
    <3>1. 1 \in 1 .. Len(frames) /\ n + 1 \in 1 .. Len(frames) /\ 1 < n + 1  BY <1>2
    <3>2. frames[1].node \in 1 .. Len(tree) /\ frames[n + 1].node \in 1 .. Len(tree)
      BY <1>6, <3>1
    <3>3. frames[1].node < frames[n + 1].node  BY <1>7, <3>1
    <3> QED  BY <1>1, <3>2, <3>3
  <2>9. HasSubtree'  BY <2>1, <2>8 DEF HasSubtree
  <2>10. FirstIsElement'  BY <2>1 DEF PInv, FirstIsElement
  <2>11. Returns'
    <3>1. CASE v = 0  BY <2>1, <3>1 DEF Returns
    <3>2. CASE v = -2
      <4>1. ret' = <<0>> /\ 0 >= -Len(frames')  BY <1>2, <2>1, <2>3, <3>2
      <4> QED  BY <4>1 DEF Returns
    <3>3. CASE v \notin {0, -2}
      <4>1. ret' = <<v + 1>>  BY <2>1, <3>3
      <4>2. v + 1 \in Int /\ v + 1 <= 0 /\ v + 1 >= -Len(frames')
        BY <1>2, <1>3, <1>10, <2>3, <3>3
      <4> QED  BY <4>1, <4>2 DEF Returns
    <3> QED  BY <3>1, <3>2, <3>3
  <2>12. Len(frames') >= 1 /\ Len(frames') <= MAX_RECURSION
    BY <1>1, <1>2, <2>3, RecursionAssumption DEF PInv
  <2> QED  BY <2>1, <2>3, <2>6, <2>7, <2>9, <2>10, <2>11, <2>12 DEF PInv
<1> QED  BY <1>9, <1>10

(***************************************************************************)
(* The specification.                                                      *)
(***************************************************************************)
\* What the parser does with a token leaves the lexer where it was, or has it
\* begin a new one.
LEMMA LexerWaits == ASSUME LInv, PInv, Parse \/ Unwind PROVE LInv'
<1>1. CASE lexVars' = lexVars
  <2>1. lexbuf' = lexbuf /\ lexer' = lexer /\ tok' = tok /\ scan' = scan /\ res' = res
    BY <1>1 DEF lexVars
  <2> QED  BY <2>1 DEF LInv, Placed
<1>2. CASE NextToken /\ lexbuf' = lexbuf /\ lexer' = lexer
             /\ (tok' = tok \/ tok' = Blanks(Len(tok)))
  <2>1. Len(tok) \in Nat  BY LenProperties DEF LInv
  <2>2. tok' \in Seq(Glyph) /\ Len(tok') >= Len(tok)  BY <1>2, <2>1, BlankTypes DEF LInv
  <2> QED  BY <1>2, <2>2, BeginsAnew DEF NextToken
<1>3. CASE lexbuf' = lexbuf /\ lexer' = lexer /\ tok' = tok /\ UNCHANGED <<scan, res>>
  BY <1>1, <1>3 DEF lexVars
<1>4. CASE \E f : Read(f)  BY <1>2, <1>4 DEF Read
<1>5. CASE \E f : Again(f)  BY <1>1, <1>5 DEF Again
<1>6. CASE \E w : Return(w)  BY <1>1, <1>6 DEF Return
<1>7. CASE Unwind  BY <1>1, <1>2, <1>3, <1>7 DEF Unwind
<1>8. CASE Parse
  <2>1. CASE Unexpected \/ EndOfDocument \/ Closed
    BY <1>6, <2>1 DEF Unexpected, EndOfDocument, Closed
  <2>2. CASE Skip \/ CloseIgnored \/ Ignore \/ Begin \/ NodeName \/ PropertyName \/ Equals
               \/ PropertyValue \/ Close \/ Leaf
    BY <1>4, <2>2 DEF Skip, CloseIgnored, Ignore, Begin, NodeName, PropertyName, Equals,
                      PropertyValue, Close, Leaf
  <2>3. CASE NoValue  BY <1>5, <2>3 DEF NoValue
  <2>4. CASE Text \/ CDataText  BY <1>4, <2>4 DEF Text, CDataText, AppendText
  <2>5. CASE Subtree  BY <1>2, <1>6, <2>5 DEF Subtree
  <2> QED  BY <1>8, <2>1, <2>2, <2>3, <2>4, <2>5 DEF Parse
<1> QED  BY <1>7, <1>8

LEMMA ParseHolds == ASSUME LInv, PInv, Parse PROVE PInv'
<1>1. ret = <<>>  BY DEF Parse
<1>2. CASE Skip \/ CloseIgnored \/ Ignore  BY <1>1, <1>2, PassingHolds
<1>3. CASE Begin \/ NodeName \/ PropertyName \/ Equals \/ PropertyValue \/ NoValue
  BY <1>1, <1>3, TagHolds
<1>4. CASE Unexpected \/ EndOfDocument \/ Closed  BY <1>1, <1>4, EndingHolds
<1>5. CASE Close  BY <1>1, <1>5, CloseHolds
<1>6. CASE Text \/ CDataText  BY <1>1, <1>6, TextHolds
<1>7. CASE Leaf  BY <1>1, <1>7, LeafHolds
<1>8. CASE Subtree  BY <1>1, <1>8, SubtreeHolds
<1> QED  BY <1>2, <1>3, <1>4, <1>5, <1>6, <1>7, <1>8 DEF Parse

LEMMA InitHolds == Init => LInv /\ PInv
<1> SUFFICES ASSUME Init PROVE LInv /\ PInv
  OBVIOUS
<1> DEFINE chars == CharsOf(pieces)
           arrived == SubSeq(chars, 1, cut)
<1>1. chars \in Seq(Glyph)
  <2>1. chars \in Seq(Characters)  BY DocumentsAssumption DEF Init
  <2>2. Characters \subseteq Glyph  BY DEF Glyph
  <2> HIDE DEF chars
  <2> QED  BY <2>1, <2>2, SeqMonotonic
<1>2. cut \in 0 .. Len(chars) /\ LexInit(Cleaned(arrived))
  <2>1. Len(chars) \in Nat  BY <1>1, LenProperties
  <2> QED  BY <2>1 DEF Init
<1> HIDE DEF chars
<1>3. arrived \in Seq(Glyph)
  <2>1. cut \in Int /\ cut <= Len(chars)  BY <1>1, <1>2, LenProperties
  <2> QED  BY <1>1, <2>1, SlicesOf
<1> HIDE DEF arrived
<1>4. Cleaned(arrived) \in Seq(Glyph)
  <2> DEFINE clean == Cleaned(arrived)
  <2>1. clean = [k \in DOMAIN arrived |-> clean[k]]
    BY DEF Cleaned
  <2>2. \A k \in DOMAIN arrived : clean[k] = " " \/ clean[k] = arrived[k]
    BY Zenon DEF Cleaned
  <2>3. \A k \in DOMAIN arrived : arrived[k] \in Glyph  BY <1>3, LenProperties, ElementOfSeq
  <2>4. " " \in Glyph  BY DEF Glyph
  <2> HIDE DEF clean
  <2>5. clean \in [DOMAIN arrived -> Glyph]  BY <2>1, <2>2, <2>3, <2>4
  <2> QED  BY <1>3, <2>5, LikeSeq DEF clean
<1>5. LInv
  <2>1. TOKEN_SIZE \in Nat  BY TokenSizeAssumption
  <2>2. tok \in Seq(Glyph) /\ Len(tok) = TOKEN_SIZE  BY <1>2, <2>1, BlankTypes DEF LexInit
  <2>3. lexbuf \in Seq(Glyph) /\ Len(lexbuf) \in Nat
    BY <1>2, <1>4, LenProperties DEF LexInit
  <2>4. /\ lexer = [pos |-> 1, lex_mode |-> "normal", in_comment |-> FALSE]
        /\ scan = [state |-> "idle", tok_pos |-> 0] /\ res = "none"
    BY <1>2 DEF LexInit
  <2> QED  BY <2>1, <2>2, <2>3, <2>4 DEF LInv, Placed, LexStates
<1>6. PInv
  <2> DEFINE f == Frame(1, <<>>)
             node == Node(0, <<>>, <<>>, <<>>)
  <2>1. frames = <<f>> /\ tree = <<node>> /\ ret = <<>>  BY DEF Init, ParserInit
  <2>2. <<>> \in Seq(Glyph) /\ <<>> \in Props  BY EmptySeq DEF Props
  <2>3. /\ f \in FrameType /\ f.node = 1 /\ f.retval = 0 /\ f.last = "none"
    BY <2>2 DEF Frame, FrameType, States
  <2>4. node \in NodeType /\ node.depth = 0  BY <2>2 DEF Node, NodeType
  <2> HIDE DEF f, node
  <2>5. /\ frames \in Seq(FrameType) /\ Len(frames) = 1 /\ DOMAIN frames = 1 .. 1
        /\ frames[1] = f
    BY <2>1, <2>3
  <2>6. /\ tree \in Seq(NodeType) /\ Len(tree) = 1 /\ DOMAIN tree = 1 .. 1 /\ tree[1] = node
    BY <2>1, <2>4
  <2> QED  BY <2>1, <2>3, <2>4, <2>5, <2>6, RecursionAssumption
           DEF PInv, Fills, ClosesFew, HasSubtree, FirstIsElement, Returns
<1> QED  BY <1>5, <1>6

LEMMA NextHolds == LInv /\ PInv /\ [Next]_vars => LInv' /\ PInv'
<1> SUFFICES ASSUME LInv, PInv, [Next]_vars PROVE LInv' /\ PInv'
  OBVIOUS
<1>1. CASE Lex /\ UNCHANGED parserVars
  <2>1. LInv'  BY <1>1, LexHolds
  <2>2. frames' = frames /\ tree' = tree /\ ret' = ret  BY <1>1 DEF parserVars
  <2>3. PInv'  BY <2>2 DEF PInv, Fills, ClosesFew, HasSubtree, FirstIsElement, Returns
  <2> QED  BY <2>1, <2>3
<1>2. CASE Parse  BY <1>2, LexerWaits, ParseHolds
<1>3. CASE Unwind  BY <1>3, LexerWaits, UnwindHolds
<1>4. CASE UNCHANGED vars
  <2>1. /\ lexbuf' = lexbuf /\ lexer' = lexer /\ tok' = tok /\ scan' = scan /\ res' = res
        /\ frames' = frames /\ tree' = tree /\ ret' = ret
    BY <1>4 DEF vars, lexVars, parserVars
  <2> QED  BY <2>1 DEF LInv, Placed, PInv, Fills, ClosesFew, HasSubtree, FirstIsElement, Returns
<1> QED  BY <1>1, <1>2, <1>3, <1>4 DEF Next

\* xmllexer.c never leaves the document or the token buffer, and xmlparser.c
\* never more than MAX_RECURSION calls: whatever the document is and wherever it
\* ends, every call returns to one that is there, and fills the node it was made
\* for.
THEOREM StaysInBounds == Spec => []InBounds
<1>1. LInv /\ PInv => InBounds
  <2> SUFFICES ASSUME LInv, PInv PROVE InBounds
    OBVIOUS
  <2>1. LexTypeOK
    <3>1. scan.tok_pos \in Nat /\ Len(tok) \in Nat  BY LenProperties DEF LInv
    <3> QED  BY <3>1 DEF LInv, Placed, LexTypeOK
  <2>2. Len(frames) \in Nat  BY TopTypes
  <2>3. frames # <<>> /\ Len(frames) <= MAX_RECURSION  BY EmptySeq DEF PInv
  <2>4. ret # <<>> /\ ret[1] # -1 => Len(frames) + ret[1] \in 0 .. Len(frames)
    BY <2>2 DEF PInv, Returns
  <2> QED  BY <2>1, <2>3, <2>4 DEF PInv, Fills, FirstIsElement, InBounds
<1> QED  BY <1>1, InitHolds, NextHolds, PTL DEF Spec

=============================================================================
