----------------------------- MODULE XmlParser -----------------------------
(***************************************************************************)
(* The parser of src/plparse/xmlparser.c on the tokens of XmlLexer, with   *)
(* the flags every caller in src/plparse gives it (relaxed, several texts, *)
(* case-insensitive): a tree from whatever a feed, an ASX or a SMIL holds. *)
(*                                                                         *)
(* The recursion of xml_parser_get_node_internal is a stack of frames.     *)
(* The tree is kept in document order, each node with its depth; its first *)
(* node is the one xml_parser_build_tree hands to the parser.              *)
(***************************************************************************)
EXTENDS XmlLexer, Integers

CONSTANT MAX_RECURSION   \* the frames the parser may have

ASSUME RecursionAssumption == MAX_RECURSION \in Nat \ {0}

VARIABLES
  frames,   \* xml_parser_get_node_internal, the innermost call last
  tree,     \* the nodes in document order
  ret       \* <<v>> while a call returns v, and at the end

parserVars == <<frames, tree, ret>>

Upper(name) ==
  [i \in DOMAIN name |-> IF name[i] = "a" THEN "A" ELSE IF name[i] = "b" THEN "B" ELSE name[i]]

(* lexer_decode_entities: one entity stands for all. *)
Decode(text) == [i \in DOMAIN text |-> IF text[i] = "&lt;" THEN "<" ELSE text[i]]

CDataName == <<"[CDATA]">>
Node(depth, name, props, data) == [depth |-> depth, name |-> name, props |-> props, data |-> data]

(* A frame: its state (q: inside <? ?>), the node it fills, what             *)
(* current_subtree is, the name expected to close it, the tag it reads, and *)
(* the return value a closing tag decided.                                  *)
Frame(node, name) ==
  [state |-> "idle", q |-> FALSE, node |-> node, last |-> "none", name |-> name,
   tag |-> <<>>, props |-> <<>>, property |-> <<>>, retval |-> 0]

Top == frames[Len(frames)]
rec == Len(frames) - 1

ParserInit ==
  /\ frames = <<Frame(1, <<>>)>>
  /\ tree = <<Node(0, <<>>, <<>>, <<>>)>>
  /\ ret = <<>>

(* Give the innermost frame a new value and ask for the next token. *)
Read(frame) ==
  /\ frames' = [frames EXCEPT ![Len(frames)] = frame]
  /\ NextToken
  /\ UNCHANGED <<lexbuf, lexer, tok, ret>>

(* The same without a new token: bypass_get_token. *)
Again(frame) ==
  /\ frames' = [frames EXCEPT ![Len(frames)] = frame]
  /\ UNCHANGED <<lexVars, tree, ret>>

Return(v) ==
  /\ ret' = <<v>>
  /\ UNCHANGED <<lexVars, frames, tree>>

To(state) == [Top EXCEPT !.state = state]

(***************************************************************************)
(* xml_parser_append_text: to the text node it follows, as a text node     *)
(* behind an element, or as the data of the node itself.                   *)
(***************************************************************************)
IsSpace(c) == c \in {" ", "nl"}
Stripped(text) ==
  LET inked == {i \in DOMAIN text : ~IsSpace(text[i])}
  IN  IF inked = {} THEN <<>>
      ELSE SubSeq(text, CHOOSE i \in inked : \A j \in inked : i <= j, Len(text))

AppendText(text) ==
  IF text = <<>>
    THEN Read(To("idle")) /\ UNCHANGED tree
    ELSE IF Top.last = "text"
      THEN /\ tree' = [tree EXCEPT ![Len(tree)].data = @ \o text]
           /\ Read(To("idle"))
      ELSE IF Top.last = "node"
        THEN /\ tree' = Append(tree, Node(Len(frames), CDataName, <<>>, text))
             /\ Read([To("idle") EXCEPT !.last = "text"])
        ELSE /\ tree' = [tree EXCEPT ![Top.node].data =
                           IF @ = <<>> THEN Stripped(text) ELSE @ \o text]
             /\ Read(To("idle"))

(***************************************************************************)
(* The state machine of the parser.                                        *)
(***************************************************************************)
Opens(token) ==
  IF token = "M_START_1" THEN "node" ELSE IF token = "M_START_2" THEN "node_close"
  ELSE IF token = "C_START" THEN "comment" ELSE IF token = "TI_START" THEN "node"
  ELSE IF token = "DOCTYPE_START" THEN "doctype" ELSE "cdata"

Beginnings ==
  {"M_START_1", "M_START_2", "C_START", "TI_START", "DOCTYPE_START", "CDATA_START"}

(* The tokens each state has a case for; the others are errors. *)
TagEnd == IF Top.q THEN "TI_STOP" ELSE "M_STOP_1"
Expected ==
  IF Top.state = "idle" THEN {"EOL", "SEPAR", "EOF", "DATA"} \cup Beginnings
  ELSE IF Top.state \in {"node", "node_close"} THEN {"IDENT"}
  ELSE IF Top.state = "attribute"
    THEN {"EOL", "SEPAR", "IDENT", TagEnd} \cup (IF Top.q THEN {} ELSE {"M_STOP_2"})
  ELSE IF Top.state = "attribute_equals" THEN {"EOL", "SEPAR", "EQUAL", "IDENT", TagEnd}
  ELSE IF Top.state = "string" THEN {"EOL", "SEPAR", "STRING", "IDENT"}
  ELSE IF Top.state \in {"tag_term", "tag_term_ignore"} THEN {"M_STOP_1"}
  ELSE IF Top.state = "cdata" THEN {"CDATA_STOP"}
  ELSE Tokens \ {"ERROR"}   \* comment and doctype

Unexpected == res \notin Expected /\ Return(-1)

(* Blanks outside of text. *)
Skip ==
  /\ res \in {"EOL", "SEPAR"}
  /\ Top.state \in {"idle", "attribute", "attribute_equals", "string"}
  /\ Read(Top) /\ UNCHANGED tree

(* Mutant: the end of the document is passed over like a blank.            *)
EndSkipped == Top.state = "idle" /\ res = "EOF" /\ Read(Top) /\ UNCHANGED tree

(* The end of the document is an end here whatever is open. *)
EndOfDocument == Top.state = "idle" /\ res = "EOF" /\ Return(Top.retval)

Begin ==
  /\ Top.state = "idle" /\ res \in Beginnings
  /\ Read([To(Opens(res)) EXCEPT !.q = (res = "TI_START")])
  /\ UNCHANGED tree

Text == Top.state = "idle" /\ res = "DATA" /\ AppendText(Decode(TokenText))

CDataText == Top.state = "cdata" /\ res = "CDATA_STOP" /\ AppendText(TokenText)

NodeName ==
  /\ Top.state = "node" /\ res = "IDENT"
  /\ Read([To("attribute") EXCEPT
             !.tag = (IF Top.q THEN <<"?">> ELSE <<>>) \o Upper(TokenText), !.props = <<>>])
  /\ UNCHANGED tree

PropertyName ==
  /\ Top.state = "attribute" /\ res = "IDENT"
  /\ Read([To("attribute_equals") EXCEPT !.property = Upper(TokenText)])
  /\ UNCHANGED tree

Equals ==
  /\ Top.state = "attribute_equals" /\ res = "EQUAL"
  /\ Read(To("string")) /\ UNCHANGED tree

PropertyValue ==
  /\ Top.state = "string" /\ res \in {"STRING", "IDENT"}
  /\ Read([To("attribute") EXCEPT !.props = Append(@, <<Top.property, Decode(TokenText)>>)])
  /\ UNCHANGED tree

(* A name without a value: kept in front of the end of the tag, lost in    *)
(* front of another name.                                                  *)
NoValue ==
  /\ Top.state = "attribute_equals" /\ res \in {"IDENT", TagEnd}
  /\ Again([To("attribute") EXCEPT
              !.props = IF res = "IDENT" THEN @ ELSE Append(@, <<Top.property>>)])

Leaf ==
  /\ Top.state = "attribute" /\ res = IF Top.q THEN "TI_STOP" ELSE "M_STOP_2"
  /\ tree' = Append(tree, Node(Len(frames), Top.tag, Top.props, <<>>))
  /\ Read([To("idle") EXCEPT !.last = "node", !.q = FALSE])

(* Mutant: the bound is checked one call too late.                         *)
SubtreeDeeper ==
  /\ Top.state = "attribute" /\ ~Top.q /\ res = "M_STOP_1"
  /\ IF rec < MAX_RECURSION
       THEN /\ tree' = Append(tree, Node(Len(frames), Top.tag, Top.props, <<>>))
            /\ frames' = Append(frames, Frame(Len(tree) + 1, Top.tag))
            /\ tok' = Blanks(Len(tok))
            /\ NextToken
            /\ UNCHANGED <<lexbuf, lexer, ret>>
       ELSE Return(-1)

(* The recursive call. *)
Subtree ==
  /\ Top.state = "attribute" /\ ~Top.q /\ res = "M_STOP_1"
  /\ IF rec + 1 < MAX_RECURSION
       THEN /\ tree' = Append(tree, Node(Len(frames), Top.tag, Top.props, <<>>))
            /\ frames' = Append(frames, Frame(Len(tree) + 1, Top.tag))
            /\ tok' = Blanks(Len(tok))
            /\ NextToken
            /\ UNCHANGED <<lexbuf, lexer, ret>>
       ELSE Return(-1)

(* Mutant: a closing tag of an element around this one closes only this.   *)
CloseOne ==
  /\ Top.state = "node_close" /\ res = "IDENT"
  /\ LET name == Upper(TokenText)
     IN Read(To(IF \E r \in 0 .. rec : frames[r + 1].name = name THEN "tag_term"
                ELSE "tag_term_ignore"))
  /\ UNCHANGED tree

(* A closing tag: of this element, of one around it, whose missing closing *)
(* tags the return value counts, or of none.                               *)
Close ==
  /\ Top.state = "node_close" /\ res = "IDENT"
  /\ LET name == Upper(TokenText)
         outer == {r \in 0 .. rec - 1 : frames[r + 1].name = name}
     IN Read(IF name = Top.name THEN To("tag_term")
             ELSE IF outer = {} THEN To("tag_term_ignore")
             ELSE LET r == CHOOSE r \in outer : \A s \in outer : s <= r
                  IN [To("tag_term") EXCEPT !.retval = r - rec - 1])
  /\ UNCHANGED tree

Closed == Top.state = "tag_term" /\ res = "M_STOP_1" /\ Return(Top.retval)

CloseIgnored ==
  /\ Top.state = "tag_term_ignore" /\ res = "M_STOP_1"
  /\ Read(To("idle")) /\ UNCHANGED tree

(* Everything up to the end of a comment or of a DOCTYPE, the end of the   *)
(* document included.                                                      *)
Ignore ==
  /\ Top.state \in {"comment", "doctype"} /\ res \in Expected
  /\ Read(To(IF res = (IF Top.state = "comment" THEN "C_STOP" ELSE "M_STOP_1")
               THEN "idle" ELSE Top.state))
  /\ UNCHANGED tree

Parse ==
  /\ res # "none" /\ ret = <<>>
  /\ \/ Unexpected \/ Skip \/ EndOfDocument \/ Begin \/ Text \/ CDataText
     \/ NodeName \/ PropertyName \/ Equals \/ PropertyValue \/ NoValue
     \/ Leaf \/ Subtree \/ Close \/ Closed \/ CloseIgnored \/ Ignore

(* A call returns to its caller, which hands an error on and frees nothing *)
(* but leaves its subtree out, or attaches the subtree; a return value     *)
(* below -1 closes the caller as well.                                     *)
Unwind ==
  /\ ret # <<>> /\ Len(frames) > 1
  /\ LET v == ret[1]
         caller == [frames[Len(frames) - 1] EXCEPT !.state = "idle", !.last = "node"]
         outer == SubSeq(frames, 1, Len(frames) - 1)
     IN IF v = -1
          THEN /\ frames' = outer
               /\ tree' = SubSeq(tree, 1, Top.node - 1)
               /\ UNCHANGED <<ret, lexVars>>
          ELSE /\ frames' = [outer EXCEPT ![Len(outer)] = caller]
               /\ ret' = IF v = 0 THEN <<>> ELSE IF v = -2 THEN <<0>> ELSE <<v + 1>>
               /\ IF v = 0 THEN NextToken ELSE UNCHANGED <<scan, res>>
               /\ UNCHANGED <<tree, lexbuf, lexer, tok>>

Done == ret # <<>> /\ Len(frames) = 1

(***************************************************************************)
(* xml_parser_build_tree_with_options: top-level text is deleted, and the  *)
(* first node that is no <?...?> has to be the last one.  What the parser  *)
(* returned does not matter.                                               *)
(***************************************************************************)
TopNodes(t) == {i \in DOMAIN t : t[i].depth = 1 /\ t[i].name # CDataName}
Roots(t) == {i \in TopNodes(t) : t[i].name[1] # "?"}
Root(t) == CHOOSE i \in Roots(t) : \A j \in Roots(t) : i <= j
Built(t) == Roots(t) # {} /\ \A i \in TopNodes(t) : i <= Root(t)

(* The tree of the caller: the root and what is in it. *)
Document(t) ==
  LET InRoot(i) == i >= Root(t) /\ \A j \in DOMAIN t : Root(t) < j /\ j <= i => t[j].depth > 1
  IN  SelectSeq([i \in DOMAIN t |-> [inside |-> InRoot(i), node |-> t[i]]],
                LAMBDA n : n.inside)
=============================================================================
