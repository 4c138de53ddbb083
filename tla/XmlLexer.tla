------------------------------ MODULE XmlLexer ------------------------------
(***************************************************************************)
(* The lexer of src/plparse/xmllexer.c, one character a step.              *)
(*                                                                         *)
(* A character stands for its class where the code has one: "nl" for the   *)
(* line ends, " " for blanks, "quote" and "apos" for the quotes, "&lt;"    *)
(* for an entity, "C" for CDATA[ and "DO" for DOCTYPE, letters for the     *)
(* rest.  The token buffer is not cleared between tokens, so a token that  *)
(* is not terminated runs on into what earlier ones left behind it.        *)
(***************************************************************************)
EXTENDS Naturals, Sequences

CONSTANT TOKEN_SIZE   \* the size of the token buffer to begin with

ASSUME TokenSizeAssumption == TOKEN_SIZE \in Nat /\ TOKEN_SIZE >= 6

VARIABLES
  lexbuf,   \* the document: a sequence of characters
  lexer,    \* the position of the next character, lex_mode and in_comment
  tok,      \* the token buffer
  scan,     \* lexer_get_token_d_r: its state and tok_pos
  res       \* the token it returned, "none" while it runs

lexVars == <<lexbuf, lexer, tok, scan, res>>

NUL == "NUL"
Blanks(n) == [i \in 1 .. n |-> NUL]
Tokens == {"EOL", "SEPAR", "M_START_1", "M_START_2", "M_STOP_1", "M_STOP_2", "EQUAL",
           "STRING", "IDENT", "DATA", "C_START", "C_STOP", "TI_START", "TI_STOP",
           "DOCTYPE_START", "CDATA_START", "CDATA_STOP", "EOF", "ERROR"}

LexInit(document) ==
  /\ lexbuf = document
  /\ lexer = [pos |-> 1, lex_mode |-> "normal", in_comment |-> FALSE]
  /\ tok = Blanks(TOKEN_SIZE)
  /\ scan = [state |-> "idle", tok_pos |-> 0]
  /\ res = "none"

(* The string in the token buffer. *)
TokenText ==
  LET ends == {i \in DOMAIN tok : tok[i] = NUL}
  IN  IF ends = {} THEN tok
      ELSE SubSeq(tok, 1, (CHOOSE i \in ends : \A j \in ends : i <= j) - 1)

(* The n-th character after the next one. *)
Ahead(n) == IF lexer.pos + n \in DOMAIN lexbuf THEN lexbuf[lexer.pos + n] ELSE NUL
Char == Ahead(0)

(* The buffer with cells stored from tok_pos on; what is behind it stays. *)
Stored(cells) ==
  [i \in DOMAIN tok |-> LET n == i - scan.tok_pos
                        IN IF i > scan.tok_pos /\ n <= Len(cells) THEN cells[n] ELSE tok[i]]

(* Take n characters, store cells and go on in a state. *)
Keep(n, cells, state) ==
  /\ lexer' = [lexer EXCEPT !.pos = @ + n]
  /\ tok' = Stored(cells)
  /\ scan' = [state |-> state, tok_pos |-> scan.tok_pos + Len(cells)]
  /\ UNCHANGED <<lexbuf, res>>

ModeAfter(token) ==
  IF token \in {"M_STOP_1", "M_STOP_2", "TI_STOP"} /\ ~lexer.in_comment THEN "data"
  ELSE IF token = "CDATA_START" THEN "cdata"
  ELSE IF token = "CDATA_STOP" THEN "data"
  ELSE IF token = "DATA" THEN "normal"
  ELSE lexer.lex_mode

CommentAfter(token) == token = "C_START" \/ (lexer.in_comment /\ token # "C_STOP")

(* Take n characters, store cells as they are and return a token. *)
GiveRaw(n, cells, token) ==
  /\ lexer' = [pos |-> lexer.pos + n, lex_mode |-> ModeAfter(token),
               in_comment |-> CommentAfter(token)]
  /\ tok' = Stored(cells)
  /\ res' = token
  /\ UNCHANGED <<lexbuf, scan>>

(* The same with a terminator. *)
Give(n, cells, token) == GiveRaw(n, Append(cells, NUL), token)

StateOf(c) ==
  IF c = "nl" THEN "eol" ELSE IF c = " " THEN "separ"
  ELSE IF c = "<" THEN "m_start" ELSE IF c = ">" THEN "m_stop_1"
  ELSE IF c = "/" THEN "m_stop_2" ELSE IF c = "=" THEN "equal"
  ELSE IF c = "-" THEN "dashdash" ELSE IF c = "?" THEN "ti_stop" ELSE "ident"

(***************************************************************************)
(* lex_mode NORMAL, by state.                                              *)
(***************************************************************************)
Idle ==
  /\ scan.state = "idle"
  /\ IF Char \in {"quote", "apos"} THEN Keep(1, <<>>, Char)
     ELSE Keep(1, <<Char>>,
               IF Char \in {"/", "?"} /\ lexer.in_comment THEN "idle" ELSE StateOf(Char))

Space ==
  /\ scan.state \in {"eol", "separ"}
  /\ IF StateOf(Char) = scan.state THEN Keep(1, <<Char>>, scan.state)
     ELSE Give(0, <<>>, IF scan.state = "eol" THEN "EOL" ELSE "SEPAR")

Markup ==
  /\ scan.state = "m_start"
  /\ IF Char = "/" THEN Give(1, <<Char>>, "M_START_2")
     ELSE IF Char = "?" THEN Give(1, <<Char>>, "TI_START")
     ELSE IF Char = "!" THEN Keep(1, <<Char>>, "comment")
     ELSE Give(0, <<>>, "M_START_1")

OneCharacter ==
  /\ scan.state \in {"m_stop_1", "equal"}
  /\ Give(0, <<>>, IF scan.state = "equal" THEN "EQUAL" ELSE "M_STOP_1")

TwoCharacters ==
  /\ scan.state \in {"m_stop_2", "ti_stop"}
  /\ IF Char = ">" THEN Give(1, <<Char>>, IF scan.state = "ti_stop" THEN "TI_STOP" ELSE "M_STOP_2")
     ELSE Give(0, <<>>, "ERROR")

Quoted ==
  /\ scan.state \in {"quote", "apos"}
  /\ IF Char = scan.state THEN Give(1, <<>>, "STRING")
     ELSE Keep(1, <<Char>>, scan.state)

(* After "<!": a comment, a document type or a CDATA section. *)
Declaration ==
  /\ scan.state = "comment"
  /\ IF Char = "-" THEN IF Ahead(1) = "-" THEN Give(2, <<"-", "-">>, "C_START")
                        ELSE Keep(1, <<>>, "comment")
     ELSE IF Char = "DO" THEN GiveRaw(1, <<"DO">>, "DOCTYPE_START")
     ELSE IF Char = "[" /\ Ahead(1) = "C" THEN GiveRaw(2, <<"[", "C">>, "CDATA_START")
     ELSE GiveRaw(0, <<>>, "ERROR")

Dashes ==
  /\ scan.state = "dashdash"
  /\ Keep(1, <<Char>>, IF Char = "-" THEN "c_stop" ELSE "ident")

(* "-->" ends a comment when it is a token of its own; behind a name it is *)
(* given back to be read again.                                            *)
CommentEnd ==
  /\ scan.state = "c_stop"
  /\ IF Char # ">" THEN Keep(1, <<Char>>, "ident")
     ELSE IF scan.tok_pos = 2 THEN Give(1, <<Char>>, "C_STOP")
     ELSE /\ lexer' = [lexer EXCEPT !.pos = @ - 2]
          /\ tok' = [Stored(<<Char, NUL>>) EXCEPT ![scan.tok_pos - 1] = NUL]
          /\ res' = "IDENT"
          /\ UNCHANGED <<lexbuf, scan>>

Ident ==
  /\ scan.state = "ident"
  /\ IF Char \in {"<", ">", "quote", " ", "nl", "=", "/"} THEN Give(0, <<>>, "IDENT")
     ELSE Keep(1, <<Char>>, IF Char = "?" THEN "ti_stop" ELSE IF Char = "-" THEN "dashdash"
                            ELSE "ident")

Normal ==
  /\ lexer.lex_mode = "normal"
  /\ \/ Idle \/ Space \/ Markup \/ OneCharacter \/ TwoCharacters \/ Quoted
     \/ Declaration \/ Dashes \/ CommentEnd \/ Ident

(***************************************************************************)
(* lex_mode DATA and CDATA.  A CDATA section is not terminated.            *)
(***************************************************************************)
Data ==
  /\ lexer.lex_mode = "data"
  /\ IF Char = "<" THEN Give(0, <<>>, "DATA") ELSE Keep(1, <<Char>>, "idle")

CData ==
  /\ lexer.lex_mode = "cdata"
  /\ IF Char = "]" /\ Ahead(1) = "]" /\ Ahead(2) = ">"
       THEN GiveRaw(3, <<>>, "CDATA_STOP")
       ELSE Keep(1, <<Char>>, "idle")

(***************************************************************************)
(* The ends of the loop.  A full buffer is doubled and the token is begun  *)
(* anew, with the next character, in the initial state.                    *)
(***************************************************************************)
Full == scan.tok_pos >= Len(tok)
AtEnd == lexer.pos > Len(lexbuf)

Grow ==
  /\ Full
  /\ tok' = tok \o Blanks(Len(tok))
  /\ scan' = [state |-> "idle", tok_pos |-> 0]
  /\ UNCHANGED <<lexbuf, lexer, res>>

EndToken ==
  IF scan.state \in {"idle", "eol", "separ"} THEN "EOF"
  ELSE IF scan.state = "m_start" THEN "M_START_1"
  ELSE IF scan.state = "m_stop_1" THEN "M_STOP_1"
  ELSE IF scan.state = "equal" THEN "EQUAL"
  ELSE IF scan.state \in {"quote", "apos"} THEN "STRING"
  ELSE IF scan.state = "ident" THEN "DATA"
  ELSE "ERROR"

End ==
  /\ ~Full /\ AtEnd
  /\ tok' = Stored(<<NUL>>)
  /\ res' = EndToken
  /\ UNCHANGED <<lexbuf, lexer, scan>>

Lex ==
  /\ res = "none"
  /\ \/ Grow
     \/ End
     \/ ~Full /\ ~AtEnd /\ (Normal \/ Data \/ CData)

(* The next call of lexer_get_token_d_r. *)
NextToken == scan' = [state |-> "idle", tok_pos |-> 0] /\ res' = "none"

LexTypeOK ==
  /\ lexer.pos \in 1 .. Len(lexbuf) + 1
  /\ lexer.lex_mode \in {"normal", "data", "cdata"} /\ lexer.in_comment \in BOOLEAN
  /\ Len(tok) >= TOKEN_SIZE
  /\ scan.tok_pos \in 0 .. Len(tok)
  /\ res \in Tokens \cup {"none"}
=============================================================================
