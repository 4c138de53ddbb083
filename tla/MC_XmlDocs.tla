---------------------------- MODULE MC_XmlDocs ----------------------------
(* Instances of XmlDocs for TLC: short documents of every kind of piece. *)
EXTENDS XmlDocs

A == Piece("open", <<"a">>, <<>>, <<>>)
B == Piece("open", <<"b">>, <<>>, <<>>)
EndA == Piece("close", <<"A">>, <<>>, <<>>)
EndB == Piece("close", <<"b">>, <<>>, <<>>)
Properties == Piece("open", <<"b">>, <<<<<<"x">>>>, <<<<"a">>, <<"&lt;">>>>, <<<<"x">>>>>>, <<>>)
LeafB == Piece("leaf", <<"b">>, <<<<<<"x">>, <<"y">>>>>>, <<>>)
Text1 == Piece("text", <<>>, <<>>, <<" ", "&lt;">>)
Text2 == Piece("text", <<>>, <<>>, <<" ", "nl">>)
Long == Piece("text", <<>>, <<>>, <<"x", "x", "x", "x", "x", "x", "x", "y", "y">>)
CData6 == Piece("cdata", <<>>, <<>>, <<"x", "]", "<", "x", "&lt;", "y">>)
Short == Piece("cdata", <<>>, <<>>, <<"x">>)
Comment == Piece("comment", <<>>, <<>>, <<" ", "x">>)
Kept == Piece("comment", <<>>, <<>>, <<" ", "/", "]", "]", ">", "x">>)
Target == Piece("pi", <<"x">>, <<<<<<"y">>, <<"y">>>>>>, <<>>)
Doctype == Piece("doctype", <<"x">>, <<>>, <<>>)

Inner == {A, B, EndA, EndB, LeafB, Text1, CData6}
Rare == {Comment, Properties, Text2, Long, Kept, Target, Doctype, Short}

MC_Documents ==
  {<<A>> \o s : s \in UNION {[1 .. n -> Inner] : n \in 0 .. 3}}
    \cup {<<A, x, y>> : x \in Rare, y \in Inner \cup Rare}
    \cup {<<A, x, y, z>> : x \in Rare, y \in {B, EndA, Text1, CData6}, z \in {B, EndB, Text1}}
    \cup {<<x, A, y>> : x \in {Target, Doctype, Kept, Text2, EndA, LeafB}, y \in {EndA, Text1}}

(* A short CDATA section. *)
MC_CData == {<<A, x, EndA>> : x \in {Text1, CData6, Short}} \cup
            {<<A, x, y, EndA>> : x \in {LeafB, CData6}, y \in {Text1, CData6, Short}}
=============================================================================
