---------------------------- MODULE MC_PlsEntries ----------------------------
(***************************************************************************)
(* Files of up to four lines without lengths, of up to three with one of a *)
(* few lengths, and numbers of three bits; every form of a length, with    *)
(* ints of 14 bits.                                                        *)
(***************************************************************************)
EXTENDS PlsEntries

MCNumbers == {0, 1, 6}  \* the keys end in 0, 1 and -2

Fields == {Number(n) : n \in {-1, 0, 2, 59}}
MCLengths ==
  LET C(c) == Character(c)
  IN  {<<>>, <<C("x")>>, <<C(":"), Number(2)>>, <<Number(500)>>, <<Number(-1)>>}
      \cup {<<a, C(s)>> : a \in Fields, s \in {":", ".", "m", "x"}}
      \cup {<<a, C(s), b>> : a, b \in Fields, s \in {":", ".", "m", "x"}}
      \cup {<<a, C(":"), b, C(s), c>> : a, b, c \in Fields, s \in {":", ".", "x"}}
      \cup {<<a, C(":"), a, C(":"), b, C(s), c>> : a, b, c \in Fields, s \in {":", "."}}

Without == {l \in Line : l.key # "length"}
Few == {l \in Line : l.key = "length" /\ l.num # 6 /\
                      l.value \in {<<Number(-1)>>, <<Number(2), Character(":"), Number(0)>>}}
UpTo(n, S) == UNION {[1 .. m -> S] : m \in 0 .. n}

MCContents ==
  UpTo(4, Without) \cup UpTo(3, Without \cup Few)
    \cup {<<[key |-> "file", num |-> 1, value |-> <<>>],
             [key |-> "length", num |-> 1, value |-> t]>> : t \in MCLengths}

=============================================================================
