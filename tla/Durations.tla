----------------------------- MODULE Durations -----------------------------
(***************************************************************************)
(* idol_pl_parser_parse_duration: a text to a number of seconds, through a *)
(* row of sscanf formats, computed in an int.                              *)
(*                                                                         *)
(* A text is a sequence of tokens, each with its kind and its number: what *)
(* "%d" converts, and characters, whose number is 0.                       *)
(***************************************************************************)
EXTENDS Integers, Sequences

CONSTANT INT_MAX   \* the greatest int

ASSUME IntAssumption == INT_MAX \in Nat

Ints == -INT_MAX - 1 .. INT_MAX
Wrap(n) == ((n + INT_MAX + 1) % (2 * INT_MAX + 2)) - INT_MAX - 1

Number(n) == <<"%d", n>>
Character(c) == <<c, 0>>
Token == ({"%d"} \X Ints) \cup {Character(c) : c \in {":", ".", "m", "x"}}

\* sscanf converts every number of the format; what follows does not matter.
Scans(text, format) ==
  Len(text) >= Len(format) /\ \A n \in DOMAIN format : text[n][1] = format[n]

Value(text, n) == text[2 * n - 1][2]

\* Less than a second, in the fraction behind the n-th number, counts as one.
Rounded(seconds, text, n) ==
  LET fraction == Scans(SubSeq(text, 2 * n, Len(text)), <<".", "%d">>)
  IN  IF seconds = 0 /\ fraction /\ Value(text, n + 1) > 0 THEN 1 ELSE seconds

ParseDuration(text) ==
  IF Scans(text, <<"%d", ":", "%d", ":", "%d">>)
    THEN Rounded(Wrap(Value(text, 1) * 3600 + Value(text, 2) * 60 + Value(text, 3)), text, 3)
  ELSE IF Scans(text, <<"%d", ":", "%d">>)
    THEN Rounded(Wrap(Value(text, 1) * 60 + Value(text, 2)), text, 2)
  ELSE IF Scans(text, <<"%d", ".", "%d">>) \/ Scans(text, <<"%d", "m", "%d">>)
    THEN Wrap(Value(text, 1) * 60 + Value(text, 2))
  ELSE IF Scans(text, <<"%d">>) THEN Value(text, 1) ELSE -1
=============================================================================
