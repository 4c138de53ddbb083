-------------------------- MODULE PlsEntriesProofs --------------------------
(***************************************************************************)
(* Proofs about the entries of a PLS, for files of any number of lines,    *)
(* any lengths and ints and counters of any width: what is reported, in    *)
(* which order and how often, is what the lines of the file say.           *)
(***************************************************************************)
EXTENDS PlsEntries, FiniteSetTheorems, SequenceTheorems, TLAPS

(***************************************************************************)
(* Durations: what the row of formats converts is the number of seconds    *)
(* that the text stands for.                                               *)
(***************************************************************************)
\* An int that can hold a sum holds that sum.
LEMMA WrapKeeps == \A n \in Ints : Wrap(n) = n
BY IntAssumption DEF Ints, Wrap

LEMMA WrapType == \A n \in Int : Wrap(n) \in Ints
BY IntAssumption DEF Ints, Wrap

LEMMA TokenType ==
  ASSUME NEW text \in Seq(Token), NEW n \in 1 .. Len(text)
  PROVE  text[n][2] \in Ints
<1>1. text[n] \in Token  BY ElementOfSeq
<1>2. 0 \in Ints  BY IntAssumption DEF Ints
<1> QED  BY <1>1, <1>2 DEF Token, Character

LEMMA ClockIs ==
  ASSUME NEW text
  PROVE  /\ Clock(text, 0) = 0
         /\ Clock(text, 1) = 60 * 0 + text[1][2]
         /\ Clock(text, 2) = 60 * (60 * 0 + text[1][2]) + text[3][2]
         /\ Clock(text, 3) = 60 * (60 * (60 * 0 + text[1][2]) + text[3][2]) + text[5][2]
<1> DEFINE P(c) == c = [m \in 0 .. 3 |-> IF m = 0 THEN 0 ELSE 60 * c[m - 1] + text[2 * m - 1][2]]
           c1 == 60 * 0 + text[1][2]
           c2 == 60 * c1 + text[3][2]
           c3 == 60 * c2 + text[5][2]
           w  == [m \in 0 .. 3 |-> IF m = 0 THEN 0 ELSE IF m = 1 THEN c1
                                     ELSE IF m = 2 THEN c2 ELSE c3]
           clock == CHOOSE c : P(c)
<1>1. w[0] = 0 /\ w[1] = c1 /\ w[2] = c2 /\ w[3] = c3  OBVIOUS
<1>2. \A m \in 0 .. 3 : w[m] = IF m = 0 THEN 0 ELSE 60 * w[m - 1] + text[2 * m - 1][2]
  <2> HIDE DEF w
  <2> QED  BY <1>1
<1>3. P(w)
  <2>1. w = [m \in 0 .. 3 |-> w[m]]  OBVIOUS
  <2> HIDE DEF w
  <2> QED  BY <1>2, <2>1
<1>4. P(clock)
  <2> HIDE DEF w, P
  <2> QED  BY <1>3
<1>5. /\ clock[0] = 0 /\ clock[1] = 60 * clock[0] + text[1][2]
      /\ clock[2] = 60 * clock[1] + text[3][2] /\ clock[3] = 60 * clock[2] + text[5][2]
  <2> HIDE DEF clock
  <2>1. clock = [m \in 0 .. 3 |-> IF m = 0 THEN 0 ELSE 60 * clock[m - 1] + text[2 * m - 1][2]]
    BY <1>4
  <2> QED  BY <2>1
<1>6. \A n : Clock(text, n) = clock[n]  BY DEF Clock
<1> HIDE DEF clock
<1> QED  BY <1>5, <1>6

\* The text begins with this many numbers between colons, and with no more.
IsParts(text, n) ==
  LET IsClock(m) == /\ 2 * m - 1 <= Len(text)
                    /\ \A l \in 1 .. 2 * m - 1 : text[l][1] = IF l % 2 = 1 THEN "%d" ELSE ":"
  IN  /\ n \in 0 .. 3 /\ (n > 0 => IsClock(n))
      /\ \A m \in 1 .. 3 : IsClock(m) => m <= n

LEMMA PartsIs == ASSUME NEW text \in Seq(Token) PROVE IsParts(text, Parts(text))
<1> DEFINE IsClock(n) == /\ 2 * n - 1 <= Len(text)
                         /\ \A m \in 1 .. 2 * n - 1 : text[m][1] = IF m % 2 = 1 THEN "%d" ELSE ":"
           fields == {n \in 1 .. 3 : IsClock(n)}
           Greatest(n) == \A m \in fields : m <= n
<1>1. Parts(text) = IF fields = {} THEN 0 ELSE CHOOSE n \in fields : Greatest(n)  BY DEF Parts
<1>2. IsParts(text, Parts(text)) <=> /\ Parts(text) \in 0 .. 3
                                     /\ Parts(text) > 0 => IsClock(Parts(text))
                                     /\ \A m \in 1 .. 3 : IsClock(m) => m <= Parts(text)
  BY DEF IsParts
<1> HIDE DEF IsClock
<1>3. fields # {} => \E n \in fields : Greatest(n)
  <2>1. CASE 3 \in fields  BY <2>1
  <2>2. CASE 3 \notin fields /\ 2 \in fields
    <3>1. Greatest(2)  BY <2>2
    <3> QED  BY <2>2, <3>1
  <2>3. CASE 3 \notin fields /\ 2 \notin fields /\ fields # {}
    <3>1. 1 \in fields /\ Greatest(1)  BY <2>3
    <3> QED  BY <3>1
  <2> QED  BY <2>1, <2>2, <2>3
<1>4. CASE fields = {}  BY <1>1, <1>2, <1>4
<1>5. CASE fields # {}
  <2>1. (CHOOSE n \in fields : Greatest(n)) \in fields /\ Greatest(CHOOSE n \in fields : Greatest(n))
    <3> HIDE DEF fields, Greatest
    <3> QED  BY <1>3, <1>5
  <2>2. Parts(text) \in fields /\ Greatest(Parts(text))  BY <1>1, <1>5, <2>1
  <2> QED  BY <1>2, <2>2
<1> QED  BY <1>4, <1>5

LEMMA ScansClock ==
  ASSUME NEW text \in Seq(Token)
  PROVE  /\ Scans(text, <<"%d", ":", "%d", ":", "%d">>) <=> Parts(text) = 3
         /\ Scans(text, <<"%d", ":", "%d">>) <=> Parts(text) \in 2 .. 3
         /\ Scans(text, <<"%d">>) <=> Parts(text) \in 1 .. 3
         /\ Parts(text) \in 0 .. 3
<1> DEFINE IsClock(n) == /\ 2 * n - 1 <= Len(text)
                         /\ \A m \in 1 .. 2 * n - 1 : text[m][1] = IF m % 2 = 1 THEN "%d" ELSE ":"
<1>1. /\ Parts(text) \in 0 .. 3 /\ (Parts(text) > 0 => IsClock(Parts(text)))
      /\ \A m \in 1 .. 3 : IsClock(m) => m <= Parts(text)
  BY PartsIs, Zenon DEF IsParts
<1>2. /\ 1 % 2 = 1 /\ 2 % 2 = 0 /\ 3 % 2 = 1 /\ 4 % 2 = 0 /\ 5 % 2 = 1
      /\ 1 .. 1 = {1} /\ 1 .. 3 = {1, 2, 3} /\ 1 .. 5 = {1, 2, 3, 4, 5}
  OBVIOUS
<1>3. Scans(text, <<"%d">>) <=> IsClock(1)
  BY <1>2 DEF Scans
<1>4. Scans(text, <<"%d", ":", "%d">>) <=> IsClock(2)
  BY <1>2 DEF Scans
<1>5. Scans(text, <<"%d", ":", "%d", ":", "%d">>) <=> IsClock(3)
  BY <1>2 DEF Scans
<1>6. (IsClock(3) => IsClock(2)) /\ (IsClock(2) => IsClock(1))  BY <1>3, <1>4, <1>5 DEF Scans
<1> HIDE DEF IsClock
<1> QED  BY <1>1, <1>3, <1>4, <1>5, <1>6

LEMMA ScansFraction ==
  ASSUME NEW text \in Seq(Token), NEW n \in 1 .. 3
  PROVE  Scans(SubSeq(text, 2 * n, Len(text)), <<".", "%d">>)
           <=> Len(text) > 2 * n /\ text[2 * n][1] = "." /\ text[2 * n + 1][1] = "%d"
<1> DEFINE a == 2 * n
           b == Len(text)
           s == SubSeq(text, a, b)
<1>1. a \in 2 .. 6 /\ b \in Nat  OBVIOUS
<1>2. Scans(s, <<".", "%d">>) <=> Len(s) >= 2 /\ s[1][1] = "." /\ s[2][1] = "%d"  
  <2> HIDE DEF s
  <2> QED  BY DEF Scans
<1>3. CASE a > b
  <2>1. Len(s) = 0  BY <1>1, <1>3
  <2> HIDE DEF s
  <2> QED  BY <1>1, <1>2, <1>3, <2>1 DEF s
<1>4. CASE a <= b
  <2>1. Len(s) = b - a + 1 /\ \A m \in 1 .. Len(s) : s[m] = text[a + m - 1]
    <3> HIDE DEF a, b
    <3> QED  BY <1>1, <1>4, SMTT(30)
  <2>2. Len(s) >= 2 => s[1] = text[a] /\ s[2] = text[a + 1]  BY <1>1, <2>1
  <2>3. Len(s) >= 2 <=> b > a  BY <1>1, <2>1
  <2> HIDE DEF s
  <2> QED  BY <1>2, <2>2, <2>3 DEF s
<1> QED  BY <1>1, <1>3, <1>4

\* The formats and the clock agree, wherever an int can hold the seconds.
LEMMA DurationIsSeconds ==
  ASSUME NEW text \in Seq(Token), Seconds(text) \in Ints
  PROVE  ParseDuration(text) = Seconds(text)
<1> DEFINE parts == Parts(text)
           clock == Clock(text, parts)
           behind == IF Len(text) > 2 * parts /\ text[2 * parts + 1][1] = "%d"
                     THEN <<text[2 * parts][1], text[2 * parts + 1][2]>> ELSE <<"", 0>>
<1>1. Seconds(text) =
        IF parts = 0 THEN -1
        ELSE IF parts = 1 THEN IF behind[1] \in {".", "m"} THEN 60 * clock + behind[2] ELSE clock
        ELSE IF clock = 0 /\ behind[1] = "." /\ behind[2] > 0 THEN 1 ELSE clock
  BY DEF Seconds
<1>2. \A n \in 1 .. Len(text) : text[n][2] \in Int  BY TokenType DEF Ints
<1>3. Len(text) \in Nat  OBVIOUS
<1>4. CASE parts = 0
  <2>1. ParseDuration(text) = -1
    <3>1. ~(Scans(text, <<"%d", ".", "%d">>) \/ Scans(text, <<"%d", "m", "%d">>))
      <4>1. ~Scans(text, <<"%d">>)  BY <1>4, ScansClock
      <4> QED  BY <1>3, <4>1 DEF Scans
    <3> QED  BY <1>4, <3>1, ScansClock DEF ParseDuration
  <2> QED  BY <1>1, <1>4, <2>1
<1>5. CASE parts = 1
  <2>1. Len(text) >= 1 /\ text[1][1] = "%d" /\ text[1][2] \in Int
    <3>1. Scans(text, <<"%d">>)  BY <1>5, ScansClock
    <3> QED  BY <1>2, <3>1 DEF Scans
  <2>2. clock = text[1][2]  BY <1>5, <2>1, ClockIs
  <2>3. \A c \in {".", "m"} : Scans(text, <<"%d", c, "%d">>)
                                <=> Len(text) > 2 /\ text[2][1] = c /\ text[3][1] = "%d"
    BY <2>1, <1>3 DEF Scans
  <2>4. ParseDuration(text) = IF Scans(text, <<"%d", ".", "%d">>) \/ Scans(text, <<"%d", "m", "%d">>)
                              THEN Wrap(text[1][2] * 60 + text[3][2]) ELSE text[1][2]
    BY <1>5, ScansClock DEF ParseDuration, Value
  <2>5. CASE Len(text) > 2 /\ text[3][1] = "%d" /\ text[2][1] \in {".", "m"}
    <3>1. behind = <<text[2][1], text[3][2]>>  BY <1>5, <2>5
    <3>2. Seconds(text) = 60 * text[1][2] + text[3][2]  BY <1>1, <1>5, <2>2, <2>5, <3>1
    <3>3. text[3][2] \in Int  BY <1>2, <1>3, <2>5
    <3>4. ParseDuration(text) = Wrap(text[1][2] * 60 + text[3][2])  BY <2>3, <2>4, <2>5
    <3>5. 60 * text[1][2] + text[3][2] = text[1][2] * 60 + text[3][2]  BY <2>1, <3>3
    <3> QED  BY <3>2, <3>4, <3>5, WrapKeeps
  <2>6. CASE ~(Len(text) > 2 /\ text[3][1] = "%d" /\ text[2][1] \in {".", "m"})
    <3>1. behind[1] \notin {".", "m"}
      <4>1. CASE Len(text) > 2 /\ text[3][1] = "%d"
        <5>1. behind[1] = text[2][1]  BY <1>5, <4>1
        <5> QED  BY <2>6, <4>1, <5>1
      <4>2. CASE ~(Len(text) > 2 /\ text[3][1] = "%d")
        <5>1. 2 * parts = 2 /\ 2 * parts + 1 = 3  BY <1>5
        <5>2. behind = <<"", 0>>  BY <4>2, <5>1
        <5> QED  BY <5>2
      <4> QED  BY <4>1, <4>2
    <3>2. Seconds(text) = text[1][2]
      <4> HIDE DEF behind, clock
      <4> QED  BY <1>1, <1>5, <2>2, <3>1
    <3>3. ParseDuration(text) = text[1][2]  BY <2>3, <2>4, <2>6
    <3> QED  BY <3>2, <3>3
  <2> QED  BY <2>5, <2>6
<1>6. ASSUME NEW n \in 2 .. 3, n = parts,
             ParseDuration(text) = Rounded(Wrap(clock), text, n), clock \in Int
      PROVE  ParseDuration(text) = Seconds(text)
  <2>1. Rounded(Wrap(clock), text, n) =
          IF /\ Wrap(clock) = 0 /\ Len(text) > 2 * n /\ text[2 * n][1] = "."
             /\ text[2 * n + 1][1] = "%d" /\ text[2 * n + 1][2] > 0
          THEN 1 ELSE Wrap(clock)
    <3>1. Value(text, n + 1) = text[2 * n + 1][2]
      <4>1. 2 * (n + 1) - 1 = 2 * n + 1  OBVIOUS
      <4> QED  BY <4>1 DEF Value
    <3> QED  BY <3>1, ScansFraction DEF Rounded
  <2>2. Seconds(text) =
          IF /\ clock = 0 /\ Len(text) > 2 * n /\ text[2 * n][1] = "."
             /\ text[2 * n + 1][1] = "%d" /\ text[2 * n + 1][2] > 0
          THEN 1 ELSE clock
    <3> HIDE DEF clock
    <3>1. Seconds(text) = IF clock = 0 /\ behind[1] = "." /\ behind[2] > 0 THEN 1 ELSE clock
      <4> HIDE DEF behind
      <4> QED  BY <1>1, <1>6
    <3>2. CASE Len(text) > 2 * n /\ text[2 * n + 1][1] = "%d"
      <4>1. behind[1] = text[2 * n][1] /\ behind[2] = text[2 * n + 1][2]  BY <1>6, <3>2
      <4> HIDE DEF behind
      <4> QED  BY <3>1, <3>2, <4>1
    <3>3. CASE ~(Len(text) > 2 * n /\ text[2 * n + 1][1] = "%d")
      <4>1. behind = <<"", 0>>  BY <1>6, <3>3
      <4>2. behind[1] # "."  BY <4>1
      <4> HIDE DEF behind
      <4> QED  BY <3>1, <3>3, <4>2
    <3> QED  BY <3>2, <3>3
  <2>3. clock \in Ints => Wrap(clock) = clock  BY WrapKeeps
  <2>4. clock \notin Ints => Seconds(text) = 1 /\ clock = 0
    BY <2>2
  <2>5. 0 \in Ints  BY IntAssumption DEF Ints
  <2> HIDE DEF clock, parts, behind
  <2>6. Wrap(clock) = clock  BY <2>3, <2>4, <2>5
  <2> QED  BY <1>6, <2>1, <2>2, <2>6
<1>7. CASE parts = 2
  <2>1. Len(text) >= 3
    <3>1. Scans(text, <<"%d", ":", "%d">>)  BY <1>7, ScansClock
    <3> QED  BY <3>1 DEF Scans
  <2>2. text[1][2] \in Int /\ text[3][2] \in Int  BY <1>2, <1>3, <2>1
  <2>3. clock = text[1][2] * 60 + text[3][2]  BY <1>7, <2>2, ClockIs
  <2>4. ParseDuration(text) = Rounded(Wrap(text[1][2] * 60 + text[3][2]), text, 2)
    BY <1>7, ScansClock DEF ParseDuration, Value
  <2> HIDE DEF clock
  <2>5. clock \in Int  BY <2>2, <2>3
  <2>6. ParseDuration(text) = Rounded(Wrap(clock), text, 2)  BY <2>3, <2>4
  <2> QED  BY <1>6, <1>7, <2>5, <2>6
<1>8. CASE parts = 3
  <2>1. Len(text) >= 5
    <3>1. Scans(text, <<"%d", ":", "%d", ":", "%d">>)  BY <1>8, ScansClock
    <3> QED  BY <3>1 DEF Scans
  <2>2. text[1][2] \in Int /\ text[3][2] \in Int /\ text[5][2] \in Int  BY <1>2, <1>3, <2>1
  <2> DEFINE h == text[1][2]
             m == text[3][2]
             t == text[5][2]
  <2>0. clock = 60 * (60 * (60 * 0 + h) + m) + t  BY <1>8, ClockIs
  <2>3. clock = h * 3600 + m * 60 + t
    <3>1. h \in Int /\ m \in Int /\ t \in Int  BY <2>2
    <3> HIDE DEF h, m, t, clock
    <3> QED  BY <2>0, <3>1
  <2>4. ParseDuration(text)
          = Rounded(Wrap(text[1][2] * 3600 + text[3][2] * 60 + text[5][2]), text, 3)
    BY <1>8, ScansClock DEF ParseDuration, Value
  <2> HIDE DEF clock
  <2>5. clock \in Int  BY <2>2, <2>3
  <2>6. ParseDuration(text) = Rounded(Wrap(clock), text, 3)  BY <2>3, <2>4
  <2> QED  BY <1>6, <1>8, <2>5, <2>6
<1>9. parts \in 0 .. 3  BY ScansClock
<1> HIDE DEF parts
<1> QED  BY <1>4, <1>5, <1>7, <1>8, <1>9

LEMMA DurationType == ASSUME NEW text \in Seq(Token) PROVE ParseDuration(text) \in Ints
<1>1. \A n \in 1 .. Len(text) : text[n][2] \in Ints  BY TokenType
<1>2. Len(text) \in Nat /\ -1 \in Ints  BY IntAssumption DEF Ints
<1>3. \A n \in 1 .. Len(text) : text[n][2] \in Int  BY <1>1, IntAssumption DEF Ints
<1>4. \A seconds \in Ints, n \in 2 .. 3 : Rounded(seconds, text, n) \in Ints
  <2> SUFFICES ASSUME NEW seconds \in Ints, NEW n \in 2 .. 3, Rounded(seconds, text, n) # seconds
               PROVE  1 \in Ints /\ Rounded(seconds, text, n) = 1
    BY Zenon
  <2>1. Rounded(seconds, text, n) = 1 /\ Len(text) > 2 * n /\ Value(text, n + 1) > 0
    BY ScansFraction DEF Rounded
  <2>2. Value(text, n + 1) \in Ints
    <3>1. 2 * (n + 1) - 1 \in 1 .. Len(text)  BY <1>2, <2>1
    <3> QED  BY <1>1, <3>1 DEF Value
  <2>3. 1 \in Ints  BY <2>1, <2>2, IntAssumption DEF Ints
  <2> QED  BY <2>1, <2>3
<1>5. CASE Scans(text, <<"%d", ":", "%d", ":", "%d">>)
  <2>1. Len(text) >= 5  BY <1>5 DEF Scans
  <2>2. text[1][2] \in Int /\ text[3][2] \in Int /\ text[5][2] \in Int  BY <1>2, <1>3, <2>1
  <2>3. ParseDuration(text) =
          Rounded(Wrap(text[1][2] * 3600 + text[3][2] * 60 + text[5][2]), text, 3)
    BY <1>5 DEF ParseDuration, Value
  <2>4. text[1][2] * 3600 + text[3][2] * 60 + text[5][2] \in Int
    <3> DEFINE a == text[1][2]
               b == text[3][2]
               c == text[5][2]
    <3>1. a \in Int /\ b \in Int /\ c \in Int  BY <2>2
    <3> HIDE DEF a, b, c
    <3>2. a * 3600 + b * 60 + c \in Int  BY <3>1
    <3> QED  BY <3>2 DEF a, b, c
  <2>5. Wrap(text[1][2] * 3600 + text[3][2] * 60 + text[5][2]) \in Ints  BY <2>4, WrapType
  <2> QED  BY <1>4, <2>3, <2>5
<1>6. CASE /\ ~Scans(text, <<"%d", ":", "%d", ":", "%d">>)
           /\ Scans(text, <<"%d", ":", "%d">>)
  <2>1. Len(text) >= 3  BY <1>6 DEF Scans
  <2>2. text[1][2] \in Int /\ text[3][2] \in Int  BY <1>2, <1>3, <2>1
  <2>3. ParseDuration(text) = Rounded(Wrap(text[1][2] * 60 + text[3][2]), text, 2)
    BY <1>6 DEF ParseDuration, Value
  <2>4. Wrap(text[1][2] * 60 + text[3][2]) \in Ints  BY <2>2, WrapType
  <2> QED  BY <1>4, <2>3, <2>4
<1>7. CASE /\ ~Scans(text, <<"%d", ":", "%d", ":", "%d">>)
           /\ ~Scans(text, <<"%d", ":", "%d">>)
  <2>1. CASE Scans(text, <<"%d", ".", "%d">>) \/ Scans(text, <<"%d", "m", "%d">>)
    <3>1. Len(text) >= 3  BY <2>1 DEF Scans
    <3>2. text[1][2] \in Int /\ text[3][2] \in Int  BY <1>2, <1>3, <3>1
    <3>3. ParseDuration(text) = Wrap(text[1][2] * 60 + text[3][2])
      BY <1>7, <2>1 DEF ParseDuration, Value
    <3> QED  BY <3>2, <3>3, WrapType
  <2>2. CASE ~(Scans(text, <<"%d", ".", "%d">>) \/ Scans(text, <<"%d", "m", "%d">>))
    <3>1. ParseDuration(text) = IF Scans(text, <<"%d">>) THEN text[1][2] ELSE -1
      BY <1>7, <2>2 DEF ParseDuration, Value
    <3>2. Scans(text, <<"%d">>) => Len(text) >= 1  BY DEF Scans
    <3> QED  BY <1>1, <1>2, <3>1, <3>2
  <2> QED  BY <2>1, <2>2
<1> QED  BY <1>5, <1>6, <1>7

(***************************************************************************)
(* The hash table.                                                         *)
(***************************************************************************)
\* Every line that was loaded has its key in the table, every key has the last of
\* its lines, and what is counted are the lines of the two counted kinds.
Counted(n) == {l \in 1 .. n : lines[l].key \in {"file", "named"}}

Key(l) == <<lines[l].key, lines[l].num>>

Table ==
  /\ \A k \in DOMAIN entries : entries[k] \in 1 .. at - 1 /\ k = Key(entries[k])
  /\ \A l \in 1 .. at - 1 : Key(l) \in DOMAIN entries /\ l <= entries[Key(l)]
  /\ num_entries = Cardinality(Counted(at - 1))

\* The phases, and what is the case before and after them.
Phases ==
  /\ pc = "load" => i = 0 /\ found = 0 /\ reported = <<>>
  /\ pc # "load" => at = Len(lines) + 1
  /\ pc = "done" => found = num_entries

LEMMA LineType ==
  ASSUME NEW l \in Line
  PROVE  /\ l.key \in {"file", "title", "length", "named", "other"}
         /\ l.num \in 0 .. UINT_MAX
         /\ l.key = "length" => l.value \in Seq(Token)
         /\ l.key # "length" => l.value = <<>>
<1>1. CASE l \in [key : {"file", "title"}, num : Numbers, value : {<<>>}]
  BY <1>1, NumberAssumption
<1>2. CASE l \in [key : {"length"}, num : Numbers, value : Lengths]
  BY <1>2, NumberAssumption, LengthAssumption
<1>3. CASE l \in [key : {"named", "other"}, num : {0}, value : {<<>>}]
  BY <1>3, UintAssumption
<1> QED  BY <1>1, <1>2, <1>3 DEF Line

LEMMA CountedFinite ==
  ASSUME NEW n \in Nat
  PROVE  IsFiniteSet(Counted(n)) /\ Cardinality(Counted(n)) \in 0 .. n
<1>1. Counted(n) \in SUBSET (1 .. n)  BY DEF Counted
<1>2. IsFiniteSet(1 .. n) /\ Cardinality(1 .. n) = n  BY FS_Interval
<1>3. IsFiniteSet(Counted(n)) /\ Cardinality(Counted(n)) <= n  BY <1>1, <1>2, FS_Subset
<1>4. Cardinality(Counted(n)) \in Nat  BY <1>3, FS_CardinalityType
<1> QED  BY <1>3, <1>4

LEMMA CountedNext ==
  ASSUME NEW n \in Nat
  PROVE  Cardinality(Counted(n + 1))
           = Cardinality(Counted(n)) + (IF lines[n + 1].key \in {"file", "named"} THEN 1 ELSE 0)
<1>1. IsFiniteSet(Counted(n)) /\ Cardinality(Counted(n)) \in Nat  BY CountedFinite
<1>2. n + 1 \notin Counted(n)  BY DEF Counted
<1>3. CASE lines[n + 1].key \in {"file", "named"}
  <2>1. Counted(n + 1) = Counted(n) \cup {n + 1}  BY <1>3 DEF Counted
  <2> QED  BY <1>1, <1>2, <1>3, <2>1, FS_AddElement
<1>4. CASE lines[n + 1].key \notin {"file", "named"}
  <2>1. Counted(n + 1) = Counted(n)  BY <1>4 DEF Counted
  <2> QED  BY <1>1, <1>4, <2>1
<1> QED  BY <1>3, <1>4

\* What the lines say of a key is what the table says when they are loaded.
LEMMA LookupIsLastLine ==
  ASSUME TypeOK, Table, Phases, pc # "load"
  PROVE  \A key, n : Lookup(key, n) = LastLine(key, n)
<1> SUFFICES ASSUME NEW key, NEW n PROVE Lookup(key, n) = LastLine(key, n)
  OBVIOUS
<1> DEFINE those == {l \in DOMAIN lines : lines[l].key = key /\ lines[l].num = n}
           Last(l) == \A m \in those : m <= l
<1>1. LastLine(key, n) = IF those = {} THEN Absent ELSE CHOOSE l \in those : Last(l)
  BY DEF LastLine
<1>2. DOMAIN lines = 1 .. at - 1  BY DEF TypeOK, Phases
<1>3. \A l \in those : <<key, n>> \in DOMAIN entries /\ l <= entries[<<key, n>>]
  BY <1>2 DEF Table, Key
<1>4. CASE <<key, n>> \in DOMAIN entries
  <2> DEFINE e == entries[<<key, n>>]
  <2>1. Lookup(key, n) = e  BY <1>4 DEF Lookup
  <2>2. e \in 1 .. at - 1 /\ <<key, n>> = Key(e)  BY <1>4 DEF Table
  <2>3. lines[e].key = key /\ lines[e].num = n  BY <2>2 DEF Key
  <2>4. e \in those /\ those \subseteq Int  BY <1>2, <2>2, <2>3
  <2>5. Last(e)  BY <1>3
  <2> HIDE DEF e, those
  <2>6. \A l \in those : Last(l) => l = e  BY <2>4, <2>5
  <2>7. (CHOOSE l \in those : Last(l)) = e
    <3> HIDE DEF Last
    <3> QED  BY <2>4, <2>5, <2>6
  <2> QED  BY <1>1, <2>1, <2>4, <2>7
<1>5. CASE <<key, n>> \notin DOMAIN entries
  <2>1. those = {}  BY <1>3, <1>5
  <2>2. Lookup(key, n) = Absent  BY <1>5 DEF Lookup
  <2> QED  BY <1>1, <2>1, <2>2
<1> QED  BY <1>4, <1>5

LEMMA LookupType ==
  ASSUME TypeOK, Table, NEW key, NEW n
  PROVE  /\ Lookup(key, n) \in Nat
         /\ Lookup(key, n) # Absent => /\ Lookup(key, n) \in DOMAIN lines
                                       /\ lines[Lookup(key, n)].key = key
BY DEF TypeOK, Table, Lookup, Absent, Key

LEMMA LengthType ==
  ASSUME TypeOK, Table, NEW n
  PROVE  LengthNum(n) \in Ints
<1>1. CASE Lookup("length", n) = Absent
  <2>1. LengthNum(n) = 0  BY <1>1 DEF LengthNum
  <2> QED  BY <2>1, IntAssumption DEF Ints
<1>2. CASE Lookup("length", n) # Absent
  <2> DEFINE l == Lookup("length", n)
  <2>1. l \in DOMAIN lines /\ lines[l].key = "length"  BY <1>2, LookupType
  <2>2. lines[l] \in Line  BY <2>1 DEF TypeOK
  <2>3. lines[l].value \in Seq(Token)  BY <2>1, <2>2, LineType
  <2>4. LengthNum(n) = ParseDuration(lines[l].value)  BY <1>2 DEF LengthNum
  <2> QED  BY <2>3, <2>4, DurationType
<1> QED  BY <1>1, <1>2

(***************************************************************************)
(* Types and the table, step by step.                                      *)
(***************************************************************************)
Loading == TypeOK /\ Table /\ Phases

LEMMA InitLoading == Init => Loading
<1> SUFFICES ASSUME Init PROVE Loading
  OBVIOUS
<1>1. lines \in Seq(Line)  BY ContentsAssumption DEF Init
<1>2. Len(lines) \in Nat  BY <1>1
<1>3. DOMAIN entries = {}  BY DEF Init
<1>4. TypeOK
  <2>1. reported \in Seq(EntryType) /\ Len(reported) = 0  BY DEF Init
  <2> QED  BY <1>1, <1>2, <1>3, <2>1, UintAssumption DEF Init, TypeOK
<1>5. Table
  <2>1. Counted(at - 1) = {}  BY DEF Init, Counted
  <2>2. Cardinality({}) = 0  BY FS_EmptySet
  <2>3. at = 1 /\ num_entries = 0  BY DEF Init
  <2> QED  BY <1>3, <2>1, <2>2, <2>3 DEF Table
<1>6. Phases  BY DEF Init, Phases
<1> QED  BY <1>4, <1>5, <1>6 DEF Loading

LEMMA LoadLoading == Loading /\ Load => Loading'
<1> SUFFICES ASSUME Loading, Load PROVE Loading'
  OBVIOUS
<1> DEFINE l == lines[at]
           e == Insert(l.key, l.num, at)
<1>1. /\ pc = "load" /\ at \in 1 .. Len(lines) /\ at' = at + 1
      /\ entries' = e
      /\ num_entries' = num_entries + (IF l.key \in {"file", "named"} THEN 1 ELSE 0)
      /\ UNCHANGED <<lines, pc, i, found, reported>>
  BY DEF Load, Loading, TypeOK
<1>2. l \in Line  BY <1>1 DEF Loading, TypeOK
<1>3. /\ DOMAIN e = DOMAIN entries \cup {Key(at)}
      /\ e[Key(at)] = at
      /\ \A k \in DOMAIN entries : e[k] = IF k = Key(at) THEN at ELSE entries[k]
  BY DEF Insert, Key
<1>4. Key(at) \in Keys
  BY <1>2, LineType DEF Key, Keys
<1>5. Len(lines) \in Nat /\ num_entries \in 0 .. at - 1
  <2>1. num_entries = Cardinality(Counted(at - 1))  BY DEF Loading, Table
  <2>2. at - 1 \in Nat  BY <1>1
  <2> QED  BY <2>1, <2>2, CountedFinite DEF Loading, TypeOK
<1> HIDE DEF e
<1>6. TypeOK'
  <2>1. DOMAIN entries' \subseteq Keys  BY <1>1, <1>3, <1>4 DEF Loading, TypeOK
  <2>2. \A k \in DOMAIN entries' : entries'[k] \in DOMAIN lines
    BY <1>1, <1>3 DEF Loading, TypeOK
  <2>3. at' \in 1 .. Len(lines) + 1 /\ num_entries' \in 0 .. Len(lines) /\ num_entries <= num_entries'
    BY <1>1, <1>5
  <2>4. found <= num_entries'  BY <2>3 DEF Loading, TypeOK
  <2> QED  BY <1>1, <2>1, <2>2, <2>3, <2>4 DEF Loading, TypeOK
<1>7. Table'
  <2>1. /\ \A k \in DOMAIN entries : entries[k] \in 1 .. at - 1 /\ k = Key(entries[k])
        /\ \A m \in 1 .. at - 1 : Key(m) \in DOMAIN entries /\ m <= entries[Key(m)]
    BY DEF Loading, Table
  <2>2. \A m : Key(m)' = Key(m)  BY <1>1 DEF Key
  <2>3. \A k \in DOMAIN e : e[k] \in 1 .. at /\ k = Key(e[k])
    BY <1>1, <1>3, <2>1
  <2>4. \A m \in 1 .. at : Key(m) \in DOMAIN e /\ m <= e[Key(m)]
    <3> TAKE m \in 1 .. at
    <3>1. CASE m = at  BY <1>3, <3>1
    <3>2. CASE m # at
      <4>1. m \in 1 .. at - 1  BY <1>1, <3>2
      <4>2. Key(m) \in DOMAIN entries /\ m <= entries[Key(m)]  BY <2>1, <4>1
      <4> QED  BY <1>1, <1>3, <3>2, <4>1, <4>2
    <3> QED  BY <3>1, <3>2
  <2>5. num_entries' = Cardinality(Counted(at))
    <3>1. at - 1 \in Nat /\ (at - 1) + 1 = at  BY <1>1
    <3>2. Cardinality(Counted((at - 1) + 1))
            = Cardinality(Counted(at - 1)) + (IF lines[(at - 1) + 1].key \in {"file", "named"} THEN 1 ELSE 0)
      BY <3>1, CountedNext
    <3> QED  BY <1>1, <3>1, <3>2 DEF Loading, Table
  <2>6. at' - 1 = at  BY <1>1
  <2>7. (Counted(at - 1))' = Counted(at)  BY <1>1, <2>6 DEF Counted
  <2> QED  BY <1>1, <2>2, <2>3, <2>4, <2>5, <2>6, <2>7 DEF Table
<1>8. Phases'  BY <1>1 DEF Loading, Phases
<1> QED  BY <1>6, <1>7, <1>8 DEF Loading

\* Behind the loading, the lines and the table stay what they are.
Kept == UNCHANGED <<lines, at, num_entries, entries>>

LEMMA KeptTable == Kept => (Table' <=> Table) /\ \A key, n : Lookup(key, n)' = Lookup(key, n)
BY DEF Kept, Table, Counted, Key, Lookup

LEMMA FindType ==
  ASSUME Loading, Find
  PROVE  /\ i' = IF i = UINT_MAX THEN 0 ELSE i + 1
         /\ Lookup("file", i) # Absent =>
              /\ Entry(i) \in EntryType
              /\ reported' = Append(reported, Entry(i)) /\ found' = found + 1
         /\ Lookup("file", i) = Absent => UNCHANGED <<found, reported>>
<1>1. i' = IF i = UINT_MAX THEN 0 ELSE i + 1
  <2>1. i \in 0 .. UINT_MAX /\ i' = (i + 1) % (UINT_MAX + 1)  BY DEF Find, Loading, TypeOK
  <2>2. i = UINT_MAX => (i + 1) % (UINT_MAX + 1) = 0  BY UintAssumption
  <2>3. i # UINT_MAX => (i + 1) % (UINT_MAX + 1) = i + 1  BY <2>1, UintAssumption
  <2> QED  BY <2>1, <2>2, <2>3
<1>2. ASSUME Lookup("file", i) # Absent
      PROVE  /\ Entry(i) \in EntryType
             /\ reported' = Append(reported, Entry(i)) /\ found' = found + 1
  <2>1. Lookup("file", i) \in Nat /\ Lookup("title", i) \in Nat  BY LookupType DEF Loading
  <2>2. LengthNum(i) \in Ints  BY LengthType DEF Loading
  <2>3. i \in 0 .. UINT_MAX  BY DEF Loading, TypeOK
  <2>4. Entry(i) \in EntryType  BY <1>2, <2>1, <2>2, <2>3 DEF Entry, EntryType
  <2> QED  BY <1>2, <2>4 DEF Find
<1>3. Lookup("file", i) = Absent => UNCHANGED <<found, reported>>  BY DEF Find
<1> QED  BY <1>1, <1>2, <1>3

LEMMA FindLoading == Loading /\ Find => Loading'
<1> SUFFICES ASSUME Loading, Find PROVE Loading'
  OBVIOUS
<1>1. pc = "find" /\ found < num_entries /\ Kept /\ pc' = pc  BY DEF Find, Kept
<1>2. i' \in 0 .. UINT_MAX  BY FindType, UintAssumption DEF Loading, TypeOK
<1>3. /\ reported' \in Seq(EntryType) /\ found' = Len(reported') /\ found' <= num_entries
  <2>1. /\ reported \in Seq(EntryType) /\ found = Len(reported) /\ found \in Nat
        /\ num_entries \in Nat
    BY DEF Loading, TypeOK
  <2>2. CASE Lookup("file", i) # Absent
    <3>1. Entry(i) \in EntryType /\ reported' = Append(reported, Entry(i)) /\ found' = found + 1
      BY <2>2, FindType
    <3> QED  BY <1>1, <2>1, <3>1
  <2>3. CASE Lookup("file", i) = Absent  BY <1>1, <2>1, <2>3, FindType
  <2> QED  BY <2>2, <2>3
<1>4. TypeOK'  BY <1>1, <1>2, <1>3 DEF Loading, TypeOK, Kept
<1>5. Table'  BY <1>1, KeptTable DEF Loading
<1>6. Phases'  BY <1>1 DEF Loading, Phases, Kept
<1> QED  BY <1>4, <1>5, <1>6 DEF Loading

LEMMA NextLoading == Loading /\ [Next]_vars => Loading'
<1> SUFFICES ASSUME Loading, [Next]_vars PROVE Loading'
  OBVIOUS
<1>1. CASE Load  BY <1>1, LoadLoading
<1>2. CASE Loaded
  <2>1. Kept  BY <1>2 DEF Loaded, Kept
  <2>2. TypeOK'  BY <1>2, UintAssumption DEF Loaded, Loading, TypeOK
  <2>3. Table'  BY <2>1, KeptTable DEF Loading
  <2>4. at = Len(lines) + 1  BY <1>2 DEF Loaded, Loading, TypeOK
  <2>5. Phases'  BY <1>2, <2>4 DEF Loaded, Loading, Phases
  <2> QED  BY <2>2, <2>3, <2>5 DEF Loading
<1>3. CASE Find  BY <1>3, FindLoading
<1>4. CASE Finished
  <2>1. Kept  BY <1>4 DEF Finished, Kept
  <2>2. TypeOK'  BY <1>4 DEF Finished, Loading, TypeOK
  <2>3. Table'  BY <2>1, KeptTable DEF Loading
  <2>4. Phases'  BY <1>4 DEF Finished, Loading, Phases
  <2> QED  BY <2>2, <2>3, <2>4 DEF Loading
<1>5. CASE UNCHANGED vars
  <2>1. Kept  BY <1>5 DEF vars, Kept
  <2>2. TypeOK'  BY <1>5 DEF vars, Loading, TypeOK
  <2>3. Table'  BY <2>1, KeptTable DEF Loading
  <2>4. Phases'  BY <1>5 DEF vars, Loading, Phases
  <2> QED  BY <2>2, <2>3, <2>4 DEF Loading
<1>6. CASE Terminated  BY <1>5, <1>6 DEF Terminated
<1> QED  BY <1>1, <1>2, <1>3, <1>4, <1>5, <1>6 DEF Next

\* Whatever the lines are, the counter, the table, the entries and their lengths stay
\* within their types, and no more is found than was counted.
THEOREM TypeCorrect == Spec => []TypeOK
<1>1. Loading => TypeOK  BY DEF Loading
<1> QED  BY <1>1, InitLoading, NextLoading, PTL DEF Spec

(***************************************************************************)
(* The order of the numbers.  The counter comes to each of them in turn,   *)
(* and what was found is a number of whole turns and what is earlier than  *)
(* the counter in this one.                                                *)
(***************************************************************************)
LEMMA SameNumbers ==
  ASSUME lines' = lines
  PROVE  FileNumbers' = FileNumbers /\ \A n : Earlier(n)' = Earlier(n)
<1>1. \A n : LastLine("file", n)' = LastLine("file", n)  BY DEF LastLine
<1>2. FileNumbers' = FileNumbers  BY <1>1 DEF FileNumbers
<1> QED  BY <1>2 DEF Earlier

LEMMA NumbersFinite ==
  /\ IsFiniteSet(FileNumbers) /\ Cardinality(FileNumbers) \in Nat
  /\ \A n : /\ IsFiniteSet(Earlier(n)) /\ Cardinality(Earlier(n)) \in Nat
            /\ Cardinality(Earlier(n)) <= Cardinality(FileNumbers)
<1>1. FileNumbers \in SUBSET (0 .. UINT_MAX)  BY DEF FileNumbers
<1>2. IsFiniteSet(0 .. UINT_MAX)  BY UintAssumption, FS_Interval
<1>3. IsFiniteSet(FileNumbers)  BY <1>1, <1>2, FS_Subset
<1>4. ASSUME NEW n PROVE /\ IsFiniteSet(Earlier(n))
                         /\ Cardinality(Earlier(n)) <= Cardinality(FileNumbers)
  <2>1. Earlier(n) \in SUBSET FileNumbers  BY DEF Earlier
  <2> QED  BY <1>3, <2>1, FS_Subset
<1> QED  BY <1>3, <1>4, FS_CardinalityType

LEMMA EarlierNext ==
  /\ Earlier(1) = {}
  /\ \A n \in 1 .. UINT_MAX :
       Earlier(IF n = UINT_MAX THEN 0 ELSE n + 1) = Earlier(n) \cup (FileNumbers \cap {n})
  /\ FileNumbers = Earlier(0) \cup (FileNumbers \cap {0})
  /\ \A n : n \notin Earlier(n)
<1>1. FileNumbers \subseteq 0 .. UINT_MAX  BY DEF FileNumbers
<1>2. Earlier(1) = {}
  <2>1. \A m \in FileNumbers : ~(Position(m) < Position(1))  BY <1>1, UintAssumption DEF Position
  <2> QED  BY <2>1 DEF Earlier
<1>3. \A n \in 1 .. UINT_MAX :
        Earlier(IF n = UINT_MAX THEN 0 ELSE n + 1) = Earlier(n) \cup (FileNumbers \cap {n})
  <2> SUFFICES ASSUME NEW n \in 1 .. UINT_MAX
               PROVE  Earlier(IF n = UINT_MAX THEN 0 ELSE n + 1) = Earlier(n) \cup (FileNumbers \cap {n})
    OBVIOUS
  <2>1. Position(IF n = UINT_MAX THEN 0 ELSE n + 1) = n + 1 /\ Position(n) = n
    BY UintAssumption DEF Position
  <2>2. \A m \in FileNumbers : Position(m) < n + 1 <=> Position(m) < n \/ m = n
    BY <1>1, UintAssumption DEF Position
  <2> QED  BY <2>1, <2>2 DEF Earlier
<1>4. FileNumbers = Earlier(0) \cup (FileNumbers \cap {0})
  <2>1. \A m \in FileNumbers : Position(m) < Position(0) <=> m # 0
    BY <1>1, UintAssumption DEF Position
  <2> QED  BY <2>1 DEF Earlier
<1>5. \A n : n \notin Earlier(n)
  <2> SUFFICES ASSUME NEW n, n \in Earlier(n) PROVE FALSE
    OBVIOUS
  <2>1. n \in 0 .. UINT_MAX /\ Position(n) < Position(n)  BY <1>1 DEF Earlier
  <2> QED  BY <2>1, UintAssumption DEF Position
<1> QED  BY <1>2, <1>3, <1>4, <1>5

\* After the counter, its number counts as earlier if it has a location.
LEMMA EarlierCount ==
  ASSUME NEW n \in 0 .. UINT_MAX, NEW q \in Nat
  PROVE  LET K    == Cardinality(FileNumbers)
             c    == Cardinality(Earlier(n))
             next == IF n = UINT_MAX THEN 0 ELSE n + 1
             one  == IF n \in FileNumbers THEN 1 ELSE 0
         IN  /\ n \in FileNumbers => c < K
             /\ \E r \in Nat : q * K + c + one = r * K + Cardinality(Earlier(next))
<1> DEFINE K    == Cardinality(FileNumbers)
           c    == Cardinality(Earlier(n))
           next == IF n = UINT_MAX THEN 0 ELSE n + 1
           one  == IF n \in FileNumbers THEN 1 ELSE 0
           more == Earlier(n) \cup (FileNumbers \cap {n})
<1>1. K \in Nat /\ c \in Nat /\ IsFiniteSet(Earlier(n)) /\ IsFiniteSet(FileNumbers)
  BY NumbersFinite
<1>2. Cardinality(more) = c + one
  <2>1. CASE n \in FileNumbers
    <3>1. more = Earlier(n) \cup {n}  BY <2>1
    <3>2. n \notin Earlier(n)  BY EarlierNext
    <3> QED  BY <1>1, <2>1, <3>1, <3>2, FS_AddElement
  <2>2. CASE n \notin FileNumbers
    <3>1. more = Earlier(n)  BY <2>2
    <3> QED  BY <1>1, <2>2, <3>1
  <2> QED  BY <2>1, <2>2
<1>3. Cardinality(more) <= K
  <2>1. more \in SUBSET FileNumbers  BY DEF Earlier
  <2> HIDE DEF more
  <2> QED  BY <1>1, <2>1, FS_Subset
<1>4. CASE n # 0
  <2>1. n \in 1 .. UINT_MAX  BY <1>4
  <2>2. Earlier(next) = more  BY <2>1, EarlierNext
  <2>3. Cardinality(Earlier(next)) = c + one  BY <1>2, <2>2
  <2>4. q * K + c + one = q * K + Cardinality(Earlier(next))
    <3>1. one \in Nat  OBVIOUS
    <3> HIDE DEF K, c, one, next
    <3>2. q * K \in Nat  BY <1>1
    <3> QED  BY <1>1, <2>3, <3>1, <3>2
  <2>5. n \in FileNumbers => c < K  BY <1>1, <1>2, <1>3
  <2> QED  BY <2>4, <2>5
<1>5. CASE n = 0
  <2>1. next = 1  BY <1>5, UintAssumption
  <2>2. Cardinality(Earlier(next)) = 0  BY <2>1, EarlierNext, FS_EmptySet
  <2>3. more = FileNumbers  BY <1>5, EarlierNext
  <2>4. c + one = K  BY <1>2, <2>3
  <2>5. q * K + c + one = (q + 1) * K + Cardinality(Earlier(next))
    <3>1. one \in Nat  OBVIOUS
    <3> HIDE DEF K, c, one, next
    <3>2. q * K \in Nat /\ (q + 1) * K = q * K + K  BY <1>1
    <3> QED  BY <1>1, <2>2, <2>4, <3>1, <3>2
  <2>6. n \in FileNumbers => c < K  BY <1>1, <1>2, <1>3
  <2>7. q + 1 \in Nat  OBVIOUS
  <2> QED  BY <2>5, <2>6, <2>7
<1> QED  BY <1>4, <1>5

\* The entries: each is what the table says of its number, and comes when as many
\* numbers of its turn came before as are earlier than its own.
Turn == pc # "load" => \E q \in Nat : found = q * Cardinality(FileNumbers) + Cardinality(Earlier(i))

InOrder ==
  \A n \in DOMAIN reported :
    LET num == reported[n].num
    IN  /\ reported[n] = Entry(num)
        /\ num \in FileNumbers
        /\ Cardinality(Earlier(num)) = (n - 1) % Cardinality(FileNumbers)

Walk == Loading /\ Turn /\ InOrder

LEMMA SameEntry ==
  ASSUME lines' = lines, entries' = entries
  PROVE  \A n : Entry(n)' = Entry(n)
BY DEF Entry, LengthNum, Lookup

LEMMA RemainderIs ==
  ASSUME NEW q \in Nat, NEW K \in Nat, NEW c \in Nat, c < K
  PROVE  (q * K + c) % K = c
OBVIOUS

LEMMA InOrderKept ==
  ASSUME InOrder, Kept, reported' = reported
  PROVE  InOrder'
BY SameNumbers, SameEntry DEF InOrder, Kept

LEMMA FindWalk == Walk /\ Find => Turn' /\ InOrder'
<1> SUFFICES ASSUME Walk, Find PROVE Turn' /\ InOrder'
  OBVIOUS
<1> DEFINE K == Cardinality(FileNumbers)
           c == Cardinality(Earlier(i))
           one == IF i \in FileNumbers THEN 1 ELSE 0
           next == IF i = UINT_MAX THEN 0 ELSE i + 1
<1>1. Loading /\ Kept /\ pc = "find" /\ pc' = "find"  BY DEF Walk, Find, Kept
<1>2. i \in 0 .. UINT_MAX /\ found \in Nat /\ reported \in Seq(EntryType) /\ found = Len(reported)
  BY <1>1 DEF Loading, TypeOK
<1>3. K \in Nat /\ c \in Nat  BY NumbersFinite
<1>4. PICK q \in Nat : found = q * K + c  BY <1>1 DEF Walk, Turn
<1>5. Lookup("file", i) # Absent <=> i \in FileNumbers
  BY <1>1, <1>2, LookupIsLastLine DEF FileNumbers, Loading
<1>6. FileNumbers' = FileNumbers /\ \A n : Earlier(n)' = Earlier(n)
  BY <1>1, SameNumbers DEF Kept
<1>7. i' = next  BY <1>1, FindType
<1>8. i \in FileNumbers => c < K  BY <1>2, EarlierCount
<1>9. PICK r \in Nat : q * K + c + one = r * K + Cardinality(Earlier(next))
  BY <1>2, EarlierCount
<1>10. found' = q * K + c + one
  <2>1. q * K \in Nat  BY <1>3
  <2>2. found' = found + one  BY <1>1, <1>2, <1>5, FindType
  <2> HIDE DEF K, c, one
  <2> QED  BY <1>4, <2>2
<1>11. Turn'
  <2>1. Earlier(i)' = Earlier(next)
    <3>1. Earlier(i)' = {m \in FileNumbers' : Position(m) < Position(i')}  BY DEF Earlier, Position
    <3> HIDE DEF next
    <3> QED  BY <1>6, <1>7, <3>1 DEF Earlier
  <2>2. found' = r * K + Cardinality(Earlier(next))  BY <1>9, <1>10, Zenon
  <2> HIDE DEF next
  <2> QED  BY <1>6, <2>1, <2>2 DEF Turn
<1>12. InOrder'
  <2>1. CASE Lookup("file", i) = Absent  BY <1>1, <2>1, FindType, InOrderKept DEF Walk
  <2>2. CASE Lookup("file", i) # Absent
    <3>1. reported' = Append(reported, Entry(i)) /\ Entry(i) \in EntryType
      BY <1>1, <2>2, FindType
    <3>2. Entry(i).num = i  BY DEF Entry
    <3>3. i \in FileNumbers /\ c < K  BY <1>5, <1>8, <2>2
    <3>4. (Len(reported') - 1) % K = c
      <4>1. Len(reported') = found + 1  BY <1>2, <3>1
      <4>2. Len(reported') - 1 = q * K + c  BY <1>2, <1>4, <4>1
      <4> HIDE DEF K, c
      <4> QED  BY <1>3, <3>3, <4>2, RemainderIs
    <3>5. \A m : Entry(m)' = Entry(m)  BY <1>1, SameEntry DEF Kept
    <3> SUFFICES ASSUME NEW n \in DOMAIN reported'
                 PROVE  /\ reported'[n] = Entry(reported'[n].num)
                        /\ reported'[n].num \in FileNumbers
                        /\ Cardinality(Earlier(reported'[n].num)) = (n - 1) % K
      BY <1>6, <3>5 DEF InOrder
    <3>6. CASE n = Len(reported')
      <4>1. reported'[n] = Entry(i)  BY <1>2, <3>1, <3>6
      <4> QED  BY <3>2, <3>3, <3>4, <3>6, <4>1
    <3>7. CASE n # Len(reported')
      <4>1. n \in DOMAIN reported /\ reported'[n] = reported[n]  BY <1>2, <3>1, <3>7
      <4> QED  BY <4>1 DEF Walk, InOrder
    <3> QED  BY <3>6, <3>7
  <2> QED  BY <2>1, <2>2
<1> QED  BY <1>11, <1>12

LEMMA WalkInvariant == Spec => []Walk
<1>1. Init => Walk
  <2> SUFFICES ASSUME Init PROVE Turn /\ InOrder
    BY InitLoading DEF Walk
  <2>1. pc = "load" /\ DOMAIN reported = {}  BY DEF Init
  <2> QED  BY <2>1 DEF Turn, InOrder
<1>2. Walk /\ [Next]_vars => Walk'
  <2> SUFFICES ASSUME Walk, [Next]_vars PROVE Turn' /\ InOrder'
    BY NextLoading DEF Walk
  <2>1. CASE Load
    <3>1. pc' = "load" /\ reported' = <<>>  BY <2>1 DEF Load, Walk, Loading, Phases
    <3>2. DOMAIN reported' = {}  BY <3>1
    <3> QED  BY <3>1, <3>2 DEF Turn, InOrder
  <2>2. CASE Loaded
    <3>1. Kept /\ reported' = reported /\ i' = 1 /\ found' = 0
      BY <2>2 DEF Loaded, Kept, Walk, Loading, Phases
    <3>2. InOrder'  BY <3>1, InOrderKept DEF Walk
    <3>3. FileNumbers' = FileNumbers /\ Earlier(i)' = {}
      <4>1. FileNumbers' = FileNumbers  BY <3>1, SameNumbers DEF Kept
      <4>2. Earlier(i)' = {m \in FileNumbers' : Position(m) < Position(1)}
        BY <3>1 DEF Earlier, Position
      <4> QED  BY <4>1, <4>2, EarlierNext DEF Earlier
    <3>4. Cardinality(Earlier(i))' = 0  BY <3>3, FS_EmptySet
    <3>5. found' = 0 * Cardinality(FileNumbers)' + Cardinality(Earlier(i))'
      BY <3>1, <3>3, <3>4, NumbersFinite
    <3> QED  BY <3>2, <3>5 DEF Turn
  <2>3. CASE Find  BY <2>3, FindWalk
  <2>4. ASSUME Kept, UNCHANGED <<i, found, reported>>, pc # "load" \/ pc' = pc
        PROVE  Turn' /\ InOrder'
    <3>1. InOrder'  BY <2>4, InOrderKept DEF Walk
    <3>2. FileNumbers' = FileNumbers /\ Earlier(i)' = Earlier(i)
      <4>1. FileNumbers' = FileNumbers  BY <2>4, SameNumbers DEF Kept
      <4> QED  BY <2>4, <4>1 DEF Earlier
    <3> QED  BY <2>4, <3>1, <3>2 DEF Walk, Turn
  <2>5. CASE Finished  BY <2>4, <2>5 DEF Finished, Kept
  <2>6. CASE UNCHANGED vars  BY <2>4, <2>6 DEF vars, Kept
  <2>7. CASE Terminated  BY <2>6, <2>7 DEF Terminated
  <2> QED  BY <2>1, <2>2, <2>3, <2>5, <2>6, <2>7 DEF Next
<1> QED  BY <1>1, <1>2, PTL DEF Spec

(***************************************************************************)
(* What was counted.  Every number with a location has a line of its own   *)
(* among those that were counted; there are no others if and only if the   *)
(* file counts no key too many.                                            *)
(***************************************************************************)
LocationOf == [n \in FileNumbers |-> LastLine("file", n)]

LEMMA LocationsCounted ==
  ASSUME Loading, pc # "load"
  PROVE  /\ LocationOf \in Injection(FileNumbers, Counted(Len(lines)))
         /\ \A n \in FileNumbers : /\ LocationOf[n] \in DOMAIN lines
                                   /\ lines[LocationOf[n]].key = "file"
                                   /\ lines[LocationOf[n]].num = n
         /\ \A l \in DOMAIN lines : lines[l].key = "file" =>
              /\ lines[l].num \in FileNumbers
              /\ l <= LocationOf[lines[l].num]
<1>1. \A key, n : Lookup(key, n) = LastLine(key, n)  BY LookupIsLastLine DEF Loading
<1>2. DOMAIN lines = 1 .. at - 1 /\ DOMAIN lines = 1 .. Len(lines)
  BY DEF Loading, TypeOK, Phases
<1>3. ASSUME NEW n \in FileNumbers
      PROVE  /\ LocationOf[n] \in DOMAIN lines
             /\ lines[LocationOf[n]].key = "file"
             /\ lines[LocationOf[n]].num = n
  <2>1. LocationOf[n] = Lookup("file", n) /\ Lookup("file", n) # Absent
    BY <1>1 DEF LocationOf, FileNumbers
  <2>2. <<"file", n>> \in DOMAIN entries /\ LocationOf[n] = entries[<<"file", n>>]
    BY <2>1 DEF Lookup
  <2> QED  BY <1>2, <2>2 DEF Loading, Table, Key
<1>4. ASSUME NEW l \in DOMAIN lines, lines[l].key = "file"
      PROVE  lines[l].num \in FileNumbers /\ l <= LocationOf[lines[l].num]
  <2>1. Key(l) \in DOMAIN entries /\ l <= entries[Key(l)] /\ Key(l) = <<"file", lines[l].num>>
    BY <1>2, <1>4 DEF Loading, Table, Key
  <2>2. LastLine("file", lines[l].num) = entries[Key(l)]  BY <1>1, <2>1 DEF Lookup
  <2>3. lines[l] \in Line  BY DEF Loading, TypeOK
  <2>4. lines[l].num \in 0 .. UINT_MAX  BY <2>3, LineType
  <2>5. entries[Key(l)] \in 1 .. at - 1  BY <2>1 DEF Loading, Table
  <2>6. lines[l].num \in FileNumbers  BY <2>2, <2>4, <2>5 DEF FileNumbers, Absent
  <2> QED  BY <2>1, <2>2, <2>6 DEF LocationOf
<1>5. LocationOf \in Injection(FileNumbers, Counted(Len(lines)))
  <2>1. DOMAIN LocationOf = FileNumbers /\ LocationOf = [n \in FileNumbers |-> LocationOf[n]]
    BY DEF LocationOf
  <2>2. \A n \in FileNumbers : LocationOf[n] \in Counted(Len(lines))
    BY <1>2, <1>3 DEF Counted
  <2>3. \A m, n \in FileNumbers : LocationOf[m] = LocationOf[n] => m = n  BY <1>3
  <2> QED  BY <2>1, <2>2, <2>3 DEF Injection, IsInjective
<1> QED  BY <1>3, <1>4, <1>5

LEMMA CountableIs ==
  ASSUME Loading, pc # "load"
  PROVE  /\ Cardinality(FileNumbers) <= num_entries
         /\ Countable <=> Cardinality(FileNumbers) = num_entries
<1> DEFINE C == Counted(Len(lines))
<1>1. num_entries = Cardinality(C) /\ IsFiniteSet(C)
  <2>1. at - 1 = Len(lines) /\ Len(lines) \in Nat  BY DEF Loading, TypeOK, Phases
  <2> QED  BY <2>1, CountedFinite DEF Loading, Table
<1>2. /\ Cardinality(FileNumbers) <= Cardinality(C)
      /\ Cardinality(FileNumbers) = Cardinality(C) <=> LocationOf \in Surjection(FileNumbers, C)
  <2> HIDE DEF C
  <2>1. LocationOf \in Injection(FileNumbers, C)  BY LocationsCounted DEF C
  <2> QED  BY <1>1, <2>1, FS_Injection
<1>3. LocationOf \in Surjection(FileNumbers, C)
        <=> \A l \in C : \E n \in FileNumbers : LocationOf[n] = l
  <2>1. LocationOf \in [FileNumbers -> C]  BY LocationsCounted DEF Injection
  <2> QED  BY <2>1 DEF Surjection
<1>4. C = {l \in DOMAIN lines : lines[l].key \in {"file", "named"}}
  BY DEF Counted, Loading, TypeOK
<1> HIDE DEF C
<1>5. ASSUME Countable, NEW l \in C PROVE \E n \in FileNumbers : LocationOf[n] = l
  <2>1. l \in DOMAIN lines /\ lines[l].key = "file"  BY <1>4, <1>5 DEF Countable
  <2> DEFINE n == lines[l].num
             m == LocationOf[n]
  <2>2. n \in FileNumbers  BY <2>1, LocationsCounted
  <2>3. m \in DOMAIN lines /\ lines[m].key = "file" /\ lines[m].num = n
    BY <2>2, LocationsCounted
  <2>4. lines[l] \in Line /\ lines[m] \in Line  BY <2>1, <2>3 DEF Loading, TypeOK
  <2>5. lines[l] = lines[m]
    <3> DEFINE R == [key : {"file", "title"}, num : Numbers, value : {<<>>}]
    <3>1. lines[l] \in R /\ lines[m] \in R  BY <2>1, <2>3, <2>4 DEF Line
    <3>2. lines[l].value = lines[m].value  BY <3>1
    <3> QED  BY <2>1, <2>3, <3>1, <3>2
  <2>6. l = m  BY <1>5, <2>1, <2>3, <2>5 DEF Countable
  <2> QED  BY <2>2, <2>6
<1>6. ASSUME \A l \in C : \E n \in FileNumbers : LocationOf[n] = l
      PROVE  Countable
  <2>1. \A l \in DOMAIN lines : lines[l].key # "named"
    <3> SUFFICES ASSUME NEW l \in DOMAIN lines, lines[l].key = "named" PROVE FALSE
      OBVIOUS
    <3>1. l \in C  BY <1>4
    <3>2. PICK n \in FileNumbers : LocationOf[n] = l  BY <1>6, <3>1
    <3>3. lines[l].key = "file"  BY <3>2, LocationsCounted
    <3> QED  BY <3>3
  <2>2. ASSUME NEW l \in DOMAIN lines, NEW m \in DOMAIN lines,
               lines[l].key = "file", lines[l] = lines[m]
        PROVE  l = m
    <3>1. l \in C /\ m \in C  BY <1>4, <2>2
    <3>2. PICK a \in FileNumbers : LocationOf[a] = l  BY <1>6, <3>1
    <3>3. PICK b \in FileNumbers : LocationOf[b] = m  BY <1>6, <3>1
    <3>4. lines[l].num = a /\ lines[m].num = b  BY <3>2, <3>3, LocationsCounted
    <3> QED  BY <2>2, <3>2, <3>3, <3>4
  <2> QED  BY <2>1, <2>2 DEF Countable
<1> QED  BY <1>1, <1>2, <1>3, <1>5, <1>6

\* No number is reported again if and only if the loop ends within the first turn.
LEMMA TwiceIs ==
  ASSUME Walk, pc = "done"
  PROVE  (\A m, n \in DOMAIN reported : reported[m].num = reported[n].num => m = n)
           <=> num_entries <= Cardinality(FileNumbers)
<1> DEFINE K == Cardinality(FileNumbers)
<1>1. reported \in Seq(EntryType) /\ DOMAIN reported = 1 .. num_entries /\ num_entries \in Nat
  BY DEF Walk, Loading, TypeOK, Phases
<1>2. K \in Nat /\ IsFiniteSet(FileNumbers)  BY NumbersFinite
<1>3. \A n \in 1 .. num_entries : /\ reported[n].num \in FileNumbers
                                  /\ Cardinality(Earlier(reported[n].num)) = (n - 1) % K
  BY <1>1 DEF Walk, InOrder
<1>4. ASSUME num_entries <= K, NEW m \in DOMAIN reported, NEW n \in DOMAIN reported,
             reported[m].num = reported[n].num
      PROVE  m = n
  <2>1. (m - 1) % K = (n - 1) % K  BY <1>1, <1>3, <1>4
  <2>2. m \in 1 .. K /\ n \in 1 .. K  BY <1>1, <1>2, <1>4
  <2> HIDE DEF K
  <2>3. \A l \in 1 .. K : (l - 1) % K = l - 1  BY <1>2
  <2>4. m - 1 = n - 1  BY <2>1, <2>2, <2>3
  <2> QED  BY <2>2, <2>4
<1>5. ASSUME \A m, n \in DOMAIN reported : reported[m].num = reported[n].num => m = n
      PROVE  num_entries <= K
  <2> DEFINE f == [n \in 1 .. num_entries |-> reported[n].num]
  <2>1. f \in Injection(1 .. num_entries, FileNumbers)
    BY <1>1, <1>3, <1>5 DEF Injection, IsInjective
  <2> HIDE DEF f
  <2>2. Cardinality(1 .. num_entries) <= K  BY <1>2, <2>1, FS_Injection
  <2>3. Cardinality(1 .. num_entries) = num_entries
    BY <1>1, FS_Interval
  <2> QED  BY <2>2, <2>3
<1> HIDE DEF K
<1> QED  BY <1>4, <1>5 DEF K

LEMMA WalkReports == Walk => EntriesReported
<1> SUFFICES ASSUME Walk, pc = "done" PROVE EntriesReported
  BY DEF EntriesReported
<1>1. Loading  BY DEF Walk
<1>2. \A key, n : Lookup(key, n) = LastLine(key, n)  BY <1>1, LookupIsLastLine DEF Loading
<1>3. Len(reported) = num_entries  BY <1>1 DEF Loading, TypeOK, Phases
<1>4. Cardinality(FileNumbers) <= num_entries
  BY <1>1, CountableIs
<1>5. Countable <=> \A m, n \in DOMAIN reported : reported[m].num = reported[n].num => m = n
  <2>1. Cardinality(FileNumbers) \in Nat /\ num_entries \in Nat
    BY <1>1, NumbersFinite DEF Loading, TypeOK
  <2> QED  BY <1>1, <1>4, <2>1, CountableIs, TwiceIs
<1>6. ASSUME NEW n, LengthOf(n) \in Ints PROVE LengthNum(n) = LengthOf(n)
  <2>1. CASE LastLine("length", n) = Absent  BY <1>2, <2>1 DEF LengthNum, LengthOf
  <2>2. CASE LastLine("length", n) # Absent
    <3> DEFINE l == LastLine("length", n)
    <3>1. l \in DOMAIN lines /\ lines[l].key = "length"
      BY <1>1, <1>2, <2>2, LookupType DEF Loading
    <3>2. lines[l] \in Line  BY <1>1, <3>1 DEF Loading, TypeOK
    <3>3. lines[l].value \in Seq(Token)  BY <3>1, <3>2, LineType
    <3>4. LengthOf(n) = Seconds(lines[l].value)  BY <2>2 DEF LengthOf
    <3>5. LengthNum(n) = ParseDuration(lines[l].value)  BY <1>2, <2>2 DEF LengthNum
    <3> QED  BY <1>6, <3>3, <3>4, <3>5, DurationIsSeconds
  <2> QED  BY <2>1, <2>2
<1>7. ASSUME NEW n \in DOMAIN reported
      PROVE  LET r == reported[n]
             IN  /\ r.num \in FileNumbers
                 /\ Cardinality(Earlier(r.num)) = (n - 1) % Cardinality(FileNumbers)
                 /\ r.file = LastLine("file", r.num) /\ r.title = LastLine("title", r.num)
                 /\ LengthOf(r.num) \in Ints =>
                      r.length = LengthOf(r.num) /\ (r.stream <=> LengthOf(r.num) < 0)
  <2> DEFINE r == reported[n]
  <2>1. /\ r = Entry(r.num) /\ r.num \in FileNumbers
        /\ Cardinality(Earlier(r.num)) = (n - 1) % Cardinality(FileNumbers)
    BY DEF Walk, InOrder
  <2>2. \A m : /\ Entry(m).file = Lookup("file", m) /\ Entry(m).title = Lookup("title", m)
               /\ Entry(m).length = LengthNum(m) /\ (Entry(m).stream <=> LengthNum(m) < 0)
    BY DEF Entry
  <2>3. /\ r.file = Lookup("file", r.num) /\ r.title = Lookup("title", r.num)
        /\ r.length = LengthNum(r.num) /\ (r.stream <=> LengthNum(r.num) < 0)
    <3> DEFINE m == r.num
    <3>1. r = Entry(m)  BY <2>1
    <3> HIDE DEF m
    <3>2. /\ r.file = Lookup("file", m) /\ r.title = Lookup("title", m)
          /\ r.length = LengthNum(m) /\ (r.stream <=> LengthNum(m) < 0)
      BY <2>2, <3>1, Zenon
    <3> QED  BY <3>2 DEF m
  <2> HIDE DEF r
  <2>4. LengthOf(r.num) \in Ints => LengthNum(r.num) = LengthOf(r.num)  BY <1>6
  <2>5. r.file = LastLine("file", r.num) /\ r.title = LastLine("title", r.num)
    BY <1>2, <2>3
  <2>6. LengthOf(r.num) \in Ints => r.length = LengthOf(r.num) /\ (r.stream <=> LengthOf(r.num) < 0)
    BY <2>3, <2>4, Zenon
  <2> QED  BY <2>1, <2>5, <2>6 DEF r
<1> QED  BY <1>3, <1>4, <1>5, <1>7 DEF EntriesReported

\* When the loop is over, every number that has a location was reported in order, with
\* what the file gave last, and the numbers came again if and only if a key too many
\* was counted.
THEOREM EntriesAreReported == Spec => []EntriesReported
BY WalkInvariant, WalkReports, PTL

\* The loop ends for no file in which only keys that merely begin with "file" were
\* counted: the half of EndsIfFindable that is no liveness.
LEMMA WalkFindable == Walk /\ pc = "done" => Findable
<1> SUFFICES ASSUME Walk, pc = "done", \A l \in DOMAIN lines : lines[l].key # "file"
             PROVE  \A l \in DOMAIN lines : lines[l].key # "named"
  BY DEF Findable
<1>1. /\ Loading /\ Len(lines) \in Nat /\ at - 1 = Len(lines) /\ DOMAIN lines = 1 .. Len(lines)
      /\ reported \in Seq(EntryType) /\ num_entries = Len(reported)
  BY DEF Walk, Loading, TypeOK, Phases
<1>2. \A n \in FileNumbers : FALSE  BY <1>1, LocationsCounted
<1>3. DOMAIN reported = {}  BY <1>2 DEF Walk, InOrder
<1>4. num_entries = 0  BY <1>1, <1>3
<1>5. Cardinality(Counted(Len(lines))) = 0  BY <1>1, <1>4 DEF Loading, Table
<1>6. Counted(Len(lines)) = {}  BY <1>1, <1>5, CountedFinite, FS_EmptySet
<1> QED  BY <1>1, <1>6 DEF Counted

THEOREM EndsOnlyIfFindable == Spec => [](pc = "done" => Findable)
BY WalkInvariant, WalkFindable, PTL
=============================================================================
