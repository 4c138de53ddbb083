---------------------------- MODULE PlSaveProofs ----------------------------
(***************************************************************************)
(* Proofs about PlSave, for any playlists, formats and failures: what a    *)
(* save that claims success has written, and how much of it.               *)
(***************************************************************************)
EXTENDS PlSave, FiniteSetTheorems, SequenceTheorems, WellFoundedInduction, TLAPS

-----------------------------------------------------------------------------
(***************************************************************************)
(* FlattenSeq joins one sequence after the other.  The function it defines *)
(* by recursion exists, and does not depend on what comes behind.          *)
(***************************************************************************)
LEMMA SetInduction ==
  ASSUME NEW S, 0 \in S, \A n \in Nat : n \in S => n + 1 \in S
  PROVE  Nat \subseteq S
<1> SUFFICES ASSUME ~(Nat \subseteq S) PROVE FALSE
  OBVIOUS
<1> DEFINE R == OpToRel(<, Nat)
           D == Nat \ S
<1>1. D \subseteq Nat /\ D # {}  OBVIOUS
<1>2. IsWellFoundedOn(R, Nat)  BY NatLessThanWellFounded, Zenon
<1>3. \A x, y \in Nat : <<x, y>> \in R <=> x < y  BY DEF OpToRel
<1> HIDE DEF R
<1>4. PICK d \in D : \A e \in D : ~(<<e, d>> \in R)
  <2> HIDE DEF D
  <2> QED  BY <1>1, <1>2, WFMin
<1>5. d \in Nat /\ d # 0 /\ d \notin S  OBVIOUS
<1>6. d - 1 \in Nat /\ d - 1 < d /\ (d - 1) + 1 = d  BY <1>5
<1>7. d - 1 \in S  BY <1>1, <1>3, <1>4, <1>5, <1>6
<1> QED  BY <1>5, <1>6, <1>7

IsFlat(f, S, n) == f = [i \in 1 .. n |-> IF i = 1 THEN S[i] ELSE f[i - 1] \o S[i]]

LEMMA FlatExists ==
  ASSUME NEW S, NEW N \in Nat
  PROVE  \E f : IsFlat(f, S, N)
<1> DEFINE D == {n \in Nat : \E f : IsFlat(f, S, n)}
<1>1. 0 \in D
  <2>1. IsFlat([i \in 1 .. 0 |-> {}], S, 0)  BY DEF IsFlat
  <2> QED  BY <2>1
<1>2. ASSUME NEW n \in Nat, n \in D PROVE n + 1 \in D
  <2>1. PICK f : IsFlat(f, S, n)  BY <1>2
  <2> DEFINE g == [i \in 1 .. n + 1 |-> IF i = n + 1
                     THEN IF i = 1 THEN S[i] ELSE f[n] \o S[i] ELSE f[i]]
  <2>2. \A i \in 1 .. n : f[i] = IF i = 1 THEN S[i] ELSE f[i - 1] \o S[i]
    BY <2>1 DEF IsFlat
  <2>3. \A i \in 1 .. n : g[i] = f[i]  OBVIOUS
  <2>4. \A i \in 1 .. n + 1 : g[i] = IF i = 1 THEN S[i] ELSE g[i - 1] \o S[i]
    <3> SUFFICES ASSUME NEW i \in 1 .. n + 1
                 PROVE  g[i] = IF i = 1 THEN S[i] ELSE g[i - 1] \o S[i]
      OBVIOUS
    <3>1. CASE i = n + 1
      <4>1. i # 1 => n \in 1 .. n /\ i - 1 = n  BY <3>1
      <4>2. g[i] = IF i = 1 THEN S[i] ELSE f[n] \o S[i]  BY <3>1
      <4> HIDE DEF g
      <4> QED  BY <2>3, <4>1, <4>2
    <3>2. CASE i # n + 1
      <4>1. i \in 1 .. n /\ (i # 1 => i - 1 \in 1 .. n)  BY <3>2
      <4> HIDE DEF g
      <4> QED  BY <2>2, <2>3, <4>1
    <3> QED  BY <3>1, <3>2
  <2>5. g = [i \in 1 .. n + 1 |-> g[i]]  OBVIOUS
  <2> HIDE DEF g
  <2>6. IsFlat(g, S, n + 1)  BY <2>4, <2>5 DEF IsFlat
  <2> QED  BY <2>6
<1> HIDE DEF D
<1>3. Nat \subseteq D  BY <1>1, <1>2, SetInduction
<1> QED  BY <1>3 DEF D

LEMMA FlatAgrees ==
  ASSUME NEW f, NEW g, NEW S, NEW U, NEW n \in Nat, NEW m \in Nat, n <= m,
         IsFlat(f, S, n), IsFlat(g, U, m), \A i \in 1 .. n : S[i] = U[i]
  PROVE  \A i \in 1 .. n : f[i] = g[i]
<1> DEFINE D == {i \in Nat : i \in 1 .. n => f[i] = g[i]}
<1>1. /\ \A i \in 1 .. n : f[i] = IF i = 1 THEN S[i] ELSE f[i - 1] \o S[i]
      /\ \A i \in 1 .. m : g[i] = IF i = 1 THEN U[i] ELSE g[i - 1] \o U[i]
  BY DEF IsFlat
<1>2. 0 \in D  OBVIOUS
<1>3. ASSUME NEW i \in Nat, i \in D PROVE i + 1 \in D
  <2> SUFFICES ASSUME i + 1 \in 1 .. n PROVE f[i + 1] = g[i + 1]
    OBVIOUS
  <2>1. i + 1 \in 1 .. m /\ (i + 1) - 1 = i /\ (i + 1 # 1 => i \in 1 .. n)
    OBVIOUS
  <2>2. i + 1 # 1 => f[i] = g[i]  BY <1>3, <2>1
  <2>3. f[i + 1] = IF i + 1 = 1 THEN S[i + 1] ELSE f[i] \o S[i + 1]
    BY <1>1, <2>1
  <2>4. g[i + 1] = IF i + 1 = 1 THEN U[i + 1] ELSE g[i] \o U[i + 1]
    BY <1>1, <2>1
  <2> QED  BY <2>2, <2>3, <2>4
<1> HIDE DEF D
<1>4. Nat \subseteq D  BY <1>2, <1>3, SetInduction
<1> QED  BY <1>4 DEF D

LEMMA FlattenIs ==
  ASSUME NEW S, Len(S) \in Nat, Len(S) # 0
  PROVE  \E f : IsFlat(f, S, Len(S)) /\ FlattenSeq(S) = f[Len(S)]
<1> DEFINE h == CHOOSE f : IsFlat(f, S, Len(S))
<1>1. IsFlat(h, S, Len(S))  BY FlatExists
<1>2. FlattenSeq(S) = h[Len(S)]  BY DEF FlattenSeq, IsFlat
<1> QED  BY <1>1, <1>2

\* One more sequence is joined at the end.
LEMMA FlattenAppend ==
  ASSUME NEW T, NEW S \in Seq(Seq(T)), NEW x \in Seq(T)
  PROVE  FlattenSeq(Append(S, x)) = FlattenSeq(S) \o x
<1> DEFINE n == Len(S)
           U == Append(S, x)
<1>1. /\ n \in Nat /\ Len(U) = n + 1 /\ U[n + 1] = x
      /\ \A i \in 1 .. n : S[i] = U[i]
  OBVIOUS
<1> HIDE DEF U
<1>2. PICK g : IsFlat(g, U, n + 1) /\ FlattenSeq(U) = g[n + 1]
  BY <1>1, FlattenIs
<1>3. g[n + 1] = IF n = 0 THEN x ELSE g[n] \o x
  <2>1. n + 1 \in 1 .. n + 1 /\ (n + 1) - 1 = n /\ (n + 1 = 1 <=> n = 0)
    BY <1>1
  <2> QED  BY <1>1, <1>2, <2>1 DEF IsFlat
<1>4. CASE n = 0
  <2>1. FlattenSeq(S) = <<>>  BY <1>4 DEF FlattenSeq
  <2>2. <<>> \o x = x  OBVIOUS
  <2> QED  BY <1>2, <1>3, <1>4, <2>1, <2>2 DEF U
<1>5. CASE n # 0
  <2>1. PICK f : IsFlat(f, S, n) /\ FlattenSeq(S) = f[n]  BY <1>1, <1>5, FlattenIs
  <2>2. n <= n + 1 /\ n \in 1 .. n /\ n + 1 \in Nat  BY <1>1, <1>5
  <2>3. f[n] = g[n]
    <3>1. \A i \in 1 .. n : S[i] = U[i]  BY <1>1
    <3>2. IsFlat(f, S, n) /\ IsFlat(g, U, n + 1) /\ n \in Nat  BY <1>1, <1>2, <2>1
    <3> HIDE DEF n
    <3>3. \A i \in 1 .. n : f[i] = g[i]  BY <2>2, <3>1, <3>2, FlatAgrees
    <3> QED  BY <2>2, <3>3
  <2> QED  BY <1>2, <1>3, <1>5, <2>1, <2>3 DEF U
<1> QED  BY <1>4, <1>5

LEMMA FlattenTyped ==
  ASSUME NEW T, NEW S \in Seq(Seq(T))
  PROVE  FlattenSeq(S) \in Seq(T)
<1> DEFINE n == Len(S)
<1>1. n \in Nat  OBVIOUS
<1>2. CASE n = 0
  <2>1. FlattenSeq(S) = <<>>  BY <1>2 DEF FlattenSeq
  <2> QED  BY <2>1
<1>3. CASE n # 0
  <2>1. PICK f : IsFlat(f, S, n) /\ FlattenSeq(S) = f[n]  BY <1>1, <1>3, FlattenIs
  <2>2. \A i \in 1 .. n : f[i] = IF i = 1 THEN S[i] ELSE f[i - 1] \o S[i]
    BY <2>1 DEF IsFlat
  <2> DEFINE D == {i \in Nat : i \in 1 .. n => f[i] \in Seq(T)}
  <2>3. 0 \in D  OBVIOUS
  <2>4. ASSUME NEW i \in Nat, i \in D PROVE i + 1 \in D
    <3> SUFFICES ASSUME i + 1 \in 1 .. n PROVE f[i + 1] \in Seq(T)
      OBVIOUS
    <3>1. S[i + 1] \in Seq(T) /\ (i + 1) - 1 = i /\ (i + 1 # 1 => i \in 1 .. n)
      OBVIOUS
    <3>2. i + 1 # 1 => f[i] \in Seq(T)  BY <2>4, <3>1
    <3>3. f[i + 1] = IF i + 1 = 1 THEN S[i + 1] ELSE f[i] \o S[i + 1]
      BY <2>2, <3>1
    <3> QED  BY <3>1, <3>2, <3>3
  <2> HIDE DEF D
  <2>5. Nat \subseteq D  BY <2>3, <2>4, SetInduction
  <2>6. n \in 1 .. n  BY <1>1, <1>3
  <2> QED  BY <1>1, <2>1, <2>5, <2>6 DEF D
<1> QED  BY <1>2, <1>3

-----------------------------------------------------------------------------
(***************************************************************************)
(* What is inductive.                                                      *)
(***************************************************************************)
Body  == FlattenSeq([n \in DOMAIN kept |->
                       EntryLines(format, playlist[kept[n]], kept[n], n)])
Begun == HeadLines(format, titled, count) \o Body

\* The saver has not reached, has reached or got through its loop.
Before == pc \in {"call", "count", "open"}
Within == pc \in {"write", "foot"} \/ result = "TRUE"

\* The stream has taken what was to be written, but for the lines in todo.
Streamed ==
  /\ Before => out = <<>> /\ todo = <<>> /\ kept = <<>> /\ refs = 0
  /\ pc # "done" => dest = Old /\ result = "none"
  /\ pc \in {"call", "open"} => pos = 1
  /\ num = Len(kept) /\ num < pos
  /\ pc = "write" => out \o todo = Begun
  /\ pc = "foot" => out \o todo = Begun \o FootLines(format)
  /\ pc = "done" => /\ todo = <<>> /\ dest \in {Old, out}
                    /\ IsPrefix(out, Begun \o FootLines(format))
  /\ result = "TRUE" => out = Begun \o FootLines(format)
  /\ pc = "foot" \/ result = "TRUE" => pos = Len(playlist) + 1

\* The stream is held once, and only formats whose savers drop it twice write
\* lines that do.
Singles == {"pls", "m3u", "m3u dos"}
Light   == {l \in Line : l.kind \notin {"record", "end"}}

Held ==
  /\ pc \in {"write", "foot"} => refs = 1
  /\ pc = "done" => refs <= 0
  /\ format \in Singles => todo \in Seq(Light) /\ (pc = "done" => refs = 0)

\* What save_pls writes, as the ignore list is now.
Wanted(i)  == playlist[i].uri # Unset /\ ~IsIgnored(playlist[i])
Ahead(p)   == {i \in p .. Len(playlist) : Wanted(i)}
Behind(p)  == {i \in 1 .. p - 1 : Wanted(i)}

\* The number announced is no smaller than what is kept and still to come, and
\* no larger unless a scheme was ignored in the meantime.
Bounds(n)  == count >= n /\ (ignored = atStart => count = n)

Counted ==
  /\ pc = "call" => count = 0
  /\ pc = "count" =>
       /\ format = "pls"
       /\ Bounds(Len(playlist) + 1 - pos + Cardinality(Behind(pos)))
  /\ (format = "pls" /\ (pc = "open" \/ Within))
       => Bounds(Len(kept) + Cardinality(Ahead(pos)))

\* The elements behind iter were kept, unless there was a reason to skip them.
IsKept(i) == \E n \in DOMAIN kept : kept[n] = i

Kept ==
  /\ \A m, n \in DOMAIN kept : m < n => kept[m] < kept[n]
  /\ \A n \in DOMAIN kept : kept[n] \in 1 .. pos - 1
  /\ Within => \A i \in 1 .. pos - 1 :
       IF playlist[i].uri = Unset THEN ~IsKept(i)
       ELSE /\ (format = "pla" \/ SchemeOf(playlist[i].uri) \notin ignored) => IsKept(i)
            /\ (format # "pla" /\ SchemeOf(playlist[i].uri) \in atStart) => ~IsKept(i)

IInv == TypeOK /\ Streamed /\ Held /\ Counted /\ Kept

-----------------------------------------------------------------------------
LEMMA Lines ==
  ASSUME NEW fm \in Format, NEW t \in BOOLEAN, NEW c \in Nat, NEW i \in Nat,
         NEW n \in Nat, NEW e
  PROVE  /\ HeadLines(fm, t, c) \in Seq(Line)
         /\ EntryLines(fm, e, i, n) \in Seq(Line)
         /\ FootLines(fm) \in Seq(Line)
         /\ fm \in Singles => /\ HeadLines(fm, t, c) \in Seq(Light)
                              /\ EntryLines(fm, e, i, n) \in Seq(Light)
                              /\ FootLines(fm) \in Seq(Light)
<1>1. \A k \in {"magic", "list title", "count", "file", "title", "extinf", "path",
                "location", "track end", "end", "record"}, a, b \in Nat :
        L(k, a, b) \in Line /\ L(k, a, b).kind = k
  BY DEF L, Line
<1>2. \A k \in {"magic", "list title", "count", "file", "title", "extinf", "path"},
         a, b \in Nat : L(k, a, b) \in Light
  <2> SUFFICES ASSUME NEW k \in {"magic", "list title", "count", "file", "title",
                                 "extinf", "path"}, NEW a \in Nat, NEW b \in Nat
               PROVE  L(k, a, b) \in Light
    OBVIOUS
  <2>1. L(k, a, b) \in Line /\ L(k, a, b).kind = k  BY DEF L, Line
  <2>2. k # "record" /\ k # "end"  OBVIOUS
  <2> QED  BY <2>1, <2>2 DEF Light
<1>3. 0 \in Nat  OBVIOUS
<1> DEFINE LIN == Seq(Line)
           LIG == Seq(Light)
<1>4. /\ \A a \in Line : <<a>> \in LIN
      /\ \A a, b \in LIN : a \o b \in LIN
      /\ <<>> \in LIN
  OBVIOUS
<1>5. /\ \A a \in Light : <<a>> \in LIG
      /\ \A a, b \in LIG : a \o b \in LIG
      /\ <<>> \in LIG
  OBVIOUS
<1> HIDE DEF LIN, LIG
<1>6. HeadLines(fm, t, c) \in LIN
  <2> DEFINE h == <<L("magic", 0, 0)>>
             m == IF t THEN <<L("list title", 0, 0)>> ELSE <<>>
             z == <<L("count", 0, c)>>
  <2>1. h \in LIN /\ m \in LIN /\ z \in LIN  BY <1>1, <1>3, <1>4
  <2>2. <<L(IF t THEN "list title" ELSE "magic", 0, c)>> \in LIN  BY <1>1, <1>3, <1>4
  <2>3. HeadLines(fm, t, c) \in {(h \o m) \o z, h, <<L(IF t THEN "list title" ELSE "magic", 0, c)>>}
    BY DEF HeadLines
  <2> HIDE DEF h, m, z
  <2>4. h \o m \in LIN /\ (h \o m) \o z \in LIN  BY <1>4, <2>1, Zenon
  <2> QED  BY <2>1, <2>2, <2>3, <2>4, Zenon
<1>7. fm \in Singles => HeadLines(fm, t, c) \in LIG
  <2> DEFINE h == <<L("magic", 0, 0)>>
             m == IF t THEN <<L("list title", 0, 0)>> ELSE <<>>
             z == <<L("count", 0, c)>>
  <2>1. h \in LIG /\ m \in LIG /\ z \in LIG  BY <1>2, <1>3, <1>5
  <2>2. fm \in Singles => HeadLines(fm, t, c) \in {(h \o m) \o z, h}
    BY DEF HeadLines, Singles
  <2> HIDE DEF h, m, z
  <2>3. h \o m \in LIG /\ (h \o m) \o z \in LIG  BY <1>5, <2>1, Zenon
  <2> QED  BY <2>1, <2>2, <2>3, Zenon
<1>8. /\ EntryLines(fm, e, i, n) \in LIN
      /\ fm \in Singles => EntryLines(fm, e, i, n) \in LIG
  <2> DEFINE a == <<L("file", i, n)>>
             b == IF e.titled THEN <<L("title", i, n)>> ELSE <<>>
             r == <<L("record", i, 0)>>
             l == <<L("location", i, 0)>>
             q == IF e.titled THEN <<L("title", i, 0)>> ELSE <<>>
             k == <<L("track end", i, 0)>>
             x == IF e.titled THEN <<L("extinf", i, 0)>> ELSE <<>>
             y == <<L("path", i, 0)>>
  <2>1. /\ a \in LIN /\ b \in LIN /\ r \in LIN /\ l \in LIN
        /\ q \in LIN /\ k \in LIN /\ x \in LIN /\ y \in LIN
    BY <1>1, <1>3, <1>4
  <2>2. a \in LIG /\ b \in LIG /\ x \in LIG /\ y \in LIG
    BY <1>2, <1>3, <1>5
  <2>3. EntryLines(fm, e, i, n) \in {a \o b, r, (l \o q) \o k, x \o y}
    BY DEF EntryLines
  <2>4. fm \in Singles => EntryLines(fm, e, i, n) \in {a \o b, x \o y}
    BY DEF EntryLines, Singles
  <2> HIDE DEF a, b, r, l, q, k, x, y
  <2>5. a \o b \in LIN /\ l \o q \in LIN /\ (l \o q) \o k \in LIN /\ x \o y \in LIN
    BY <1>4, <2>1, Zenon
  <2>6. a \o b \in LIG /\ x \o y \in LIG  BY <1>5, <2>2, Zenon
  <2> QED  BY <2>1, <2>3, <2>4, <2>5, <2>6, Zenon
<1>9. FootLines(fm) \in LIN /\ (fm \in Singles => FootLines(fm) \in LIG)
  BY <1>1, <1>3, <1>4, <1>5 DEF FootLines, Singles
<1> QED  BY <1>6, <1>7, <1>8, <1>9 DEF LIN, LIG

\* What is written before the end grows with what is kept.
Pieces == [n \in DOMAIN kept |-> EntryLines(format, playlist[kept[n]], kept[n], n)]

LEMMA PiecesTyped ==
  ASSUME TypeOK
  PROVE  Pieces \in Seq(Seq(Line)) /\ Body = FlattenSeq(Pieces) /\ Begun \in Seq(Line)
<1>1. DOMAIN kept = 1 .. Len(kept) /\ Len(kept) \in Nat
      /\ \A n \in 1 .. Len(kept) : kept[n] \in Nat
  BY DEF TypeOK
<1>2. \A n \in 1 .. Len(kept) :
        EntryLines(format, playlist[kept[n]], kept[n], n) \in Seq(Line)
  BY <1>1, Lines DEF TypeOK
<1>3. Pieces \in Seq(Seq(Line))  BY <1>1, <1>2 DEF Pieces
<1>4. Body = FlattenSeq(Pieces)  BY DEF Body, Pieces
<1>5. Body \in Seq(Line)  BY <1>3, <1>4, FlattenTyped
<1>6. count \in Nat  BY DEF TypeOK
<1>7. HeadLines(format, titled, count) \in Seq(Line)  BY <1>6, Lines DEF TypeOK
<1> QED  BY <1>3, <1>4, <1>5, <1>7 DEF Begun

LEMMA BegunGrows ==
  ASSUME TypeOK, UNCHANGED <<playlist, format, titled, count>>, num = Len(kept),
         kept' = Append(kept, pos)
  PROVE  Begun' = Begun \o EntryLines(format, playlist[pos], pos, num + 1)
<1> DEFINE x == EntryLines(format, playlist[pos], pos, num + 1)
<1>1. /\ Pieces \in Seq(Seq(Line)) /\ Body = FlattenSeq(Pieces)
      /\ HeadLines(format, titled, count) \in Seq(Line)
  <2>1. count \in Nat  BY DEF TypeOK
  <2> QED  BY <2>1, PiecesTyped, Lines DEF TypeOK
<1>2. /\ num \in Nat /\ pos \in Nat /\ kept \in Seq(Nat) /\ num + 1 \in Nat
      /\ Len(Pieces) = num /\ DOMAIN kept = 1 .. num
  BY DEF TypeOK, Pieces
<1>3. x \in Seq(Line)  BY <1>2, Lines DEF TypeOK
<1>4. /\ DOMAIN kept' = 1 .. num + 1 /\ kept'[num + 1] = pos
      /\ \A n \in 1 .. num : kept'[n] = kept[n]
  BY <1>2
<1>5. Pieces' = Append(Pieces, x)
  <2> DEFINE P == Append(Pieces, x)
  <2>1. /\ P \in Seq(Seq(Line)) /\ DOMAIN P = 1 .. num + 1 /\ P[num + 1] = x
        /\ \A n \in 1 .. num : P[n] = Pieces[n]
    BY <1>1, <1>2, <1>3
  <2> HIDE DEF P
  <2>2. Pieces' = [n \in 1 .. num + 1 |->
                     EntryLines(format, playlist[kept'[n]], kept'[n], n)]
    BY <1>4 DEF Pieces
  <2>3. \A n \in 1 .. num + 1 : P[n] = EntryLines(format, playlist[kept'[n]], kept'[n], n)
    <3> SUFFICES ASSUME NEW n \in 1 .. num + 1
                 PROVE  P[n] = EntryLines(format, playlist[kept'[n]], kept'[n], n)
      OBVIOUS
    <3>1. CASE n = num + 1  BY <1>4, <2>1, <3>1
    <3>2. CASE n \in 1 .. num
      <4>1. Pieces[n] = EntryLines(format, playlist[kept[n]], kept[n], n)
        BY <1>2, <3>2 DEF Pieces
      <4> QED  BY <1>4, <2>1, <3>2, <4>1
    <3> QED  BY <1>2, <3>1, <3>2
  <2>4. P = [n \in 1 .. num + 1 |-> P[n]]  BY <2>1
  <2> QED  BY <2>2, <2>3, <2>4 DEF P
<1> HIDE DEF x
<1>6. Body' = FlattenSeq(Pieces') BY DEF Body, Pieces
<1>7. Body' = Body \o x  BY <1>1, <1>3, <1>5, <1>6, FlattenAppend
<1>8. Body \in Seq(Line)  BY <1>1, FlattenTyped
<1>9. Begun' = HeadLines(format, titled, count) \o (Body \o x)  BY <1>7 DEF Begun
<1>10. \A a, b, y \in Seq(Line) : a \o (b \o y) = (a \o b) \o y  OBVIOUS
<1>11. Begun' = Begun \o x  BY <1>1, <1>3, <1>8, <1>9, <1>10, Zenon DEF Begun
<1> QED  BY <1>11, Zenon DEF x

-----------------------------------------------------------------------------
(***************************************************************************)
(* Counting what is wanted, behind iter and ahead of it.                   *)
(***************************************************************************)
LEMMA WantedCounts ==
  ASSUME TypeOK, NEW p \in 1 .. Len(playlist) + 1
  PROVE  /\ IsFiniteSet(Ahead(p)) /\ Cardinality(Ahead(p)) \in Nat
         /\ IsFiniteSet(Behind(p)) /\ Cardinality(Behind(p)) \in Nat
         /\ p <= Len(playlist) =>
              /\ Cardinality(Ahead(p)) = Cardinality(Ahead(p + 1))
                                          + (IF Wanted(p) THEN 1 ELSE 0)
              /\ Cardinality(Behind(p + 1)) = Cardinality(Behind(p))
                                              + (IF Wanted(p) THEN 1 ELSE 0)
         /\ Cardinality(Behind(1)) = 0
         /\ Cardinality(Ahead(Len(playlist) + 1)) = 0
         /\ Behind(Len(playlist) + 1) = Ahead(1)
<1> DEFINE N == Len(playlist)
<1>1. N \in Nat /\ p \in Nat  BY DEF TypeOK
<1>2. \A q \in Nat : IsFiniteSet(Ahead(q)) /\ Cardinality(Ahead(q)) \in Nat
  <2> SUFFICES ASSUME NEW q \in Nat
               PROVE  IsFiniteSet(Ahead(q)) /\ Cardinality(Ahead(q)) \in Nat
    OBVIOUS
  <2>1. Ahead(q) \subseteq q .. N  BY DEF Ahead
  <2>2. IsFiniteSet(q .. N)  BY <1>1, FS_Interval
  <2>3. IsFiniteSet(Ahead(q))  BY <2>1, <2>2, FS_Subset
  <2> QED  BY <2>3, FS_CardinalityType
<1>3. \A q \in Nat : IsFiniteSet(Behind(q)) /\ Cardinality(Behind(q)) \in Nat
  <2> SUFFICES ASSUME NEW q \in Nat
               PROVE  IsFiniteSet(Behind(q)) /\ Cardinality(Behind(q)) \in Nat
    OBVIOUS
  <2>1. Behind(q) \subseteq 1 .. q - 1  BY DEF Behind
  <2>2. IsFiniteSet(1 .. q - 1)  BY FS_Interval
  <2>3. IsFiniteSet(Behind(q))  BY <2>1, <2>2, FS_Subset
  <2> QED  BY <2>3, FS_CardinalityType
<1>4. p + 1 \in Nat  BY <1>1
<1>5. ASSUME p <= N
      PROVE  Cardinality(Ahead(p)) = Cardinality(Ahead(p + 1)) + (IF Wanted(p) THEN 1 ELSE 0)
  <2>1. Ahead(p) = IF Wanted(p) THEN Ahead(p + 1) \cup {p} ELSE Ahead(p + 1)
    <3>1. \A i : i \in p .. N <=> i = p \/ i \in p + 1 .. N  BY <1>1, <1>5
    <3> QED  BY <3>1 DEF Ahead
  <2>2. p \notin Ahead(p + 1)  BY <1>1 DEF Ahead
  <2>3. IsFiniteSet(Ahead(p + 1)) /\ Cardinality(Ahead(p + 1)) \in Nat  BY <1>2, <1>4
  <2>4. Cardinality(Ahead(p + 1) \cup {p}) = Cardinality(Ahead(p + 1)) + 1
    BY <2>2, <2>3, FS_AddElement
  <2> QED  BY <2>1, <2>3, <2>4
<1>6. Cardinality(Behind(p + 1)) = Cardinality(Behind(p)) + (IF Wanted(p) THEN 1 ELSE 0)
  <2>1. Behind(p + 1) = IF Wanted(p) THEN Behind(p) \cup {p} ELSE Behind(p)
    <3>1. \A i : i \in 1 .. (p + 1) - 1 <=> i = p \/ i \in 1 .. p - 1  BY <1>1
    <3> QED  BY <3>1 DEF Behind
  <2>2. p \notin Behind(p)  BY <1>1 DEF Behind
  <2>3. IsFiniteSet(Behind(p)) /\ Cardinality(Behind(p)) \in Nat  BY <1>1, <1>3
  <2>4. Cardinality(Behind(p) \cup {p}) = Cardinality(Behind(p)) + 1
    BY <2>2, <2>3, FS_AddElement
  <2> QED  BY <2>1, <2>3, <2>4
<1>7. Behind(1) = {} /\ Ahead(N + 1) = {}
  <2>1. 1 .. 1 - 1 = {} /\ N + 1 .. N = {}  BY <1>1
  <2> QED  BY <2>1 DEF Behind, Ahead
<1>8. Behind(N + 1) = Ahead(1)
  <2>1. 1 .. (N + 1) - 1 = 1 .. N  BY <1>1
  <2> QED  BY <2>1 DEF Behind, Ahead
<1> QED  BY <1>1, <1>2, <1>3, <1>5, <1>6, <1>7, <1>8, FS_EmptySet

\* The more is ignored, the less is wanted.
LEMMA LessWanted ==
  ASSUME TypeOK, UNCHANGED playlist, ignored \subseteq ignored',
         NEW p \in 1 .. Len(playlist) + 1
  PROVE  /\ Cardinality(Ahead(p)') \in Nat /\ Cardinality(Ahead(p)') <= Cardinality(Ahead(p))
         /\ Cardinality(Behind(p)') \in Nat /\ Cardinality(Behind(p)') <= Cardinality(Behind(p))
<1>1. Ahead(p)' \subseteq Ahead(p) /\ Behind(p)' \subseteq Behind(p)
  BY DEF Ahead, Behind, Wanted, IsIgnored
<1>2. IsFiniteSet(Ahead(p)) /\ IsFiniteSet(Behind(p))  BY WantedCounts
<1>3. /\ IsFiniteSet(Ahead(p)') /\ Cardinality(Ahead(p)') <= Cardinality(Ahead(p))
      /\ IsFiniteSet(Behind(p)') /\ Cardinality(Behind(p)') <= Cardinality(Behind(p))
  BY <1>1, <1>2, FS_Subset
<1> QED  BY <1>3, FS_CardinalityType

LEMMA CountsStay ==
  ASSUME UNCHANGED <<inputs, ignored>>
  PROVE  \A p : Ahead(p)' = Ahead(p) /\ Behind(p)' = Behind(p) /\ (Wanted(p)' <=> Wanted(p))
BY DEF inputs, Ahead, Behind, Wanted, IsIgnored

\* Lines are only left to be written while the stream is open.
LEMMA TodoWithin ==
  ASSUME IInv, todo # <<>>
  PROVE  pc \in {"write", "foot"} /\ refs = 1 /\ dest = Old /\ result = "none"
BY DEF IInv, TypeOK, Streamed, Held, Before

-----------------------------------------------------------------------------
(***************************************************************************)
(* Every step preserves every part of the invariant.                       *)
(***************************************************************************)
LEMMA InitIInv == Init => IInv
<1> SUFFICES ASSUME Init PROVE IInv
  OBVIOUS
<1>1. playlist \in Seq(Element) /\ format \in Format
  BY PlaylistsAssumption, FormatsAssumption DEF Init
<1>2. Len(playlist) \in Nat  BY <1>1
<1>3. Old \in Seq(Line)  BY DEF Old, L, Line
<1>4. TypeOK  BY <1>1, <1>2, <1>3 DEF Init, TypeOK
<1>5. Streamed  BY DEF Init, Streamed, Before
<1>6. Held  BY DEF Init, Held
<1>7. Counted  BY DEF Init, Counted, Within
<1>8. Kept  BY DEF Init, Kept, Within
<1> QED  BY <1>4, <1>5, <1>6, <1>7, <1>8 DEF IInv

LEMMA NextTypeOK == IInv /\ [Next]_vars => TypeOK'
<1> SUFFICES ASSUME IInv, [Next]_vars PROVE TypeOK'
  OBVIOUS
<1>0. TypeOK  BY DEF IInv
<1>1. /\ Len(playlist) \in Nat /\ pos \in Nat /\ num \in Nat /\ count \in Nat
      /\ refs \in Int /\ dest \in Seq(Line) /\ out \in Seq(Line) /\ todo \in Seq(Line)
  BY <1>0 DEF TypeOK
<1>2. CASE Save  BY <1>0, <1>1, <1>2 DEF Save, TypeOK, inputs
<1>3. CASE CountEntry
  <2>1. CASE pos > Len(playlist)  BY <1>0, <1>1, <1>3, <2>1 DEF CountEntry, TypeOK, inputs
  <2>2. CASE pos <= Len(playlist)
    <3>1. pos \in 1 .. Len(playlist)  BY <1>0, <2>2 DEF TypeOK
    <3>2. Cardinality(Behind(pos)) \in Nat  BY <1>0, <3>1, WantedCounts
    <3>3. count >= Len(playlist) + 1 - pos + Cardinality(Behind(pos))
      BY <1>3 DEF CountEntry, IInv, Counted, Bounds
    <3>4. count - 1 \in 0 .. Len(playlist) /\ pos + 1 \in 1 .. Len(playlist) + 1
      BY <1>0, <1>1, <2>2, <3>1, <3>2, <3>3 DEF TypeOK
    <3>5. count' \in {count, count - 1} /\ pos' = pos + 1 /\ pc' = pc
          /\ UNCHANGED <<inputs, num, todo, out, dest, refs, ignored, result, kept>>
      BY <1>1, <1>3, <2>2 DEF CountEntry
    <3> QED  BY <1>0, <3>4, <3>5 DEF TypeOK, inputs
  <2> QED  BY <1>1, <2>1, <2>2
<1>4. CASE Open
  <2>1. HeadLines(format, titled, count) \in Seq(Line)
    BY <1>0, <1>1, Lines DEF TypeOK
  <2> QED  BY <1>0, <1>4, <2>1 DEF Open, TypeOK, inputs
<1>5. CASE Write
  <2>1. Head(todo) \in Line /\ Tail(todo) \in Seq(Line)  BY <1>1, <1>5 DEF Write
  <2>2. Append(out, Head(todo)) \in Seq(Line)  BY <1>1, <2>1
  <2> QED  BY <1>0, <1>5, <2>1, <2>2 DEF Write, TypeOK, inputs
<1>6. CASE WriteFails \/ ConversionFails \/ SaveReturns
  <2>1. /\ refs' \in {refs - 1, refs - 2} /\ dest' \in {dest, out} /\ pc' = "done"
        /\ todo' \in {todo, <<>>} /\ result' \in {"TRUE", "FALSE"}
        /\ UNCHANGED <<inputs, pos, num, count, out, ignored, kept>>
    BY <1>6 DEF WriteFails, ConversionFails, SaveReturns, Close
  <2>2. refs - 1 \in Int /\ refs - 2 \in Int /\ <<>> \in Seq(Line)  BY <1>1
  <2> QED  BY <1>0, <2>1, <2>2 DEF TypeOK, inputs
<1>7. CASE SkipEntry
  <2>1. pos + 1 \in 1 .. Len(playlist) + 1
    BY <1>0, <1>1, <1>7 DEF SkipEntry, Looking, TypeOK
  <2> QED  BY <1>0, <1>7, <2>1 DEF SkipEntry, Looking, TypeOK, inputs
<1>8. CASE SaveEntry
  <2>1. pos + 1 \in 1 .. Len(playlist) + 1
    BY <1>0, <1>1, <1>8 DEF SaveEntry, Looking, TypeOK
  <2>2. num + 1 \in Nat /\ EntryLines(format, playlist[pos], pos, num + 1) \in Seq(Line)
    <3>1. num + 1 \in Nat  BY <1>1
    <3> QED  BY <1>0, <1>1, <3>1, Lines DEF TypeOK
  <2>3. num + 1 \in 0 .. Len(playlist)
    <3>1. num < pos  BY DEF IInv, Streamed
    <3> QED  BY <1>1, <2>1, <3>1
  <2>4. Append(kept, pos) \in Seq(Nat)  BY <1>0, <1>1 DEF TypeOK
  <2> QED  BY <1>0, <1>8, <2>1, <2>2, <2>3, <2>4 DEF SaveEntry, Looking, TypeOK, inputs
<1>9. CASE SaveFoot
  <2>1. FootLines(format) \in Seq(Line)  BY <1>0, Lines DEF TypeOK
  <2> QED  BY <1>0, <1>9, <2>1 DEF SaveFoot, TypeOK, inputs
<1>10. CASE AddIgnoredScheme
  BY <1>0, <1>10 DEF AddIgnoredScheme, TypeOK, inputs
<1>11. CASE UNCHANGED vars
  BY <1>0, <1>11 DEF vars, TypeOK, inputs
<1> QED
  BY <1>2, <1>3, <1>4, <1>5, <1>6, <1>7, <1>8, <1>9, <1>10, <1>11
  DEF Next, Saver, Terminated

LEMMA Nothing ==
  ASSUME NEW S, NEW s \in Seq(S)
  PROVE  s \o <<>> = s /\ <<>> \o s = s /\ IsPrefix(<<>>, s)
<1>1. SubSeq(<<>>, 1, 0) = SubSeq(s, 1, 0)  OBVIOUS
<1>2. IsPrefix(<<>>, s)  BY <1>1 DEF IsPrefix
<1> QED  BY <1>2

LEMMA PrefixJoined ==
  ASSUME NEW S, NEW s \in Seq(S), NEW t \in Seq(S)
  PROVE  IsPrefix(s, s \o t)
<1> DEFINE u == s \o t
<1>1. u \in Seq(S) /\ Len(s) \in Nat /\ Len(s) <= Len(u) /\ Len(u) \in Nat
      /\ \A i \in 1 .. Len(s) : u[i] = s[i]
  OBVIOUS
<1> HIDE DEF u
<1>2. SubSeq(s, 1, Len(s)) = SubSeq(u, 1, Len(s))  BY <1>1
<1> QED  BY <1>1, <1>2 DEF IsPrefix, u

LEMMA PrefixLonger ==
  ASSUME NEW S, NEW s \in Seq(S), NEW t \in Seq(S), NEW u \in Seq(S)
  PROVE  IsPrefix(s, (s \o t) \o u)
<1>1. (s \o t) \o u = s \o (t \o u) /\ t \o u \in Seq(S)
  BY ConcatAssociative, ConcatProperties
<1> QED  BY <1>1, PrefixJoined

LEMMA LineMoves ==
  ASSUME NEW S, NEW s \in Seq(S), NEW t \in Seq(S), t # <<>>
  PROVE  Append(s, Head(t)) \o Tail(t) = s \o t
<1>1. /\ Head(t) \in S /\ Tail(t) \in Seq(S) /\ <<Head(t)>> \in Seq(S)
      /\ Len(t) \in Nat \ {0}
  BY HeadTailProperties
<1>2. t = <<Head(t)>> \o Tail(t)
  <2>1. Head(t) = t[1] /\ SubSeq(t, 1, Len(t)) = t  OBVIOUS
  <2>2. Tail(t) = SubSeq(t, 1 + 1, Len(t))  BY TailIsSubSeq
  <2>3. 1 \in 1 .. Len(t) /\ Len(t) \in 1 .. Len(t)  BY <1>1
  <2>4. SubSeq(t, 1, Len(t)) = <<t[1]>> \o SubSeq(t, 1 + 1, Len(t))
    BY <2>3, SubSeqRecursiveFirst
  <2> QED  BY <2>1, <2>2, <2>4
<1>3. Append(s, Head(t)) = s \o <<Head(t)>>  BY <1>1, AppendIsConcat
<1>4. (s \o <<Head(t)>>) \o Tail(t) = s \o (<<Head(t)>> \o Tail(t))
  BY <1>1, ConcatAssociative
<1> QED  BY <1>2, <1>3, <1>4

LEMMA BegunStays ==
  ASSUME UNCHANGED <<playlist, format, titled, count, kept>>
  PROVE  Begun' = Begun
BY DEF Begun, Body

LEMMA NextStreamed == IInv /\ [Next]_vars => Streamed'
<1> SUFFICES ASSUME IInv, [Next]_vars PROVE Streamed'
  OBVIOUS
<1>0. TypeOK /\ Streamed  BY DEF IInv
<1>1. /\ Len(playlist) \in Nat /\ pos \in Nat /\ num \in Nat /\ pos >= 1
      /\ dest \in Seq(Line) /\ out \in Seq(Line) /\ todo \in Seq(Line)
      /\ pos <= Len(playlist) + 1
  BY <1>0 DEF TypeOK
<1>2. /\ Begun \in Seq(Line) /\ FootLines(format) \in Seq(Line)
      /\ Begun \o FootLines(format) \in Seq(Line)
  <2>1. Begun \in Seq(Line) /\ FootLines(format) \in Seq(Line)
    BY <1>0, PiecesTyped, Lines DEF TypeOK
  <2> QED  BY <2>1
<1> DEFINE F == FootLines(format)
<1>3. CASE Save
  <2>1. /\ pc = "call" /\ UNCHANGED <<playlist, format, titled, pos, num, todo, out, dest, refs, kept>>
        /\ \/ pc' = "done" /\ result' = "FALSE"
           \/ pc' \in {"count", "open"} /\ UNCHANGED result
    BY <1>3 DEF Save, inputs
  <2>2. Begun' \o F \in Seq(Line)
    <3>1. kept' = <<>> /\ count' \in Nat /\ UNCHANGED <<format, titled>>
      BY <1>0, <1>1, <1>3, <2>1 DEF Streamed, Before, Save
    <3>2. Body' = <<>>  BY <3>1 DEF Body, FlattenSeq
    <3>3. HeadLines(format, titled, count') \in Seq(Line)  BY <1>0, <3>1, Lines DEF TypeOK
    <3>4. Begun' \in Seq(Line)  BY <3>1, <3>2, <3>3 DEF Begun
    <3> QED  BY <1>2, <3>4
  <2>3. IsPrefix(<<>>, Begun' \o F)
    <3> HIDE DEF F
    <3> QED  BY <2>2, Nothing
  <2> HIDE DEF F
  <2> QED  BY <1>0, <2>1, <2>3 DEF Streamed, Before, F
<1>4. CASE CountEntry
  <2>1. /\ pc = "count" /\ UNCHANGED <<num, todo, out, dest, refs, result, kept>>
        /\ \/ pc' = "open" /\ pos' = 1
           \/ pc' = "count" /\ pos' = pos + 1
    BY <1>4 DEF CountEntry
  <2>2. num = 0  BY <1>0, <2>1 DEF Streamed, Before
  <2> QED  BY <1>0, <1>1, <2>1, <2>2 DEF Streamed, Before
<1>5. CASE Open
  <2>1. /\ pc = "open" /\ UNCHANGED <<playlist, format, titled, count, pos, num, out, dest, kept>>
        /\ \/ pc' = "write" /\ todo' = HeadLines(format, titled, count) /\ UNCHANGED result
           \/ pc' = "done" /\ result' = "FALSE" /\ UNCHANGED todo
    BY <1>5 DEF Open, inputs
  <2>2. out = <<>> /\ todo = <<>> /\ kept = <<>> /\ dest = Old /\ result = "none" /\ pos = 1
    BY <1>0, <2>1 DEF Streamed, Before
  <2>3. Begun = HeadLines(format, titled, count) /\ Begun' = Begun
    <3>1. Body = <<>>  BY <2>2 DEF Body, FlattenSeq
    <3>2. HeadLines(format, titled, count) \in Seq(Line)
      <4>1. count \in Nat  BY <1>0 DEF TypeOK
      <4> QED  BY <1>0, <4>1, Lines DEF TypeOK
    <3>3. Begun = HeadLines(format, titled, count)  BY <3>1, <3>2, Nothing DEF Begun
    <3> QED  BY <2>1, <3>3, BegunStays
  <2>4. IsPrefix(<<>>, Begun \o F) /\ <<>> \o Begun = Begun  BY <1>2, Nothing
  <2> HIDE DEF F
  <2> QED  BY <1>0, <2>1, <2>2, <2>3, <2>4 DEF Streamed, Before, F
<1>6. CASE Write
  <2>1. /\ todo # <<>> /\ out' = Append(out, Head(todo)) /\ todo' = Tail(todo)
        /\ UNCHANGED <<playlist, format, titled, count, kept, pc, pos, num, dest, refs, result>>
    BY <1>6 DEF Write, inputs
  <2>2. pc \in {"write", "foot"} /\ result = "none"  BY <2>1, TodoWithin
  <2>3. out' \o todo' = out \o todo  BY <1>1, <2>1, LineMoves
  <2>4. Begun' = Begun  BY <2>1, BegunStays
  <2> QED  BY <1>0, <2>1, <2>2, <2>3, <2>4 DEF Streamed, Before
<1>7. CASE WriteFails
  <2>1. /\ todo # <<>> /\ todo' = <<>> /\ pc' = "done" /\ result' = "FALSE"
        /\ dest' \in {dest, out}
        /\ UNCHANGED <<playlist, format, titled, count, kept, pos, num, out>>
    BY <1>7 DEF WriteFails, Close, inputs
  <2>2. pc \in {"write", "foot"} /\ dest = Old  BY <2>1, TodoWithin
  <2>3. Begun' = Begun  BY <2>1, BegunStays
  <2>4. IsPrefix(out, Begun \o F)
    <3>1. IsPrefix(out, out \o todo) /\ IsPrefix(out, (out \o todo) \o F)
      BY <1>1, <1>2, PrefixJoined, PrefixLonger
    <3>2. out \o todo = Begun \/ out \o todo = Begun \o F  BY <1>0, <2>2 DEF Streamed
    <3> QED  BY <3>1, <3>2
  <2> HIDE DEF F
  <2> QED  BY <1>0, <2>1, <2>2, <2>3, <2>4 DEF Streamed, Before, F
<1>8. CASE ConversionFails \/ SaveReturns
  <2>1. /\ todo = <<>> /\ todo' = todo /\ pc' = "done" /\ dest' \in {dest, out}
        /\ UNCHANGED <<playlist, format, titled, count, kept, pos, num, out>>
        /\ \/ pc = "write" /\ result' = "FALSE"
           \/ pc = "foot" /\ result' = "TRUE"
    BY <1>8 DEF ConversionFails, SaveReturns, Looking, Close, inputs
  <2>2. Begun' = Begun /\ dest = Old  BY <1>0, <2>1, BegunStays DEF Streamed
  <2>3. out \o todo = out  BY <1>1, <2>1, Nothing
  <2>4. IsPrefix(out, Begun \o F)
    <3>1. IsPrefix(Begun, Begun \o F)  BY <1>2, PrefixJoined
    <3>3. IsPrefix(out, out)
      <4>1. <<>> \in Seq(Line) /\ out \o <<>> = out  BY <1>1, Nothing
      <4> QED  BY <1>1, <4>1, PrefixJoined
    <3>2. out = Begun \/ out = Begun \o F  BY <1>0, <2>1, <2>3 DEF Streamed
    <3> QED  BY <3>1, <3>2, <3>3
  <2>5. pc = "foot" => out = Begun \o F /\ pos = Len(playlist) + 1
    BY <1>0, <2>3 DEF Streamed
  <2> HIDE DEF F
  <2> QED  BY <1>0, <2>1, <2>2, <2>4, <2>5 DEF Streamed, Before, F
<1>9. CASE SkipEntry
  <2>1. /\ pc = "write" /\ pos' = pos + 1
        /\ UNCHANGED <<playlist, format, titled, count, kept, pc, num, todo, out, dest, refs, result>>
    BY <1>9 DEF SkipEntry, Looking, inputs
  <2>2. Begun' = Begun  BY <2>1, BegunStays
  <2>3. num = Len(kept) /\ num < pos + 1 /\ result = "none"
    BY <1>0, <1>1, <2>1 DEF Streamed
  <2> QED  BY <1>0, <2>1, <2>2, <2>3 DEF Streamed, Before
<1>10. CASE SaveEntry
  <2> DEFINE x == EntryLines(format, playlist[pos], pos, num + 1)
  <2>1. /\ pc = "write" /\ todo = <<>> /\ pos' = pos + 1 /\ num' = num + 1 /\ todo' = x
        /\ kept' = Append(kept, pos)
        /\ UNCHANGED <<playlist, format, titled, count, pc, out, dest, refs, result>>
    BY <1>10 DEF SaveEntry, Looking, inputs
  <2>2. num = Len(kept) /\ num < pos /\ kept \in Seq(Nat) /\ out \o todo = Begun
        /\ dest = Old /\ result = "none"
    BY <1>0, <2>1 DEF TypeOK, Streamed
  <2>3. Begun' = Begun \o x  BY <1>0, <2>1, <2>2, BegunGrows
  <2>4. out = Begun  BY <1>1, <2>1, <2>2, Nothing
  <2>5. num' = Len(kept') /\ num' < pos'  BY <1>1, <2>1, <2>2
  <2> HIDE DEF x
  <2> QED  BY <2>1, <2>2, <2>3, <2>4, <2>5 DEF Streamed, Before
<1>11. CASE SaveFoot
  <2>1. /\ pc = "write" /\ todo = <<>> /\ pos > Len(playlist) /\ pc' = "foot" /\ todo' = F
        /\ UNCHANGED <<playlist, format, titled, count, kept, pos, num, out, dest, refs, result>>
    BY <1>11 DEF SaveFoot, inputs
  <2>2. Begun' = Begun  BY <2>1, BegunStays
  <2>3. out = Begun  BY <1>0, <1>1, <2>1, Nothing DEF Streamed
  <2>4. pos = Len(playlist) + 1  BY <1>1, <2>1
  <2> HIDE DEF F
  <2> QED  BY <1>0, <2>1, <2>2, <2>3, <2>4 DEF Streamed, Before, F
<1>12. CASE AddIgnoredScheme \/ UNCHANGED vars
  <2>1. UNCHANGED <<playlist, format, titled, count, kept, pc, pos, num, todo, out, dest, refs, result>>
    BY <1>12 DEF AddIgnoredScheme, vars, inputs
  <2>2. Begun' = Begun  BY <2>1, BegunStays
  <2> QED  BY <1>0, <2>1, <2>2 DEF Streamed, Before
<1> QED
  BY <1>3, <1>4, <1>5, <1>6, <1>7, <1>8, <1>9, <1>10, <1>11, <1>12
  DEF Next, Saver, Terminated

LEMMA NextHeld == IInv /\ [Next]_vars => Held'
<1> SUFFICES ASSUME IInv, [Next]_vars PROVE Held'
  OBVIOUS
<1>0. TypeOK /\ Streamed /\ Held  BY DEF IInv
<1>1. /\ refs \in Int /\ todo \in Seq(Line) /\ pos \in Nat /\ num + 1 \in Nat
      /\ count \in Nat
  BY <1>0 DEF TypeOK
<1>2. <<>> \in Seq(Light)  OBVIOUS
<1>3. CASE Save \/ CountEntry
  <2>1. /\ pc \in {"call", "count"} /\ pc' \in {"count", "open", "done"}
        /\ UNCHANGED <<format, todo, refs>>
    BY <1>3 DEF Save, CountEntry, inputs
  <2>2. refs = 0  BY <1>0, <2>1 DEF Streamed, Before
  <2> QED  BY <1>0, <2>1, <2>2 DEF Held
<1>4. CASE Open
  <2>1. format \in Singles => HeadLines(format, titled, count) \in Seq(Light)
    BY <1>0, <1>1, Lines DEF TypeOK
  <2>2. pc = "open" /\ refs = 0  BY <1>0, <1>4 DEF Open, Streamed, Before
  <2>3. /\ UNCHANGED format
        /\ \/ pc' = "write" /\ refs' = 1 /\ todo' = HeadLines(format, titled, count)
           \/ pc' = "done" /\ UNCHANGED <<refs, todo>>
    BY <1>4 DEF Open, inputs
  <2> QED  BY <1>0, <2>1, <2>2, <2>3 DEF Held
<1>5. CASE Write
  <2>1. /\ todo # <<>> /\ todo' = Tail(todo) /\ UNCHANGED <<format, pc, refs>>
    BY <1>5 DEF Write, inputs
  <2>2. pc \in {"write", "foot"} /\ refs = 1  BY <2>1, TodoWithin
  <2>3. format \in Singles => Tail(todo) \in Seq(Light)  BY <1>0, <2>1 DEF Held
  <2> QED  BY <2>1, <2>2, <2>3 DEF Held
<1>6. CASE WriteFails
  <2>1. /\ todo # <<>> /\ todo' = <<>> /\ UNCHANGED format /\ pc' = "done"
        /\ refs' = refs - (IF Head(todo).kind \in {"record", "end"} THEN 2 ELSE 1)
    BY <1>6 DEF WriteFails, Close, inputs
  <2>2. refs = 1  BY <2>1, TodoWithin
  <2>3. ASSUME format \in Singles PROVE Head(todo).kind \notin {"record", "end"}
    <3>1. todo \in Seq(Light)  BY <1>0, <2>3 DEF Held
    <3>2. Head(todo) \in Light  BY <2>1, <3>1, HeadTailProperties
    <3> QED  BY <3>2 DEF Light
  <2>4. refs' <= 0 /\ (format \in Singles => refs' = 0)  BY <2>1, <2>2, <2>3
  <2> QED  BY <1>2, <2>1, <2>4 DEF Held
<1>7. CASE ConversionFails \/ SaveReturns
  <2>1. /\ pc \in {"write", "foot"} /\ UNCHANGED <<format, todo>> /\ pc' = "done"
        /\ refs' = refs - 1
    BY <1>7 DEF ConversionFails, SaveReturns, Looking, Close, inputs
  <2>2. refs' = 0  BY <1>0, <2>1 DEF Held
  <2> QED  BY <1>0, <2>1, <2>2 DEF Held
<1>8. CASE SkipEntry \/ AddIgnoredScheme \/ UNCHANGED vars
  <2>1. UNCHANGED <<format, pc, todo, refs>>
    BY <1>8 DEF SkipEntry, AddIgnoredScheme, vars, inputs
  <2> QED  BY <1>0, <2>1 DEF Held
<1>9. CASE SaveEntry
  <2>1. /\ pc = "write" /\ UNCHANGED <<format, pc, refs>>
        /\ todo' = EntryLines(format, playlist[pos], pos, num + 1)
    BY <1>9 DEF SaveEntry, Looking, inputs
  <2>2. format \in Singles => todo' \in Seq(Light)
    BY <1>0, <1>1, <2>1, Lines DEF TypeOK
  <2> QED  BY <1>0, <2>1, <2>2 DEF Held
<1>10. CASE SaveFoot
  <2>1. /\ pc = "write" /\ pc' = "foot" /\ UNCHANGED <<format, refs>>
        /\ todo' = FootLines(format)
    BY <1>10 DEF SaveFoot, inputs
  <2>2. format \in Singles => todo' \in Seq(Light)
    BY <1>0, <2>1, Lines DEF TypeOK
  <2> QED  BY <1>0, <2>1, <2>2 DEF Held
<1> QED
  BY <1>3, <1>4, <1>5, <1>6, <1>7, <1>8, <1>9, <1>10 DEF Next, Saver, Terminated

LEMMA NextCounted == IInv /\ [Next]_vars => Counted'
<1> SUFFICES ASSUME IInv, [Next]_vars PROVE Counted'
  OBVIOUS
<1>0. TypeOK /\ Streamed /\ Counted  BY DEF IInv
<1> DEFINE N == Len(playlist)
<1>1. /\ N \in Nat /\ pos \in Nat /\ count \in Nat /\ Len(kept) \in Nat
      /\ pos \in 1 .. N + 1 /\ 1 \in 1 .. N + 1 /\ N + 1 \in 1 .. N + 1
  BY <1>0 DEF TypeOK
<1>2. /\ \A p \in 1 .. N + 1 : Cardinality(Ahead(p)) \in Nat /\ Cardinality(Behind(p)) \in Nat
      /\ pos <= N =>
           /\ Cardinality(Ahead(pos)) = Cardinality(Ahead(pos + 1))
                                         + (IF Wanted(pos) THEN 1 ELSE 0)
           /\ Cardinality(Behind(pos + 1)) = Cardinality(Behind(pos))
                                             + (IF Wanted(pos) THEN 1 ELSE 0)
      /\ Cardinality(Behind(1)) = 0 /\ Behind(N + 1) = Ahead(1)
      /\ Cardinality(Ahead(N + 1)) = 0
  BY <1>0, <1>1, WantedCounts
<1> HIDE DEF N
<1>3. CASE Save
  <2>1. /\ pc = "call" /\ result = "none" /\ pos = 1 /\ kept = <<>>
    BY <1>0, <1>3 DEF Save, Streamed, Before
  <2>2. /\ UNCHANGED <<playlist, format, atStart, ignored, pos, kept>> /\ count' = N
        /\ \/ pc' = "done" /\ result' = "FALSE"
           \/ /\ pc' = (IF format = "pls" THEN "count" ELSE "open")
              /\ result' = result
    BY <1>3 DEF Save, inputs, N
  <2>3. Behind(pos)' = Behind(1)  BY <1>3, <2>1, CountsStay DEF Save
  <2>4. Bounds(N + 1 - 1 + Cardinality(Behind(1)))'
    BY <1>1, <1>2, <2>2, CountsStay, <1>3 DEF Bounds, Save, N
  <2> QED  BY <1>1, <2>1, <2>2, <2>3, <2>4 DEF Counted, Within, N
<1>4. CASE CountEntry
  <2>1. /\ pc = "count" /\ UNCHANGED <<inputs, ignored, kept, result>>
        /\ UNCHANGED <<playlist, format, atStart>>
    BY <1>4 DEF CountEntry, inputs
  <2>2. kept = <<>> /\ result = "none"  BY <1>0, <2>1 DEF Streamed, Before
  <2>3. \A p : Ahead(p)' = Ahead(p) /\ Behind(p)' = Behind(p)  BY <2>1, CountsStay
  <2>4. format = "pls" /\ Bounds(N + 1 - pos + Cardinality(Behind(pos)))
    BY <1>0, <2>1 DEF Counted, N
  <2>5. CASE pos > N
    <3>1. pc' = "open" /\ pos' = 1 /\ count' = count  BY <1>4, <2>5 DEF CountEntry, N
    <3>2. pos = N + 1  BY <1>1, <2>5
    <3>3. Bounds(Cardinality(Ahead(1)))  BY <1>1, <1>2, <2>4, <3>2 DEF Bounds
    <3>4. Bounds(Len(kept) + Cardinality(Ahead(pos)))'
      BY <1>2, <1>1, <2>1, <2>2, <2>3, <3>1, <3>3 DEF Bounds
    <3> QED  BY <3>1, <3>4 DEF Counted
  <2>6. CASE pos <= N
    <3>1. /\ pc' = "count" /\ pos' = pos + 1
          /\ count' = IF playlist[pos].uri = Unset \/ IsIgnored(playlist[pos])
                      THEN count - 1 ELSE count
      BY <1>1, <1>4, <2>6 DEF CountEntry, N
    <3>2. count' = IF Wanted(pos) THEN count ELSE count - 1  BY <3>1 DEF Wanted
    <3>3. Cardinality(Behind(pos + 1)) = Cardinality(Behind(pos))
                                         + (IF Wanted(pos) THEN 1 ELSE 0)
      BY <1>2, <2>6
    <3>4. Cardinality(Behind(pos)) \in Nat  BY <1>1, <1>2
    <3>5. /\ count' >= N + 1 - (pos + 1) + Cardinality(Behind(pos + 1))
          /\ ignored = atStart
               => count' = N + 1 - (pos + 1) + Cardinality(Behind(pos + 1))
      <4>1. CASE Wanted(pos)
        <5> DEFINE b == Cardinality(Behind(pos))
        <5>1. b \in Nat /\ Cardinality(Behind(pos + 1)) = b + 1 /\ count' = count
              /\ count >= N + 1 - pos + b /\ (ignored = atStart => count = N + 1 - pos + b)
          BY <2>4, <3>2, <3>3, <3>4, <4>1 DEF Bounds
        <5> HIDE DEF b
        <5> QED  BY <1>1, <5>1
      <4>2. CASE ~Wanted(pos)
        <5> DEFINE b == Cardinality(Behind(pos))
        <5>1. b \in Nat /\ Cardinality(Behind(pos + 1)) = b /\ count' = count - 1
              /\ count >= N + 1 - pos + b /\ (ignored = atStart => count = N + 1 - pos + b)
          BY <2>4, <3>2, <3>3, <3>4, <4>2 DEF Bounds
        <5> HIDE DEF b
        <5> QED  BY <1>1, <5>1
      <4> QED  BY <4>1, <4>2
    <3>6. Bounds(N + 1 - pos + Cardinality(Behind(pos)))'
      BY <2>1, <2>3, <3>1, <3>5 DEF Bounds, N
    <3> QED  BY <2>1, <2>2, <2>4, <3>1, <3>6 DEF Counted, Within, N
  <2> QED  BY <1>1, <2>5, <2>6
<1>5. CASE Open \/ Write \/ WriteFails \/ ConversionFails \/ SaveFoot \/ SaveReturns
             \/ UNCHANGED vars
  <2>1. UNCHANGED <<inputs, ignored, playlist, format, atStart, count, kept, pos>>
    BY <1>5 DEF Open, Write, WriteFails, ConversionFails, SaveFoot, SaveReturns, Close,
                inputs, vars
  <2>2. Ahead(pos)' = Ahead(pos) /\ Behind(pos)' = Behind(pos)  BY <2>1, CountsStay
  <2>3. /\ pc' \in {"call", "count"} => pc' = pc
        /\ pc' = "open" => pc = "open"
        /\ Within' => pc = "open" \/ Within
    BY <1>5, TodoWithin
    DEF Open, Write, WriteFails, ConversionFails, SaveFoot, SaveReturns, Close, Looking,
        vars, Within
  <2> QED  BY <1>0, <2>1, <2>2, <2>3 DEF Counted, Bounds
<1>6. CASE SkipEntry \/ SaveEntry
  <2>1. /\ pc = "write" /\ pos <= N /\ pos' = pos + 1 /\ pc' = pc /\ result' = result
        /\ UNCHANGED <<inputs, playlist, format, atStart, ignored, count>>
    BY <1>6 DEF SkipEntry, SaveEntry, Looking, inputs, N
  <2>2. \A p : Ahead(p)' = Ahead(p)  BY <2>1, CountsStay
  <2>3. ASSUME format = "pls"
        PROVE  Len(kept') + Cardinality(Ahead(pos + 1)) = Len(kept) + Cardinality(Ahead(pos))
    <3>1. Wanted(pos) <=> ~Skipped(playlist[pos])
      BY <2>3 DEF Wanted, Skipped
    <3>2. Len(kept') = Len(kept) + (IF Wanted(pos) THEN 1 ELSE 0)
      <4>1. kept \in Seq(Nat)  BY <1>0 DEF TypeOK
      <4> QED  BY <1>6, <3>1, <4>1 DEF SkipEntry, SaveEntry
    <3>3. Cardinality(Ahead(pos + 1)) \in Nat
      <4>1. pos + 1 \in 1 .. N + 1  BY <1>1, <2>1
      <4> QED  BY <1>2, <4>1
    <3>4. Cardinality(Ahead(pos)) = Cardinality(Ahead(pos + 1))
                                    + (IF Wanted(pos) THEN 1 ELSE 0)
      BY <1>2, <2>1
    <3> QED  BY <1>1, <3>2, <3>3, <3>4
  <2>4. Ahead(pos)' = Ahead(pos + 1)  BY <2>1, <2>2
  <2>5. format = "pls" => Bounds(Len(kept) + Cardinality(Ahead(pos)))
    BY <1>0, <2>1 DEF Counted, Within
  <2>6. format = "pls" => Bounds(Len(kept) + Cardinality(Ahead(pos)))'
    BY <2>1, <2>3, <2>4, <2>5 DEF Bounds
  <2> QED  BY <2>1, <2>6 DEF Counted
<1>7. CASE AddIgnoredScheme
  <2>1. /\ UNCHANGED <<playlist, format, atStart, count, kept, pos, pc, result>>
        /\ ignored \subseteq ignored' /\ ignored' # ignored
    BY <1>7 DEF AddIgnoredScheme, inputs
  <2>2. ignored' # atStart'  BY <1>0, <2>1 DEF TypeOK
  <2>3. /\ Cardinality(Ahead(pos)') \in Nat
        /\ Cardinality(Ahead(pos)') <= Cardinality(Ahead(pos))
        /\ Cardinality(Behind(pos)') \in Nat
        /\ Cardinality(Behind(pos)') <= Cardinality(Behind(pos))
    <3>1. Ahead(pos)' = (Ahead(pos)') /\ pos' = pos  BY <2>1
    <3> QED  BY <1>0, <1>1, <2>1, LessWanted DEF N, Ahead, Behind, Wanted, IsIgnored
  <2>4. Cardinality(Ahead(pos)) \in Nat /\ Cardinality(Behind(pos)) \in Nat
    BY <1>1, <1>2
  <2>5. ASSUME pc = "count" PROVE Bounds(N + 1 - pos + Cardinality(Behind(pos)))'
    <3>1. count >= N + 1 - pos + Cardinality(Behind(pos))
      BY <1>0, <2>5 DEF Counted, Bounds, N
    <3>2. count >= N + 1 - pos + Cardinality(Behind(pos)')
      BY <1>1, <2>3, <2>4, <3>1
    <3> QED  BY <2>1, <2>2, <3>2 DEF Bounds, N
  <2>6. ASSUME format = "pls", pc = "open" \/ Within
        PROVE  Bounds(Len(kept) + Cardinality(Ahead(pos)))'
    <3>1. count >= Len(kept) + Cardinality(Ahead(pos))
      BY <1>0, <2>6 DEF Counted, Bounds
    <3>2. count >= Len(kept) + Cardinality(Ahead(pos)')
      BY <1>1, <2>3, <2>4, <3>1
    <3> QED  BY <2>1, <2>2, <3>2 DEF Bounds
  <2> QED  BY <1>0, <2>1, <2>5, <2>6 DEF Counted, Within, N
<1> QED
  BY <1>3, <1>4, <1>5, <1>6, <1>7 DEF Next, Saver, Terminated

\* What the elements behind iter have gone through.
Accounted(i) ==
  IF playlist[i].uri = Unset THEN ~IsKept(i)
  ELSE /\ (format = "pla" \/ SchemeOf(playlist[i].uri) \notin ignored) => IsKept(i)
       /\ (format # "pla" /\ SchemeOf(playlist[i].uri) \in atStart) => ~IsKept(i)

LEMMA NextKept == IInv /\ [Next]_vars => Kept'
<1> SUFFICES ASSUME IInv, [Next]_vars PROVE Kept'
  OBVIOUS
<1>0. TypeOK /\ Streamed /\ Kept  BY DEF IInv
<1>1. pos \in Nat /\ kept \in Seq(Nat) /\ Len(kept) \in Nat /\ pos >= 1
  BY <1>0 DEF TypeOK
<1>2. /\ \A m, n \in DOMAIN kept : m < n => kept[m] < kept[n]
      /\ \A n \in DOMAIN kept : kept[n] \in 1 .. pos - 1
      /\ Within => \A i \in 1 .. pos - 1 : Accounted(i)
  BY <1>0 DEF Kept, Accounted
<1>3. CASE Save \/ CountEntry
  <2>1. pc \in {"call", "count"} /\ kept' = kept
        /\ pc' \in {"count", "open", "done"} /\ result' \in {result, "FALSE"}
    BY <1>3 DEF Save, CountEntry
  <2>2. kept = <<>> /\ result = "none"  BY <1>0, <2>1 DEF Streamed, Before
  <2> QED  BY <2>1, <2>2 DEF Kept, Within
<1>4. CASE Open
  <2>1. /\ pos = 1 /\ UNCHANGED <<pos, kept>>
    BY <1>0, <1>4 DEF Open, Streamed
  <2>2. 1 .. pos' - 1 = {}  BY <2>1
  <2> QED  BY <1>2, <2>1, <2>2 DEF Kept
<1>5. CASE Write \/ WriteFails \/ ConversionFails \/ SaveFoot \/ SaveReturns \/ UNCHANGED vars
  <2>1. UNCHANGED <<playlist, format, atStart, ignored, kept, pos>>
    BY <1>5 DEF Write, WriteFails, ConversionFails, SaveFoot, SaveReturns, Close, inputs, vars
  <2>2. Within' => Within
    BY <1>5, TodoWithin
    DEF Write, WriteFails, ConversionFails, SaveFoot, SaveReturns, Close, vars, Within
  <2> QED  BY <1>0, <2>1, <2>2 DEF Kept, IsKept
<1>6. CASE SkipEntry
  <2>1. /\ pc = "write" /\ pos' = pos + 1 /\ Skipped(playlist[pos])
        /\ UNCHANGED <<playlist, format, atStart, ignored, kept>>
    BY <1>6 DEF SkipEntry, Looking, inputs
  <2>2. \A i : Accounted(i)' <=> Accounted(i)  BY <2>1 DEF Accounted, IsKept
  <2>3. Accounted(pos)
    <3>1. ~IsKept(pos)  BY <1>1, <1>2 DEF IsKept
    <3> QED  BY <2>1, <3>1 DEF Accounted, Skipped, IsIgnored
  <2>4. \A i \in 1 .. pos' - 1 : i \in 1 .. pos - 1 \/ i = pos  BY <1>1, <2>1
  <2>5. \A i \in 1 .. pos' - 1 : Accounted(i)'  BY <1>2, <2>1, <2>2, <2>3, <2>4 DEF Within
  <2>6. \A n \in DOMAIN kept : kept[n] \in 1 .. pos' - 1  BY <1>1, <1>2, <2>1
  <2> QED  BY <1>2, <2>1, <2>5, <2>6 DEF Kept, Accounted
<1>7. CASE SaveEntry
  <2>1. /\ pc = "write" /\ pos' = pos + 1 /\ ~Skipped(playlist[pos]) /\ kept' = Append(kept, pos)
        /\ UNCHANGED <<playlist, format, atStart, ignored>>
    BY <1>7 DEF SaveEntry, Looking, inputs
  <2> DEFINE l == Len(kept)
  <2>2. /\ DOMAIN kept = 1 .. l /\ DOMAIN kept' = 1 .. l + 1 /\ kept'[l + 1] = pos
        /\ \A n \in 1 .. l : kept'[n] = kept[n]
    BY <1>1, <2>1
  <2>3. l \in Nat  BY <1>1
  <2> HIDE DEF l
  <2>4. \A n \in DOMAIN kept' : n \in DOMAIN kept \/ n = l + 1  BY <2>2, <2>3
  <2>5. \A n \in DOMAIN kept' : kept'[n] \in 1 .. pos' - 1
    <3>1. \A n \in DOMAIN kept : kept'[n] \in 1 .. pos - 1  BY <1>2, <2>2
    <3>2. kept'[l + 1] = pos  BY <2>2
    <3> QED  BY <1>1, <2>1, <2>4, <3>1, <3>2
  <2>6. \A m, n \in DOMAIN kept' : m < n => kept'[m] < kept'[n]
    <3> SUFFICES ASSUME NEW m \in DOMAIN kept', NEW n \in DOMAIN kept', m < n
                 PROVE  kept'[m] < kept'[n]
      OBVIOUS
    <3>1. m \in DOMAIN kept  BY <2>2, <2>3
    <3>2. CASE n \in DOMAIN kept  BY <1>2, <2>2, <3>1, <3>2
    <3>3. CASE n = l + 1
      <4>1. kept[m] \in 1 .. pos - 1 /\ kept'[m] = kept[m]  BY <1>2, <2>2, <3>1
      <4> QED  BY <1>1, <2>2, <3>3, <4>1
    <3> QED  BY <2>4, <3>2, <3>3
  <2>7. \A i \in 1 .. pos - 1 : IsKept(i)' <=> IsKept(i)
    <3> SUFFICES ASSUME NEW i \in 1 .. pos - 1 PROVE IsKept(i)' <=> IsKept(i)
      OBVIOUS
    <3>1. i # pos  BY <1>1
    <3>2. \A n \in DOMAIN kept : n \in DOMAIN kept' /\ kept'[n] = kept[n]  BY <2>2, <2>3
    <3> QED  BY <2>2, <2>4, <3>1, <3>2 DEF IsKept
  <2>8. \A i \in 1 .. pos - 1 : Accounted(i)'
    BY <1>2, <2>1, <2>7 DEF Within, Accounted
  <2>9. \A i : i = pos => Accounted(i)'
    <3> DEFINE e == playlist[pos]
    <3>1. e.uri # Unset /\ ~(format # "pla" /\ SchemeOf(e.uri) \in ignored)
      BY <2>1 DEF Skipped, IsIgnored
    <3>2. \E n \in DOMAIN kept' : kept'[n] = pos  BY <2>2, <2>3
    <3>3. atStart \subseteq ignored  BY <1>0 DEF TypeOK
    <3>4. /\ (format = "pla" \/ SchemeOf(e.uri) \notin ignored)
               => \E n \in DOMAIN kept' : kept'[n] = pos
          /\ ~(format # "pla" /\ SchemeOf(e.uri) \in atStart)
      BY <3>1, <3>2, <3>3
    <3>5. ASSUME NEW i, i = pos PROVE Accounted(i)'
      BY <2>1, <3>1, <3>4, <3>5 DEF Accounted, IsKept
    <3> QED  BY <3>5
  <2>10. \A i \in 1 .. pos' - 1 : i \in 1 .. pos - 1 \/ i = pos  BY <1>1, <2>1
  <2>11. \A i \in 1 .. pos' - 1 : Accounted(i)'  BY <2>8, <2>9, <2>10
  <2> QED  BY <2>5, <2>6, <2>11 DEF Kept, Accounted
<1>8. CASE AddIgnoredScheme
  <2>1. /\ UNCHANGED <<playlist, format, atStart, kept, pos, pc, result>>
        /\ ignored \subseteq ignored'
    BY <1>8 DEF AddIgnoredScheme, inputs
  <2>2. \A i : Accounted(i) => Accounted(i)'  BY <2>1 DEF Accounted, IsKept
  <2> QED  BY <1>2, <2>1, <2>2 DEF Kept, Within, Accounted
<1> QED
  BY <1>3, <1>4, <1>5, <1>6, <1>7, <1>8 DEF Next, Saver, Terminated

LEMMA Inductive == Spec => []IInv
<1>1. IInv /\ [Next]_vars => IInv'
  BY NextTypeOK, NextStreamed, NextHeld, NextCounted, NextKept DEF IInv
<1> QED  BY InitIInv, <1>1, PTL DEF Spec

-----------------------------------------------------------------------------
\* The position, the counts, the lines and the result of a save have their
\* types; in particular, the number of entries announced is never negative.
THEOREM TypeCorrect == Spec => []TypeOK
<1>1. IInv => TypeOK  BY DEF IInv
<1> QED  BY Inductive, <1>1, PTL

\* The file that idol_pl_parser_save claims to have written is whole, whatever
\* is ignored in the meantime; what a failure leaves behind is the old file or a
\* beginning of the new one; and NumberOfEntries is what save_pls writes, unless
\* a scheme was ignored after idol_pl_parser_num_entries had looked.
THEOREM FileWellFormed == Spec => []WellFormed
<1>1. IInv => WellFormed
  <2> SUFFICES ASSUME IInv PROVE WellFormed
    OBVIOUS
  <2>0. TypeOK /\ Streamed /\ Counted  BY DEF IInv
  <2>1. Written(format, playlist, titled, count, kept) = Begun \o FootLines(format)
    <3> DEFINE h == HeadLines(format, titled, count)
               f == FootLines(format)
    <3>1. h \in Seq(Line) /\ f \in Seq(Line)
      <4>1. format \in Format /\ titled \in BOOLEAN /\ count \in Nat  BY <2>0 DEF TypeOK
      <4> QED  BY <4>1, Lines
    <3>2. Body \in Seq(Line)  BY <2>0, PiecesTyped, FlattenTyped
    <3>3. Written(format, playlist, titled, count, kept) \in {h \o Body \o f}
      BY DEF Written, Body
    <3> QED  BY <3>3 DEF Begun
  <2>2. result = "TRUE" => out = Begun \o FootLines(format)  BY <2>0 DEF Streamed
  <2>3. dest # Old => dest = out /\ IsPrefix(out, Begun \o FootLines(format))
    <3>1. pc # "done" => dest = Old  BY <2>0 DEF Streamed
    <3>2. pc = "done" => dest \in {Old, out} /\ IsPrefix(out, Begun \o FootLines(format))
      BY <2>0 DEF Streamed
    <3> QED  BY <3>1, <3>2
  <2>4. ASSUME format = "pls", result = "TRUE"
        PROVE  Len(kept) <= count /\ (ignored = atStart => Len(kept) = count)
    <3>1. pos = Len(playlist) + 1 /\ Within  BY <2>0, <2>4 DEF Streamed, Within
    <3>2. Bounds(Len(kept) + Cardinality(Ahead(pos)))  BY <2>0, <2>4, <3>1 DEF Counted
    <3>3. Ahead(pos) = {}
      <4>1. Len(playlist) \in Nat  BY <2>0 DEF TypeOK
      <4>2. pos .. Len(playlist) = {}  BY <3>1, <4>1
      <4> QED  BY <4>2 DEF Ahead
    <3>4. Cardinality(Ahead(pos)) = 0  BY <3>3, FS_EmptySet
    <3>5. Len(kept) \in Nat /\ count \in Nat  BY <2>0 DEF TypeOK
    <3> QED  BY <3>2, <3>4, <3>5 DEF Bounds
  <2> QED  BY <2>1, <2>2, <2>3, <2>4 DEF WellFormed
<1> QED  BY Inductive, <1>1, PTL

\* A save that claims success has left out only elements without a URI and
\* those whose scheme was ignored, and has kept the order of the playlist.
THEOREM NothingIsLost == Spec => []NothingLost
<1>1. IInv => NothingLost
  <2> SUFFICES ASSUME IInv, result = "TRUE" PROVE NothingLost
    BY DEF NothingLost
  <2>0. TypeOK /\ Streamed /\ Kept /\ Within  BY DEF IInv, Within
  <2>1. DOMAIN playlist = 1 .. pos - 1
    <3>1. pos = Len(playlist) + 1 /\ Len(playlist) \in Nat
          /\ DOMAIN playlist = 1 .. Len(playlist)
      BY <2>0 DEF Streamed, TypeOK
    <3> QED  BY <3>1
  <2> QED  BY <2>0, <2>1 DEF Kept, IsKept, NothingLost
<1> QED  BY Inductive, <1>1, PTL

\* Whichever way a saver returns, the GFileOutputStream has lost its reference;
\* only save_pla and save_xspf can drop it once too often.
THEOREM StreamDropped == Spec => []StreamReleased
<1>1. IInv => StreamReleased  BY DEF IInv, Held, Singles, StreamReleased
<1> QED  BY Inductive, <1>1, PTL

=============================================================================
