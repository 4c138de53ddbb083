-------------------------- MODULE PlPlaylistProofs --------------------------
(***************************************************************************)
(* Proofs about PlPlaylist, for any number of playlists, iterators and     *)
(* nodes and any positions: an iterator points where it says it does, a    *)
(* node is in one place, a walk misses nothing, elements keep their data.  *)
(***************************************************************************)
EXTENDS PlPlaylist, SequenceTheorems, TLAPS

-----------------------------------------------------------------------------
(***************************************************************************)
(* Lists without repetitions, and what inserting a node does to them.      *)
(***************************************************************************)
Distinct(s) == \A a, b \in DOMAIN s : s[a] = s[b] => a = b

\* list is s with n inserted before what was at position k, or at its end.
Inserted(s, n, list, k) ==
  /\ list \in Seq(Node) /\ Len(list) = Len(s) + 1
  /\ list[k] = n
  /\ \A j \in 1 .. Len(s) : list[IF j < k THEN j ELSE j + 1] = s[j]

LEMMA Lists ==
  ASSUME NEW s \in Seq(Node)
  PROVE  /\ Len(s) \in Nat /\ DOMAIN s = 1 .. Len(s)
         /\ \A i \in 1 .. Len(s) : s[i] \in Node
         /\ Elements(s) \subseteq Node
         /\ s # <<>> => Len(s) > 0
<1>1. Len(s) \in Nat /\ DOMAIN s = 1 .. Len(s)  BY LenProperties
<1>2. \A i \in 1 .. Len(s) : s[i] \in Node  BY ElementOfSeq
<1>3. s # <<>> => Len(s) > 0  BY EmptySeq
<1> QED  BY <1>1, <1>2, <1>3 DEF Elements

LEMMA PrependInserts ==
  ASSUME NEW s \in Seq(Node), NEW n \in Node
  PROVE  Inserted(s, n, <<n>> \o s, 1)
<1>1. Len(s) \in Nat  BY Lists
<1>2. <<n>> \in Seq(Node) /\ Len(<<n>>) = 1 /\ <<n>>[1] = n  OBVIOUS
<1>3. /\ <<n>> \o s \in Seq(Node) /\ Len(<<n>> \o s) = 1 + Len(s)
      /\ \A i \in 1 .. 1 + Len(s) : (<<n>> \o s)[i] = IF i <= 1 THEN <<n>>[i] ELSE s[i - 1]
  BY <1>2, ConcatProperties
<1> DEFINE list == <<n>> \o s
<1> HIDE DEF list
<1>4. list[1] = n  BY <1>1, <1>2, <1>3 DEF list
<1>5. \A j \in 1 .. Len(s) : list[j + 1] = s[j]
  <2> SUFFICES ASSUME NEW j \in 1 .. Len(s) PROVE list[j + 1] = s[j]  OBVIOUS
  <2>1. j + 1 \in 1 .. 1 + Len(s) /\ ~(j + 1 <= 1) /\ (j + 1) - 1 = j  BY <1>1
  <2> QED  BY <1>3, <2>1 DEF list
<1>6. list \in Seq(Node) /\ Len(list) = Len(s) + 1  BY <1>1, <1>3 DEF list
<1> QED  BY <1>1, <1>4, <1>5, <1>6 DEF Inserted, list

LEMMA AppendInserts ==
  ASSUME NEW s \in Seq(Node), NEW n \in Node
  PROVE  Inserted(s, n, Append(s, n), Len(s) + 1)
<1>1. Len(s) \in Nat  BY Lists
<1>2. /\ Append(s, n) \in Seq(Node) /\ Len(Append(s, n)) = Len(s) + 1
      /\ \A i \in 1 .. Len(s) : Append(s, n)[i] = s[i]
      /\ Append(s, n)[Len(s) + 1] = n
  BY AppendProperties
<1>3. \A j \in 1 .. Len(s) : j < Len(s) + 1  BY <1>1
<1> QED  BY <1>2, <1>3 DEF Inserted

LEMMA GListInserts ==
  ASSUME NEW s \in Seq(Node), NEW n \in Node, NEW position \in Position
  PROVE  \E k \in 1 .. Len(s) + 1 : Inserted(s, n, GListInsert(s, n, position), k)
<1>1. Len(s) \in Nat /\ position \in Int /\ \A i \in 1 .. Len(s) : s[i] \in Node
  BY Lists, PositionAssumption
<1>2. CASE position < 0 \/ position >= Len(s)
  <2>1. Len(s) + 1 \in 1 .. Len(s) + 1  BY <1>1
  <2> QED  BY <1>2, <2>1, AppendInserts DEF GListInsert
<1>3. CASE ~(position < 0 \/ position >= Len(s))
  <2> DEFINE a == SubSeq(s, 1, position)
             b == SubSeq(s, position + 1, Len(s))
             c == <<n>> \o b
             list == a \o c
  <2>1. position \in Nat /\ position + 1 \in 1 .. Len(s)  BY <1>1, <1>3
  <2>2. /\ a \in Seq(Node) /\ Len(a) = position
        /\ \A i \in 1 .. position : a[i] = s[i]
    <3>1. \A i \in 1 .. position : s[i] \in Node  BY <1>1, <2>1
    <3>2. /\ a \in Seq(Node)
          /\ Len(a) = IF 1 <= position THEN position - 1 + 1 ELSE 0
          /\ \A i \in 1 .. position - 1 + 1 : a[i] = s[1 + i - 1]
      BY <1>1, <3>1, SubSeqProperties
    <3> QED  BY <1>1, <2>1, <3>2
  <2>3. /\ b \in Seq(Node) /\ Len(b) = Len(s) - position
        /\ \A i \in 1 .. Len(s) - position : b[i] = s[position + i]
    <3>1. \A i \in position + 1 .. Len(s) : s[i] \in Node  BY <1>1, <2>1
    <3>2. /\ b \in Seq(Node)
          /\ Len(b) = IF position + 1 <= Len(s) THEN Len(s) - (position + 1) + 1 ELSE 0
          /\ \A i \in 1 .. Len(s) - (position + 1) + 1 : b[i] = s[(position + 1) + i - 1]
      BY <1>1, <2>1, <3>1, SubSeqProperties
    <3> QED  BY <1>1, <2>1, <3>2
  <2> HIDE DEF a, b
  <2>4. /\ c \in Seq(Node) /\ Len(c) = Len(b) + 1 /\ c[1] = n
        /\ \A j \in 1 .. Len(b) : c[j + 1] = b[j]
    <3>1. Inserted(b, n, c, 1)  BY <2>3, PrependInserts
    <3>2. \A j \in 1 .. Len(b) : ~(j < 1)  BY <1>1, <2>1, <2>3
    <3> QED  BY <3>1, <3>2 DEF Inserted
  <2> HIDE DEF c
  <2>5. /\ list \in Seq(Node) /\ Len(list) = Len(a) + Len(c)
        /\ \A i \in 1 .. Len(a) + Len(c) : list[i] = IF i <= Len(a) THEN a[i] ELSE c[i - Len(a)]
    BY <2>2, <2>4, ConcatProperties
  <2> HIDE DEF list
  <2>6. Len(list) = Len(s) + 1  BY <1>1, <2>1, <2>2, <2>3, <2>4, <2>5
  <2>7. list[position + 1] = n  BY <1>1, <2>1, <2>2, <2>3, <2>4, <2>5
  <2>8. ASSUME NEW j \in 1 .. Len(s)
        PROVE  list[IF j < position + 1 THEN j ELSE j + 1] = s[j]
    <3>1. CASE j < position + 1
      <4>1. j \in 1 .. position /\ j \in 1 .. Len(a) + Len(c) /\ j <= Len(a)
        BY <1>1, <2>1, <2>2, <2>3, <2>4, <3>1
      <4> QED  BY <2>2, <2>5, <3>1, <4>1
    <3>2. CASE ~(j < position + 1)
      <4>1. /\ j + 1 \in 1 .. Len(a) + Len(c) /\ ~(j + 1 <= Len(a))
            /\ j - position \in 1 .. Len(b) /\ j - position \in 1 .. Len(s) - position
            /\ (j + 1) - Len(a) = (j - position) + 1 /\ position + (j - position) = j
        BY <1>1, <2>1, <2>2, <2>3, <2>4, <3>2
      <4>2. list[j + 1] = c[(j - position) + 1]  BY <2>5, <4>1
      <4>3. c[(j - position) + 1] = b[j - position]  BY <2>4, <4>1
      <4>4. b[j - position] = s[j]  BY <2>3, <4>1
      <4> QED  BY <3>2, <4>2, <4>3, <4>4
    <3> QED  BY <3>1, <3>2
  <2>9. GListInsert(s, n, position) = list
    <3>1. GListInsert(s, n, position) = a \o <<n>> \o b  BY <1>3 DEF GListInsert, a, b
    <3>2. <<n>> \in Seq(Node)  OBVIOUS
    <3>3. a \o <<n>> \o b = a \o (<<n>> \o b)  BY <2>2, <2>3, <3>2, ConcatAssociative
    <3> QED  BY <3>1, <3>3 DEF list, c
  <2>10. Inserted(s, n, list, position + 1)  BY <2>5, <2>6, <2>7, <2>8 DEF Inserted
  <2>11. position + 1 \in 1 .. Len(s) + 1  BY <1>1, <2>1
  <2> QED  BY <2>9, <2>10, <2>11
<1> QED  BY <1>2, <1>3

\* In a list without repetitions a node is where it is.
LEMMA Positions ==
  ASSUME NEW s \in Seq(Node), Distinct(s), NEW a \in 1 .. Len(s)
  PROVE  PositionOf(s, s[a]) = a
<1>1. DOMAIN s = 1 .. Len(s)  BY Lists
<1> QED  BY <1>1 DEF Distinct, PositionOf

LEMMA Located ==
  ASSUME NEW s \in Seq(Node), Distinct(s), NEW x \in Elements(s)
  PROVE  PositionOf(s, x) \in 1 .. Len(s) /\ s[PositionOf(s, x)] = x
<1>1. DOMAIN s = 1 .. Len(s)  BY Lists
<1>2. PICK a \in 1 .. Len(s) : s[a] = x  BY <1>1 DEF Elements
<1> QED  BY <1>2, Positions

\* Inserting a node that is not there keeps the others apart and in order.
LEMMA InsertKeepsOrder ==
  ASSUME NEW s \in Seq(Node), Distinct(s), NEW n \in Node \ Elements(s),
         NEW list, NEW k \in 1 .. Len(s) + 1, Inserted(s, n, list, k)
  PROVE  /\ list \in Seq(Node) /\ list # <<>> /\ Distinct(list)
         /\ Elements(list) = Elements(s) \cup {n}
         /\ \A x, y \in Elements(s) :
              PositionOf(s, x) < PositionOf(s, y) <=> PositionOf(list, x) < PositionOf(list, y)
<1> DEFINE l == Len(s)
           Move(j) == IF j < k THEN j ELSE j + 1
           Back(j) == IF j < k THEN j ELSE j - 1
<1>1. /\ l \in Nat /\ DOMAIN s = 1 .. l
      /\ list \in Seq(Node) /\ Len(list) = l + 1 /\ DOMAIN list = 1 .. l + 1
      /\ list[k] = n /\ \A j \in 1 .. l : list[Move(j)] = s[j]
  BY Lists DEF Inserted
<1>2. list # <<>>  BY <1>1, EmptySeq
<1> HIDE DEF l
<1>3. \A j \in 1 .. l : Move(j) \in 1 .. l + 1 /\ Move(j) # k  BY <1>1
<1>4. \A j \in 1 .. l + 1 : j # k => Back(j) \in 1 .. l /\ Move(Back(j)) = j  BY <1>1
<1>5. \A i, j \in 1 .. l : Move(i) < Move(j) <=> i < j  BY <1>1
<1> HIDE DEF Move, Back
<1>6. \A j \in 1 .. l + 1 : j # k => list[j] = s[Back(j)]  BY <1>1, <1>4
<1>7. \A j \in 1 .. l : s[j] # n  BY <1>1 DEF Elements
<1>8. Elements(list) = Elements(s) \cup {n}
  <2>1. ASSUME NEW j \in 1 .. l + 1 PROVE list[j] \in Elements(s) \cup {n}
    BY <1>1, <1>4, <1>6 DEF Elements
  <2>2. ASSUME NEW j \in 1 .. l PROVE s[j] \in Elements(list)
    BY <1>1, <1>3 DEF Elements
  <2>3. n \in Elements(list)  BY <1>1 DEF Elements, l
  <2> QED  BY <1>1, <2>1, <2>2, <2>3 DEF Elements
<1>9. Distinct(list)
  <2> SUFFICES ASSUME NEW a \in 1 .. l + 1, NEW b \in 1 .. l + 1, list[a] = list[b]
               PROVE  a = b
    BY <1>1 DEF Distinct
  <2>1. CASE a = k \/ b = k  BY <1>1, <1>4, <1>6, <1>7, <2>1
  <2>2. CASE a # k /\ b # k
    <3>1. s[Back(a)] = s[Back(b)] /\ Back(a) \in 1 .. l /\ Back(b) \in 1 .. l
      BY <1>4, <1>6, <2>2
    <3>2. Back(a) = Back(b)  BY <1>1, <3>1 DEF Distinct
    <3> QED  BY <1>4, <2>2, <3>2
  <2> QED  BY <2>1, <2>2
<1>10. ASSUME NEW x \in Elements(s) PROVE PositionOf(list, x) = Move(PositionOf(s, x))
  <2>1. PositionOf(s, x) \in 1 .. l /\ s[PositionOf(s, x)] = x  BY Located DEF l
  <2> DEFINE a == PositionOf(s, x)
  <2> HIDE DEF a
  <2>2. a \in 1 .. l /\ s[a] = x  BY <2>1 DEF a
  <2>3. list[Move(a)] = x /\ Move(a) \in 1 .. Len(list)  BY <1>1, <1>3, <2>2
  <2>4. PositionOf(list, list[Move(a)]) = Move(a)  BY <1>1, <1>9, <2>3, Positions
  <2> QED  BY <2>3, <2>4 DEF a
<1>11. \A x, y \in Elements(s) :
         PositionOf(s, x) < PositionOf(s, y) <=> PositionOf(list, x) < PositionOf(list, y)
  <2> SUFFICES ASSUME NEW x \in Elements(s), NEW y \in Elements(s)
               PROVE  PositionOf(s, x) < PositionOf(s, y)
                        <=> PositionOf(list, x) < PositionOf(list, y)
    OBVIOUS
  <2>1. PositionOf(s, x) \in 1 .. l /\ PositionOf(s, y) \in 1 .. l  BY Located DEF l
  <2> QED  BY <1>5, <1>10, <2>1
<1> QED  BY <1>1, <1>2, <1>8, <1>9, <1>11

-----------------------------------------------------------------------------
(***************************************************************************)
(* Nodes and iterators.                                                    *)
(***************************************************************************)
PInv == TypeOK /\ OnePlace /\ NeverAstray

LEMMA PointersInit == Init => PInv
<1> SUFFICES ASSUME Init PROVE PInv  OBVIOUS
<1>1. \A p \in Playlist : items[p] = <<>> /\ Elements(items[p]) = {}
  BY DEF Init, Elements
<1>2. OnePlace  BY <1>1 DEF OnePlace
<1>3. NeverAstray  BY DEF Init, NeverAstray
<1>4. TypeOK  BY EmptySeq DEF Init, TypeOK, Pointer
<1> QED  BY <1>2, <1>3, <1>4 DEF PInv

\* Every action: a new element somewhere in the list, a move of an iterator, a
\* field of an element, the end of a playlist.
LEMMA NextCases ==
  ASSUME Next, TypeOK
  PROVE  \/ \E p \in Playlist, i \in Iter, n \in Node : \E list :
              \E k \in 1 .. Len(items[p]) + 1 :
                NewElement(p, i, n, list) /\ Inserted(items[p], n, list, k)
         \/ \E p \in Playlist, i \in Iter : IterFirst(p, i) \/ IterNext(p, i) \/ IterPrev(p, i)
         \/ \E p \in Playlist, i \in Iter, k \in Key, v \in Value \cup {Null} : Set(p, i, k, v)
         \/ \E p \in Playlist : Finalize(p)
<1>1. CASE Grow
  <2>1. PICK p \in Playlist, i \in Iter, n \in Node :
          \/ PlaylistPrepend(p, i, n) \/ PlaylistAppend(p, i, n)
          \/ \E position \in Position : PlaylistInsert(p, i, n, position)
    BY <1>1 DEF Grow
  <2>2. items[p] \in Seq(Node) /\ Len(items[p]) \in Nat  BY Lists DEF TypeOK
  <2>3. CASE PlaylistPrepend(p, i, n)
    <3>1. NewElement(p, i, n, <<n>> \o items[p])  BY <2>3 DEF PlaylistPrepend
    <3>2. Inserted(items[p], n, <<n>> \o items[p], 1)  BY <2>2, PrependInserts
    <3>3. 1 \in 1 .. Len(items[p]) + 1  BY <2>2
    <3> QED  BY <3>1, <3>2, <3>3
  <2>4. CASE PlaylistAppend(p, i, n)
    <3>1. NewElement(p, i, n, Append(items[p], n))  BY <2>4 DEF PlaylistAppend
    <3>2. Inserted(items[p], n, Append(items[p], n), Len(items[p]) + 1)  BY <2>2, AppendInserts
    <3>3. Len(items[p]) + 1 \in 1 .. Len(items[p]) + 1  BY <2>2
    <3> QED  BY <3>1, <3>2, <3>3
  <2>5. ASSUME NEW position \in Position, PlaylistInsert(p, i, n, position)
        PROVE  \E list : \E k \in 1 .. Len(items[p]) + 1 :
                 NewElement(p, i, n, list) /\ Inserted(items[p], n, list, k)
    <3>1. NewElement(p, i, n, GListInsert(items[p], n, position))
      BY <2>5 DEF PlaylistInsert
    <3> QED  BY <2>2, <3>1, GListInserts
  <2> QED  BY <2>1, <2>3, <2>4, <2>5
<1>2. CASE Navigate  BY <1>2 DEF Navigate
<1>3. CASE Edit  BY <1>3 DEF Edit
<1>4. CASE \E p \in Playlist : Finalize(p)  BY <1>4
<1> QED  BY <1>1, <1>2, <1>3, <1>4 DEF Next

LEMMA DistinctItems ==
  ASSUME PInv, NEW p \in Playlist
  PROVE  items[p] \in Seq(Node) /\ Distinct(items[p])
BY DEF PInv, TypeOK, OnePlace, Distinct

\* What a new element leaves behind.
LEMMA NewElementGrows ==
  ASSUME PInv, NEW p \in Playlist, NEW i \in Iter, NEW n \in Node, NEW list,
         NEW k \in 1 .. Len(items[p]) + 1,
         NewElement(p, i, n, list), Inserted(items[p], n, list, k)
  PROVE  /\ items'[p] = list /\ \A q \in Playlist : q # p => items'[q] = items[q]
         /\ list \in Seq(Node) /\ list # <<>> /\ Distinct(list)
         /\ n \notin Elements(items[p])
         /\ Elements(list) = Elements(items[p]) \cup {n}
         /\ \A q \in Playlist : n \notin Elements(items[q])
         /\ \A x, y \in Elements(items[p]) :
              PositionOf(items[p], x) < PositionOf(items[p], y)
                <=> PositionOf(list, x) < PositionOf(list, y)
         /\ iters' = [iters EXCEPT ![i] = [data1 |-> p, data2 |-> n]]
<1>1. /\ items' = [items EXCEPT ![p] = list] /\ n \notin Used
      /\ iters' = [iters EXCEPT ![i] = [data1 |-> p, data2 |-> n]]
  BY DEF NewElement, Point
<1>2. \A q \in Playlist : n \notin Elements(items[q])  BY <1>1 DEF Used
<1>3. items'[p] = list /\ \A q \in Playlist : q # p => items'[q] = items[q]
  BY <1>1 DEF PInv, TypeOK
<1>4. items[p] \in Seq(Node) /\ Distinct(items[p])  BY DistinctItems
<1> QED  BY <1>1, <1>2, <1>3, <1>4, InsertKeepsOrder

LEMMA NewElementKeeps ==
  ASSUME PInv, NEW p \in Playlist, NEW i \in Iter, NEW n \in Node, NEW list,
         NEW k \in 1 .. Len(items[p]) + 1,
         NewElement(p, i, n, list), Inserted(items[p], n, list, k)
  PROVE  PInv'
<1>1. /\ items'[p] = list /\ \A q \in Playlist : q # p => items'[q] = items[q]
      /\ list \in Seq(Node) /\ Distinct(list)
      /\ Elements(list) = Elements(items[p]) \cup {n}
      /\ \A q \in Playlist : n \notin Elements(items[q])
      /\ iters' = [iters EXCEPT ![i] = [data1 |-> p, data2 |-> n]]
  BY NewElementGrows
<1>2. TypeOK  BY DEF PInv
<1>3. TypeOK'
  <2>1. items' = [items EXCEPT ![p] = list] /\ data' = [data EXCEPT ![n] = [x \in Key |-> Null]]
        /\ visited' = [visited EXCEPT ![i] = <<>>] /\ due' = [due EXCEPT ![i] = {}]
        /\ alive' = alive
    BY DEF NewElement, StopWalk
  <2>2. iters' \in [Iter -> Pointer]  BY <1>1, <1>2 DEF TypeOK, Pointer
  <2>3. visited' \in [Iter -> Seq(Node)]  BY <1>2, <2>1, EmptySeq DEF TypeOK
  <2> QED  BY <1>1, <1>2, <2>1, <2>2, <2>3 DEF TypeOK
<1>4. OnePlace'
  <2>1. \A q \in Playlist : Distinct(items'[q])  BY <1>1, DistinctItems
  <2>2. \A q, r \in Playlist : q # r => Elements(items'[q]) \cap Elements(items'[r]) = {}
    <3> SUFFICES ASSUME NEW q \in Playlist, NEW r \in Playlist, q # r
                 PROVE  Elements(items'[q]) \cap Elements(items'[r]) = {}
      OBVIOUS
    <3>1. Elements(items[q]) \cap Elements(items[r]) = {}  BY DEF PInv, OnePlace
    <3>2. CASE q = p  BY <1>1, <3>1, <3>2
    <3>3. CASE r = p  BY <1>1, <3>1, <3>3
    <3>4. CASE q # p /\ r # p  BY <1>1, <3>1, <3>4
    <3> QED  BY <3>2, <3>3, <3>4
  <2> QED  BY <2>1, <2>2 DEF OnePlace, Distinct
<1>5. NeverAstray'
  <2> SUFFICES ASSUME NEW j \in Iter, iters'[j].data2 # Null
               PROVE  /\ iters'[j].data1 # Null
                      /\ iters'[j].data2 \in Elements(items'[iters'[j].data1])
    BY DEF NeverAstray
  <2>1. CASE j = i
    <3>1. iters'[j] = [data1 |-> p, data2 |-> n]  BY <1>1, <1>2, <2>1 DEF TypeOK
    <3> QED  BY <1>1, <3>1, NullAssumption
  <2>2. CASE j # i
    <3>1. iters'[j] = iters[j] /\ iters[j] \in Pointer  BY <1>1, <1>2, <2>2 DEF TypeOK
    <3>2. /\ iters[j].data1 # Null /\ iters[j].data1 \in Playlist
          /\ iters[j].data2 \in Elements(items[iters[j].data1])
      BY <3>1 DEF PInv, NeverAstray, Pointer
    <3>3. CASE iters[j].data1 = p  BY <1>1, <3>1, <3>2, <3>3
    <3>4. CASE iters[j].data1 # p  BY <1>1, <3>1, <3>2, <3>4
    <3> QED  BY <3>3, <3>4
  <2> QED  BY <2>1, <2>2
<1> QED  BY <1>3, <1>4, <1>5 DEF PInv

\* An iterator that is pointed to nothing, or to an element of the playlist.
LEMMA PointKeeps ==
  ASSUME PInv, NEW p \in Playlist, NEW i \in Iter, NEW n \in Elements(items[p]) \cup {Null},
         Point(p, i, n), UNCHANGED <<items, data, alive>>,
         visited' \in [Iter -> Seq(Node)], due' \in [Iter -> SUBSET Node]
  PROVE  PInv'
<1>1. TypeOK /\ items[p] \in Seq(Node)  BY DEF PInv, TypeOK
<1>2. n \in Node \cup {Null}  BY <1>1, Lists
<1>3. iters' = [iters EXCEPT ![i] = [data1 |-> p, data2 |-> n]]  BY DEF Point
<1>4. TypeOK'  BY <1>1, <1>2, <1>3 DEF TypeOK, Pointer
<1>5. OnePlace'  BY DEF PInv, OnePlace
<1>6. NeverAstray'
  <2> SUFFICES ASSUME NEW j \in Iter, iters'[j].data2 # Null
               PROVE  /\ iters'[j].data1 # Null
                      /\ iters'[j].data2 \in Elements(items[iters'[j].data1])
    BY DEF NeverAstray
  <2>1. CASE j = i
    <3>1. iters'[j] = [data1 |-> p, data2 |-> n]  BY <1>1, <1>3, <2>1 DEF TypeOK
    <3> QED  BY <3>1, NullAssumption
  <2>2. CASE j # i
    <3>1. iters'[j] = iters[j]  BY <1>1, <1>3, <2>2 DEF TypeOK
    <3> QED  BY <3>1 DEF PInv, NeverAstray
  <2> QED  BY <2>1, <2>2
<1> QED  BY <1>4, <1>5, <1>6 DEF PInv

\* Where the iterators go.
LEMMA FirstMoves ==
  ASSUME PInv, NEW p \in Playlist, NEW i \in Iter, IterFirst(p, i)
  PROVE  LET s == items[p]
         IN  /\ s \in Seq(Node) /\ Len(s) \in Nat \ {0}
             /\ Head(s) = s[1] /\ s[1] \in Elements(s) /\ s[1] \in Node
             /\ Point(p, i, s[1])
             /\ visited' = [visited EXCEPT ![i] = <<s[1]>>]
             /\ due' = [due EXCEPT ![i] = Elements(s)]
             /\ UNCHANGED <<items, data, alive>>
<1>1. items[p] \in Seq(Node) /\ items[p] # <<>>
  BY DistinctItems DEF IterFirst
<1>2. Len(items[p]) \in Nat \ {0} /\ 1 \in DOMAIN items[p] /\ items[p][1] \in Node
  BY <1>1, Lists
<1>3. Head(items[p]) = items[p][1]  BY <1>1
<1>4. items[p][1] \in Elements(items[p])  BY <1>2 DEF Elements
<1> QED  BY <1>1, <1>2, <1>3, <1>4 DEF IterFirst

LEMMA NextMoves ==
  ASSUME PInv, NEW p \in Playlist, NEW i \in Iter, IterNext(p, i)
  PROVE  LET s  == items[p]
             at == PositionOf(s, iters[i].data2)
             n  == IF at = Len(s) THEN Null ELSE s[at + 1]
         IN  /\ s \in Seq(Node) /\ Distinct(s) /\ Len(s) \in Nat
             /\ iters[i].data1 = p
             /\ at \in 1 .. Len(s) /\ s[at] = iters[i].data2
             /\ at # Len(s) => /\ at + 1 \in 1 .. Len(s)
                               /\ n \in Elements(s) /\ n \in Node /\ n # Null
                               /\ PositionOf(s, n) = at + 1
             /\ Point(p, i, n)
             /\ IF visited[i] # <<>> /\ n # Null
                THEN visited' = [visited EXCEPT ![i] = Append(@, n)] ELSE UNCHANGED visited
             /\ UNCHANGED <<items, data, alive, due>>
<1> DEFINE s  == items[p]
           at == PositionOf(s, iters[i].data2)
           n  == IF at = Len(s) THEN Null ELSE s[at + 1]
<1>1. /\ iters[i].data1 = p /\ iters[i].data2 \in Elements(s)
      /\ Point(p, i, n) /\ UNCHANGED <<items, data, alive, due>>
      /\ IF visited[i] # <<>> /\ n # Null
         THEN visited' = [visited EXCEPT ![i] = Append(@, n)] ELSE UNCHANGED visited
  BY DEF IterNext, CheckIter
<1>2. s \in Seq(Node) /\ Distinct(s)  BY DistinctItems
<1>3. Len(s) \in Nat /\ DOMAIN s = 1 .. Len(s) /\ \A j \in 1 .. Len(s) : s[j] \in Node
  BY <1>2, Lists
<1>4. at \in 1 .. Len(s) /\ s[at] = iters[i].data2  BY <1>1, <1>2, Located
<1>5. ASSUME at # Len(s)
      PROVE  /\ at + 1 \in 1 .. Len(s)
             /\ n \in Elements(s) /\ n \in Node /\ n # Null
             /\ PositionOf(s, n) = at + 1
  <2>1. at + 1 \in 1 .. Len(s)  BY <1>3, <1>4, <1>5
  <2>2. n = s[at + 1]  BY <1>5
  <2>3. PositionOf(s, s[at + 1]) = at + 1  BY <1>2, <2>1, Positions
  <2> QED  BY <1>3, <2>1, <2>2, <2>3, NodeAssumption DEF Elements
<1> QED  BY <1>1, <1>2, <1>3, <1>4, <1>5

LEMMA PrevMoves ==
  ASSUME PInv, NEW p \in Playlist, NEW i \in Iter, IterPrev(p, i)
  PROVE  /\ \E n \in Elements(items[p]) \cup {Null} : Point(p, i, n)
         /\ StopWalk(i) /\ UNCHANGED <<items, data, alive>>
<1> DEFINE s  == items[p]
           at == PositionOf(s, iters[i].data2)
<1>1. iters[i].data2 \in Elements(s) /\ Point(p, i, IF at = 1 THEN Null ELSE s[at - 1])
  BY DEF IterPrev, CheckIter
<1>2. s \in Seq(Node) /\ Distinct(s)  BY DistinctItems
<1>3. Len(s) \in Nat /\ DOMAIN s = 1 .. Len(s)  BY <1>2, Lists
<1>4. at \in 1 .. Len(s)  BY <1>1, <1>2, Located
<1>5. at # 1 => at - 1 \in DOMAIN s  BY <1>3, <1>4
<1> QED  BY <1>1, <1>5 DEF IterPrev, Elements

LEMMA PointersNext == PInv /\ [Next]_vars => PInv'
<1> SUFFICES ASSUME PInv, [Next]_vars PROVE PInv'
  OBVIOUS
<1>1. TypeOK  BY DEF PInv
<1>2. CASE UNCHANGED vars
  BY <1>2 DEF vars, history, PInv, TypeOK, OnePlace, NeverAstray
<1>3. ASSUME NEW p \in Playlist, NEW i \in Iter, NEW n \in Node, NEW list,
             NEW k \in 1 .. Len(items[p]) + 1,
             NewElement(p, i, n, list) /\ Inserted(items[p], n, list, k)
      PROVE  PInv'
  BY <1>3, NewElementKeeps
<1>4. ASSUME NEW p \in Playlist, NEW i \in Iter, IterFirst(p, i)  PROVE PInv'
  <2> DEFINE s == items[p]
  <2>1. /\ s \in Seq(Node) /\ s[1] \in Elements(s) /\ s[1] \in Node /\ Point(p, i, s[1])
        /\ visited' = [visited EXCEPT ![i] = <<s[1]>>]
        /\ due' = [due EXCEPT ![i] = Elements(s)]
        /\ UNCHANGED <<items, data, alive>>
    BY <1>4, FirstMoves
  <2>2. <<s[1]>> \in Seq(Node) /\ Elements(s) \subseteq Node  BY <2>1, Lists
  <2>3. visited' \in [Iter -> Seq(Node)] /\ due' \in [Iter -> SUBSET Node]
    BY <1>1, <2>1, <2>2 DEF TypeOK
  <2> QED  BY <2>1, <2>3, PointKeeps
<1>5. ASSUME NEW p \in Playlist, NEW i \in Iter, IterNext(p, i)  PROVE PInv'
  <2> DEFINE s  == items[p]
             at == PositionOf(s, iters[i].data2)
             n  == IF at = Len(s) THEN Null ELSE s[at + 1]
  <2>1. /\ at # Len(s) => n \in Elements(s) /\ n \in Node
        /\ Point(p, i, n) /\ UNCHANGED <<items, data, alive, due>>
        /\ IF visited[i] # <<>> /\ n # Null
           THEN visited' = [visited EXCEPT ![i] = Append(@, n)] ELSE UNCHANGED visited
    BY <1>5, NextMoves
  <2>2. n \in Elements(s) \cup {Null} /\ (n # Null => n \in Node)  BY <2>1
  <2> HIDE DEF n
  <2>3. visited' \in [Iter -> Seq(Node)]
    <3>1. visited \in [Iter -> Seq(Node)]  BY <1>1 DEF TypeOK
    <3>2. CASE visited[i] # <<>> /\ n # Null
      <4>1. Append(visited[i], n) \in Seq(Node)  BY <2>2, <3>1, <3>2, AppendProperties
      <4> QED  BY <2>1, <3>1, <3>2, <4>1
    <3> QED  BY <2>1, <3>1, <3>2
  <2>4. due' \in [Iter -> SUBSET Node]  BY <1>1, <2>1 DEF TypeOK
  <2> QED  BY <2>1, <2>2, <2>3, <2>4, PointKeeps
<1>6. ASSUME NEW p \in Playlist, NEW i \in Iter, IterPrev(p, i)  PROVE PInv'
  <2>1. /\ \E n \in Elements(items[p]) \cup {Null} : Point(p, i, n)
        /\ StopWalk(i) /\ UNCHANGED <<items, data, alive>>
    BY <1>6, PrevMoves
  <2>2. visited' \in [Iter -> Seq(Node)] /\ due' \in [Iter -> SUBSET Node]
    BY <1>1, <2>1, EmptySeq DEF StopWalk, TypeOK
  <2> QED  BY <2>1, <2>2, PointKeeps
<1>7. ASSUME NEW p \in Playlist, NEW i \in Iter, NEW k \in Key, NEW v \in Value \cup {Null},
             Set(p, i, k, v)
      PROVE  PInv'
  <2>1. /\ UNCHANGED <<items, iters, alive, visited, due>>
        /\ data' = [data EXCEPT ![iters[i].data2][k] = v]
    BY <1>7 DEF Set, history
  <2>2. data' \in [Node -> [Key -> Value \cup {Null}]]  BY <1>1, <2>1 DEF TypeOK
  <2>3. TypeOK'  BY <1>1, <2>1, <2>2 DEF TypeOK
  <2> QED  BY <2>1, <2>3 DEF PInv, OnePlace, NeverAstray
<1>8. ASSUME NEW p \in Playlist, Finalize(p)  PROVE PInv'
  <2>1. UNCHANGED <<items, data, iters, visited, due>> /\ alive' = alive \ {p}
    BY <1>8 DEF Finalize, history
  <2>2. TypeOK'  BY <1>1, <2>1 DEF TypeOK
  <2> QED  BY <2>1, <2>2 DEF PInv, OnePlace, NeverAstray
<1> QED
  BY <1>1, <1>2, <1>3, <1>4, <1>5, <1>6, <1>7, <1>8, NextCases

LEMMA PointersHold == Spec => []PInv
BY PointersInit, PointersNext, PTL DEF Spec

\* The variables keep their types: no call ever makes an iterator or a list of
\* anything but playlists and nodes.
THEOREM TypeCorrect == Spec => []TypeOK
<1>1. PInv => TypeOK  BY DEF PInv
<1> QED  BY <1>1, PointersHold, PTL

\* No node is ever in two lists or twice in one, so that check_iter cannot take
\* an iterator for one of another playlist.
THEOREM NodesApart == Spec => []OnePlace
<1>1. PInv => OnePlace  BY DEF PInv
<1> QED  BY <1>1, PointersHold, PTL

\* However the iterators are reused, none ever points into a playlist other than
\* the one it names.
THEOREM IteratorsTrue == Spec => []NeverAstray
<1>1. PInv => NeverAstray  BY DEF PInv
<1> QED  BY <1>1, PointersHold, PTL

-----------------------------------------------------------------------------
\* An element is changed by idol_pl_playlist_set alone, through an iterator that
\* points to it and names its playlist; whatever else happens leaves it as it is.
THEOREM ElementsUndisturbed == Spec => ElementsKeep
<1> DEFINE Keep == \A n \in Used : data'[n] # data[n] =>
                     \E i \in Iter : /\ iters[i].data2 = n
                                     /\ iters[i].data1 \in alive
                                     /\ UNCHANGED <<items, iters>>
<1>1. PInv /\ [Next]_vars => [Keep]_vars
  <2> SUFFICES ASSUME PInv, [Next]_vars PROVE [Keep]_vars
    OBVIOUS
  <2>1. TypeOK /\ Used \subseteq Node
    <3>1. TypeOK  BY DEF PInv
    <3>2. \A p \in Playlist : Elements(items[p]) \subseteq Node  BY Lists DEF PInv, TypeOK
    <3> QED  BY <3>1, <3>2 DEF Used
  <2>2. CASE UNCHANGED vars  BY <2>2
  <2>3. ASSUME NEW p \in Playlist, NEW i \in Iter, NEW n \in Node, NEW list,
               NewElement(p, i, n, list)
        PROVE  Keep
    <3>1. data' = [data EXCEPT ![n] = [k \in Key |-> Null]] /\ n \notin Used
      BY <2>3 DEF NewElement
    <3> QED  BY <2>1, <3>1 DEF TypeOK
  <2>4. ASSUME NEW p \in Playlist, NEW i \in Iter,
               IterFirst(p, i) \/ IterNext(p, i) \/ IterPrev(p, i)
        PROVE  Keep
    BY <2>4 DEF IterFirst, IterNext, IterPrev
  <2>5. ASSUME NEW p \in Playlist, NEW i \in Iter, NEW k \in Key,
               NEW v \in Value \cup {Null}, Set(p, i, k, v)
        PROVE  Keep
    <3>1. /\ data' = [data EXCEPT ![iters[i].data2][k] = v]
          /\ iters[i].data1 = p /\ p \in alive /\ UNCHANGED <<items, iters>>
      BY <2>5 DEF Set, CheckIter
    <3>2. \A n \in Used : n # iters[i].data2 => data'[n] = data[n]
      BY <2>1, <3>1 DEF TypeOK
    <3> QED  BY <3>1, <3>2
  <2>6. ASSUME NEW p \in Playlist, Finalize(p)  PROVE Keep
    BY <2>6 DEF Finalize
  <2> QED  BY <2>1, <2>2, <2>3, <2>4, <2>5, <2>6, NextCases
<1> QED  BY <1>1, PointersHold, PTL DEF Spec, ElementsKeep

-----------------------------------------------------------------------------
(***************************************************************************)
(* Walks.  An insertion moves the elements behind it, so that a walk is    *)
(* described by what lies before what, never by positions.                 *)
(***************************************************************************)
\* The walk of iterator i is in the playlist it names, and ends at its node.
Underway(i) ==
  LET s == items[iters[i].data1]
  IN  /\ iters[i].data1 \in Playlist
      /\ Elements(visited[i]) \subseteq Elements(s) /\ due[i] \subseteq Elements(s)
      /\ iters[i].data2 # Null => visited[i][Len(visited[i])] = iters[i].data2

\* It went forward all the time.
Forward(i) ==
  LET s == items[iters[i].data1]
  IN  \A a, b \in 1 .. Len(visited[i]) :
        a < b => PositionOf(s, visited[i][a]) < PositionOf(s, visited[i][b])

\* What was there and has not been met lies ahead.
NoneSkipped(i) ==
  LET s == items[iters[i].data1]
  IN  \A n \in due[i] \ Elements(visited[i]) :
        iters[i].data2 # Null /\ PositionOf(s, iters[i].data2) < PositionOf(s, n)

WInv == PInv /\ \A i \in Iter : visited[i] # <<>> => Underway(i) /\ Forward(i) /\ NoneSkipped(i)

LEMMA WalkSuffices == WInv => WalkWhole
<1> SUFFICES ASSUME WInv, NEW i \in Iter, visited[i] # <<>>
             PROVE  LET s  == items[iters[i].data1]
                        to == IF iters[i].data2 = Null THEN Len(s)
                              ELSE PositionOf(s, iters[i].data2)
                    IN  /\ Elements(visited[i]) \subseteq Elements(s)
                        /\ \A a, b \in DOMAIN visited[i] : a < b =>
                             PositionOf(s, visited[i][a]) < PositionOf(s, visited[i][b])
                        /\ \A n \in due[i] : PositionOf(s, n) <= to => n \in Elements(visited[i])
  BY DEF WalkWhole
<1> DEFINE s  == items[iters[i].data1]
           to == IF iters[i].data2 = Null THEN Len(s) ELSE PositionOf(s, iters[i].data2)
<1>1. Underway(i) /\ Forward(i) /\ NoneSkipped(i)  BY DEF WInv
<1>2. DOMAIN visited[i] = 1 .. Len(visited[i])  BY Lists DEF WInv, PInv, TypeOK
<1>3. s \in Seq(Node) /\ Distinct(s)  BY <1>1, DistinctItems DEF WInv, Underway
<1>4. ASSUME NEW n \in due[i], PositionOf(s, n) <= to, n \notin Elements(visited[i])
      PROVE  FALSE
  <2>1. iters[i].data2 # Null /\ PositionOf(s, iters[i].data2) < PositionOf(s, n)
    BY <1>1, <1>4 DEF NoneSkipped
  <2>2. PositionOf(s, n) \in 1 .. Len(s)  BY <1>1, <1>3, Located DEF Underway
  <2>3. iters[i].data2 \in Elements(s)  BY <2>1 DEF WInv, PInv, NeverAstray
  <2>4. PositionOf(s, iters[i].data2) \in 1 .. Len(s)  BY <1>3, <2>3, Located
  <2>5. Len(s) \in Nat  BY <1>3, Lists
  <2> QED  BY <1>4, <2>1, <2>2, <2>4, <2>5
<1> QED  BY <1>1, <1>2, <1>4 DEF Underway, Forward

\* An iterator that was pointed elsewhere is not on a walk; the others go on with
\* theirs in a list where the same elements come in the same order.
LEMMA InsertKeepsWalks ==
  ASSUME WInv, PInv', NEW p \in Playlist, NEW i \in Iter, NEW n \in Node, NEW list,
         NEW k \in 1 .. Len(items[p]) + 1,
         NewElement(p, i, n, list), Inserted(items[p], n, list, k)
  PROVE  WInv'
<1>1. PInv /\ TypeOK  BY DEF WInv, PInv
<1>2. /\ items'[p] = list /\ \A q \in Playlist : q # p => items'[q] = items[q]
      /\ Elements(list) = Elements(items[p]) \cup {n}
      /\ \A x, y \in Elements(items[p]) :
           PositionOf(items[p], x) < PositionOf(items[p], y)
             <=> PositionOf(list, x) < PositionOf(list, y)
      /\ iters' = [iters EXCEPT ![i] = [data1 |-> p, data2 |-> n]]
  BY <1>1, NewElementGrows
<1>3. visited' = [visited EXCEPT ![i] = <<>>] /\ due' = [due EXCEPT ![i] = {}]
  BY DEF NewElement, StopWalk
<1>4. ASSUME NEW j \in Iter, visited'[j] # <<>>
      PROVE  (Underway(j) /\ Forward(j) /\ NoneSkipped(j))'
  <2>1. j # i  BY <1>1, <1>3, <1>4 DEF TypeOK
  <2>2. iters'[j] = iters[j] /\ visited'[j] = visited[j] /\ due'[j] = due[j]
    BY <1>1, <1>2, <1>3, <2>1 DEF TypeOK
  <2>3. Underway(j) /\ Forward(j) /\ NoneSkipped(j)  BY <1>4, <2>2 DEF WInv
  <2> DEFINE q == iters[j].data1
             s == items[q]
             t == items'[q]
  <2>4. q \in Playlist  BY <2>3 DEF Underway
  <2>5. /\ Elements(s) \subseteq Elements(t)
        /\ \A x, y \in Elements(s) : PositionOf(s, x) < PositionOf(s, y)
                                       <=> PositionOf(t, x) < PositionOf(t, y)
    <3>1. CASE q = p  BY <1>2, <3>1
    <3>2. CASE q # p  BY <1>2, <2>4, <3>2
    <3> QED  BY <3>1, <3>2
  <2>6. Underway(j)'  BY <2>2, <2>3, <2>5 DEF Underway
  <2>7. \A a \in 1 .. Len(visited[j]) : visited[j][a] \in Elements(s)
    <3>1. DOMAIN visited[j] = 1 .. Len(visited[j])  BY <1>1, Lists DEF TypeOK
    <3>2. \A a \in 1 .. Len(visited[j]) : visited[j][a] \in Elements(visited[j])
      BY <3>1 DEF Elements
    <3> QED  BY <2>3, <3>2 DEF Underway
  <2>8. Forward(j)'
    <3> SUFFICES ASSUME NEW a \in 1 .. Len(visited[j]), NEW b \in 1 .. Len(visited[j]), a < b
                 PROVE  PositionOf(t, visited[j][a]) < PositionOf(t, visited[j][b])
      BY <2>2 DEF Forward
    <3>1. PositionOf(s, visited[j][a]) < PositionOf(s, visited[j][b])
      BY <2>3 DEF Forward
    <3> QED  BY <2>5, <2>7, <3>1
  <2>9. NoneSkipped(j)'
    <3> SUFFICES ASSUME NEW x \in due[j] \ Elements(visited[j])
                 PROVE  /\ iters[j].data2 # Null
                        /\ PositionOf(t, iters[j].data2) < PositionOf(t, x)
      BY <2>2 DEF NoneSkipped
    <3>1. iters[j].data2 # Null /\ PositionOf(s, iters[j].data2) < PositionOf(s, x)
      BY <2>3 DEF NoneSkipped
    <3>2. x \in Elements(s)  BY <2>3 DEF Underway
    <3>3. iters[j].data2 \in Elements(s)  BY <1>1, <3>1 DEF PInv, NeverAstray
    <3> QED  BY <2>5, <3>1, <3>2, <3>3
  <2> QED  BY <2>6, <2>8, <2>9
<1> QED  BY <1>4 DEF WInv

\* One iterator moves, in lists that stay as they are.
LEMMA OthersWalkOn ==
  ASSUME WInv, PInv', items' = items, NEW i \in Iter,
         \A j \in Iter : j # i => /\ iters'[j] = iters[j]
                                  /\ visited'[j] = visited[j] /\ due'[j] = due[j],
         visited'[i] # <<>> => (Underway(i) /\ Forward(i) /\ NoneSkipped(i))'
  PROVE  WInv'
<1> SUFFICES ASSUME NEW j \in Iter, j # i, visited'[j] # <<>>
             PROVE  (Underway(j) /\ Forward(j) /\ NoneSkipped(j))'
  BY DEF WInv
<1>1. iters'[j] = iters[j] /\ visited'[j] = visited[j] /\ due'[j] = due[j]  OBVIOUS
<1>2. Underway(j) /\ Forward(j) /\ NoneSkipped(j)  BY <1>1 DEF WInv
<1> QED  BY <1>1, <1>2 DEF Underway, Forward, NoneSkipped

LEMMA FirstStartsWalk ==
  ASSUME WInv, PInv', NEW p \in Playlist, NEW i \in Iter, IterFirst(p, i)
  PROVE  WInv'
<1> DEFINE s == items[p]
<1>1. /\ s \in Seq(Node) /\ Len(s) \in Nat \ {0} /\ s[1] \in Elements(s) /\ s[1] \in Node
      /\ iters' = [iters EXCEPT ![i] = [data1 |-> p, data2 |-> s[1]]]
      /\ visited' = [visited EXCEPT ![i] = <<s[1]>>]
      /\ due' = [due EXCEPT ![i] = Elements(s)]
      /\ items' = items
  BY FirstMoves DEF WInv, Point
<1>2. TypeOK  BY DEF WInv, PInv
<1>3. /\ iters'[i] = [data1 |-> p, data2 |-> s[1]]
      /\ visited'[i] = <<s[1]>> /\ due'[i] = Elements(s)
      /\ \A j \in Iter : j # i => /\ iters'[j] = iters[j]
                                  /\ visited'[j] = visited[j] /\ due'[j] = due[j]
  BY <1>1, <1>2 DEF TypeOK
<1>4. s \in Seq(Node) /\ Distinct(s)  BY DistinctItems DEF WInv
<1> DEFINE h == s[1]
<1>5. PositionOf(s, h) = 1  BY <1>1, <1>4, Positions
<1> HIDE DEF s, h
<1>6. /\ Len(<<h>>) = 1 /\ <<h>>[1] = h
      /\ Elements(<<h>>) = {h}
  BY DEF Elements
<1>7. Underway(i)'
  <2>1. items'[p] = s /\ h \in Elements(s) /\ s[1] = h  BY <1>1 DEF s, h
  <2>2. iters'[i].data1 = p /\ iters'[i].data2 = h  BY <1>3 DEF h
  <2>3. visited'[i] = <<h>>  BY <1>3 DEF h
  <2>4. due'[i] = Elements(s)  BY <1>3
  <2>5. Elements(visited'[i]) = {h}  BY <2>3, <1>6
  <2>6. visited'[i][Len(visited'[i])] = h  BY <2>3, <1>6
  <2> QED  BY <2>1, <2>2, <2>4, <2>5, <2>6 DEF Underway
<1>8. Forward(i)'
  <2> SUFFICES ASSUME NEW a \in 1 .. 1, NEW b \in 1 .. 1, a < b PROVE FALSE
    BY <1>3, <1>6 DEF Forward, h
  <2> QED  OBVIOUS
<1>9. NoneSkipped(i)'
  <2> SUFFICES ASSUME NEW x \in Elements(s) \ {h}
               PROVE  h # Null /\ PositionOf(s, h) < PositionOf(s, x)
    BY <1>1, <1>3, <1>6 DEF NoneSkipped, s, h
  <2>1. PositionOf(s, x) \in 1 .. Len(s) /\ s[PositionOf(s, x)] = x  BY <1>4, Located
  <2>2. PositionOf(s, x) # 1  BY <2>1 DEF h
  <2>3. h # Null  BY <1>1, NodeAssumption DEF h
  <2> QED  BY <1>1, <1>5, <2>1, <2>2, <2>3
<1> QED  BY <1>1, <1>3, <1>7, <1>8, <1>9, OthersWalkOn

LEMMA NextWalksOn ==
  ASSUME WInv, PInv', NEW p \in Playlist, NEW i \in Iter, IterNext(p, i)
  PROVE  WInv'
<1> DEFINE s  == items[p]
           x  == iters[i].data2
           at == PositionOf(s, x)
           n  == IF at = Len(s) THEN Null ELSE s[at + 1]
           v  == visited[i]
<1>1. /\ s \in Seq(Node) /\ Distinct(s) /\ Len(s) \in Nat
      /\ iters[i].data1 = p
      /\ at \in 1 .. Len(s) /\ s[at] = x
      /\ at # Len(s) => /\ n \in Elements(s) /\ n \in Node /\ n # Null
                        /\ PositionOf(s, n) = at + 1
      /\ iters' = [iters EXCEPT ![i] = [data1 |-> p, data2 |-> n]]
      /\ IF v # <<>> /\ n # Null
         THEN visited' = [visited EXCEPT ![i] = Append(v, n)] ELSE UNCHANGED visited
      /\ UNCHANGED <<items, due>>
  BY NextMoves DEF WInv, Point
<1>2. TypeOK  BY DEF WInv, PInv
<1>3. /\ iters'[i] = [data1 |-> p, data2 |-> n] /\ due'[i] = due[i]
      /\ visited'[i] = IF v # <<>> /\ n # Null THEN Append(v, n) ELSE v
      /\ \A j \in Iter : j # i => /\ iters'[j] = iters[j]
                                  /\ visited'[j] = visited[j] /\ due'[j] = due[j]
  BY <1>1, <1>2 DEF TypeOK
<1>4. at = Len(s) => n = Null  OBVIOUS
<1>5. v \in Seq(Node)  BY <1>2 DEF TypeOK
<1>6. x # Null
  <2>1. x \in Node  BY <1>1, Lists
  <2> QED  BY <2>1, NodeAssumption
<1> HIDE DEF n
<1>7. ASSUME v # <<>>
      PROVE  (Underway(i) /\ Forward(i) /\ NoneSkipped(i))'
  <2>1. Underway(i) /\ Forward(i) /\ NoneSkipped(i)  BY <1>7 DEF WInv
  <2>2. /\ Len(v) \in Nat \ {0} /\ DOMAIN v = 1 .. Len(v)
        /\ Elements(v) \subseteq Elements(s) /\ due[i] \subseteq Elements(s)
        /\ v[Len(v)] = x
    BY <1>1, <1>5, <1>6, <1>7, <2>1, Lists DEF Underway
  <2>3. \A a, b \in 1 .. Len(v) : a < b => PositionOf(s, v[a]) < PositionOf(s, v[b])
    BY <1>1, <2>1 DEF Forward
  <2>4. \A y \in due[i] \ Elements(v) : at < PositionOf(s, y)
    BY <1>1, <2>1 DEF NoneSkipped
  <2>5. \A y \in Elements(s) : PositionOf(s, y) \in 1 .. Len(s) /\ s[PositionOf(s, y)] = y
    BY <1>1, Located
  <2>6. \A a \in 1 .. Len(v) : v[a] \in Elements(s)  BY <2>2 DEF Elements
  <2>7. CASE n = Null
    <3>1. visited'[i] = v /\ iters'[i].data1 = p /\ iters'[i].data2 = Null
      BY <1>3, <2>7
    <3>2. Underway(i)'  BY <1>1, <1>3, <2>2, <3>1 DEF Underway
    <3>3. Forward(i)'  BY <1>1, <2>3, <3>1 DEF Forward
    <3>4. due[i] \ Elements(v) = {}
      <4>1. at = Len(s)  BY <1>1, <2>7
      <4> QED  BY <1>1, <2>2, <2>4, <2>5, <4>1
    <3>5. NoneSkipped(i)'  BY <1>3, <3>1, <3>4 DEF NoneSkipped
    <3> QED  BY <3>2, <3>3, <3>5
  <2>8. CASE n # Null
    <3> DEFINE w == Append(v, n)
               l == Len(v)
    <3>1. n \in Elements(s) /\ n \in Node /\ PositionOf(s, n) = at + 1
      BY <1>1, <1>4, <2>8
    <3>2. /\ w \in Seq(Node) /\ Len(w) = l + 1 /\ w[l + 1] = n
          /\ \A a \in 1 .. l : w[a] = v[a]
      BY <1>5, <3>1, AppendProperties
    <3>3. visited'[i] = w /\ iters'[i].data1 = p /\ iters'[i].data2 = n
      BY <1>3, <1>7, <2>8
    <3>4. DOMAIN w = 1 .. l + 1  BY <3>2, Lists
    <3> HIDE DEF w, l, v
    <3>5. l \in Nat \ {0} /\ DOMAIN v = 1 .. l /\ v[l] = x  BY <2>2 DEF l
    <3>6. Elements(w) = Elements(v) \cup {n}
      <4>1. \A a \in 1 .. l + 1 : a = l + 1 \/ a \in 1 .. l  BY <3>5
      <4>2. l + 1 \in 1 .. l + 1 /\ \A a \in 1 .. l : a \in 1 .. l + 1  BY <3>5
      <4> QED  BY <3>2, <3>4, <3>5, <4>1, <4>2 DEF Elements
    <3>7. Underway(i)'
      <4>1. Elements(w) \subseteq Elements(s)  BY <2>2, <3>1, <3>6
      <4> QED  BY <1>1, <1>3, <2>2, <3>2, <3>3, <4>1 DEF Underway
    <3>8. Forward(i)'
      <4> SUFFICES ASSUME NEW a \in 1 .. l + 1, NEW b \in 1 .. l + 1, a < b
                   PROVE  PositionOf(s, w[a]) < PositionOf(s, w[b])
        BY <1>1, <3>2, <3>3 DEF Forward
      <4>1. a \in 1 .. l  BY <3>5
      <4>2. CASE b \in 1 .. l  BY <2>3, <3>2, <4>1, <4>2 DEF l
      <4>3. CASE b = l + 1
        <5>1. PositionOf(s, w[b]) = at + 1 /\ w[a] = v[a] /\ v[a] \in Elements(s)
          BY <2>6, <3>1, <3>2, <4>1, <4>3 DEF l
        <5>2. PositionOf(s, v[a]) \in 1 .. Len(s)  BY <2>5, <5>1
        <5>3. CASE a = l  BY <1>1, <3>5, <5>1, <5>2, <5>3
        <5>4. CASE a # l
          <6>1. a < l /\ l \in 1 .. l  BY <3>5, <4>1, <5>4
          <6>2. PositionOf(s, v[a]) < at  BY <2>3, <3>5, <4>1, <6>1 DEF l
          <6> QED  BY <1>1, <5>1, <5>2, <6>2
        <5> QED  BY <5>3, <5>4
      <4>4. b \in 1 .. l \/ b = l + 1  BY <3>5
      <4> QED  BY <4>2, <4>3, <4>4
    <3>9. NoneSkipped(i)'
      <4> SUFFICES ASSUME NEW y \in due[i] \ (Elements(v) \cup {n})
                   PROVE  PositionOf(s, n) < PositionOf(s, y)
        BY <1>1, <1>3, <2>8, <3>3, <3>6 DEF NoneSkipped
      <4>1. at < PositionOf(s, y) /\ PositionOf(s, y) \in 1 .. Len(s)
            /\ s[PositionOf(s, y)] = y
        BY <2>2, <2>4, <2>5
      <4>2. PositionOf(s, n) = at + 1 /\ s[PositionOf(s, n)] = n  BY <2>5, <3>1
      <4>3. PositionOf(s, y) # at + 1  BY <4>1, <4>2
      <4> QED  BY <1>1, <4>1, <4>2, <4>3
    <3> QED  BY <3>7, <3>8, <3>9
  <2> QED  BY <2>7, <2>8
<1>8. visited'[i] # <<>> => v # <<>>  BY <1>3
<1> QED  BY <1>1, <1>3, <1>7, <1>8, OthersWalkOn

LEMMA WalksNext == WInv /\ [Next]_vars => WInv'
<1> SUFFICES ASSUME WInv, [Next]_vars PROVE WInv'
  OBVIOUS
<1>1. PInv /\ TypeOK  BY DEF WInv, PInv
<1>2. PInv'  BY <1>1, PointersNext
<1>3. ASSUME UNCHANGED <<items, iters, visited, due>> PROVE WInv'
  <2>1. \A j \in Iter : visited'[j] # <<>> => (Underway(j) /\ Forward(j) /\ NoneSkipped(j))'
    BY <1>3 DEF WInv, Underway, Forward, NoneSkipped
  <2> QED  BY <1>2, <2>1 DEF WInv
<1>4. CASE UNCHANGED vars  BY <1>3, <1>4 DEF vars, history
<1>5. ASSUME NEW p \in Playlist, NEW i \in Iter, NEW n \in Node, NEW list,
             NEW k \in 1 .. Len(items[p]) + 1,
             NewElement(p, i, n, list) /\ Inserted(items[p], n, list, k)
      PROVE  WInv'
  BY <1>2, <1>5, InsertKeepsWalks
<1>6. ASSUME NEW p \in Playlist, NEW i \in Iter,
             IterFirst(p, i) \/ IterNext(p, i)
      PROVE  WInv'
  BY <1>2, <1>6, FirstStartsWalk, NextWalksOn
<1>7. ASSUME NEW p \in Playlist, NEW i \in Iter, IterPrev(p, i)  PROVE WInv'
  <2>1. /\ visited' = [visited EXCEPT ![i] = <<>>] /\ due' = [due EXCEPT ![i] = {}]
        /\ \E n : iters' = [iters EXCEPT ![i] = [data1 |-> p, data2 |-> n]]
        /\ items' = items
    BY <1>1, <1>7, PrevMoves DEF StopWalk, Point
  <2>2. /\ visited'[i] = <<>>
        /\ \A j \in Iter : j # i => /\ iters'[j] = iters[j]
                                    /\ visited'[j] = visited[j] /\ due'[j] = due[j]
    BY <1>1, <2>1 DEF TypeOK
  <2> QED  BY <1>2, <2>1, <2>2, OthersWalkOn
<1>8. CASE \/ \E p \in Playlist, i \in Iter, k \in Key, v \in Value \cup {Null} : Set(p, i, k, v)
           \/ \E p \in Playlist : Finalize(p)
  BY <1>3, <1>8 DEF Set, Finalize, history
<1> QED  BY <1>1, <1>4, <1>5, <1>6, <1>7, <1>8, NextCases

\* A walk with iter_first and iter_next meets the elements there were, each once
\* and in order, whatever is prepended, appended or inserted on the way.
THEOREM WalksWhole == Spec => []WalkWhole
<1>1. Init => WInv
  <2>1. Init => \A i \in Iter : visited[i] = <<>>  BY DEF Init
  <2> QED  BY <2>1, PointersInit DEF WInv
<1> QED  BY <1>1, WalksNext, WalkSuffices, PTL DEF Spec

=============================================================================
