----------------------------- MODULE PlPlaylist -----------------------------
(***************************************************************************)
(* IdolPlPlaylist: the playlists an application builds, and the iterators  *)
(* it walks them with.  An iterator is two bare pointers that the          *)
(* application keeps and reuses as it likes: to the playlist (data1) and   *)
(* to a node of its GList (data2).  Every call checks it before use.       *)
(*                                                                         *)
(* The GList is the sequence of its nodes; the g_list_* functions are      *)
(* modelled by what they do to it.                                         *)
(***************************************************************************)
EXTENDS Integers, Sequences, FiniteSets

CONSTANTS
  Playlist,   \* the playlists
  Iter,       \* the iterators of the application
  Node,       \* the nodes that can be allocated
  Key, Value, \* the fields of an element and their values
  Position,   \* the positions passed to idol_pl_playlist_insert()
  Null        \* NULL

ASSUME NodeAssumption     == IsFiniteSet(Node) /\ Null \notin Node
ASSUME NullAssumption     == Null \notin Value /\ Null \notin Playlist
ASSUME PositionAssumption == Position \subseteq Int

VARIABLES
  items,   \* priv->items of each playlist
  data,    \* the hash table of each element
  iters,   \* data1 and data2 of each iterator
  alive,   \* the playlists that have not been finalized
  visited, \* history: what the walk of each iterator has come past
  due      \* history: the elements there were when that walk began

history == <<visited, due>>
vars == <<items, data, iters, alive, history>>

-----------------------------------------------------------------------------
Elements(s) == {s[i] : i \in DOMAIN s}
PositionOf(s, n) == CHOOSE i \in DOMAIN s : s[i] = n
Used == UNION {Elements(items[p]) : p \in Playlist}

\* g_list_insert: a negative position, or one past the end, appends.
GListInsert(s, n, position) ==
  IF position < 0 \/ position >= Len(s) THEN Append(s, n)
  ELSE SubSeq(s, 1, position) \o <<n>> \o SubSeq(s, position + 1, Len(s))

\* check_iter: the iterator belongs to this playlist and points to a node of it.
CheckIter(p, i) == /\ iters[i].data1 = p
                   /\ iters[i].data2 \in Elements(items[p])

\* Mutant: the node is stored, the playlist is not.
PointKeepsPlaylist(p, i, n) ==
  iters' = [iters EXCEPT ![i] = [data1 |-> IF @.data1 = Null THEN p ELSE @.data1,
                                 data2 |-> n]]

Point(p, i, n) == iters' = [iters EXCEPT ![i] = [data1 |-> p, data2 |-> n]]

\* The walk of an iterator that was pointed somewhere else is over.
StopWalk(i) == /\ visited' = [visited EXCEPT ![i] = <<>>]
               /\ due' = [due EXCEPT ![i] = {}]

\* A new empty element n of playlist p, for iterator i to point to.
NewElement(p, i, n, list) ==
  /\ p \in alive
  /\ n \in Node \ Used
  /\ items' = [items EXCEPT ![p] = list]
  /\ data' = [data EXCEPT ![n] = [k \in Key |-> Null]]
  /\ Point(p, i, n)
  /\ StopWalk(i)
  /\ UNCHANGED alive

PlaylistPrepend(p, i, n) == NewElement(p, i, n, <<n>> \o items[p])
PlaylistAppend(p, i, n)  == NewElement(p, i, n, Append(items[p], n))

\* Mutant: the element is inserted and, to find it again, appended.
PlaylistInsertTwice(p, i, n, position) ==
  NewElement(p, i, n, Append(GListInsert(items[p], n, position), n))

PlaylistInsert(p, i, n, position) ==
  NewElement(p, i, n, GListInsert(items[p], n, position))

\* An empty playlist leaves the iterator as it was.
IterFirst(p, i) ==
  /\ p \in alive
  /\ items[p] # <<>>
  /\ Point(p, i, Head(items[p]))
  /\ visited' = [visited EXCEPT ![i] = <<Head(items[p])>>]
  /\ due' = [due EXCEPT ![i] = Elements(items[p])]
  /\ UNCHANGED <<items, data, alive>>

\* Mutant: an iterator that has run off the end starts over.
IterNextWraps(p, i) ==
  LET s  == items[p]
      at == PositionOf(s, iters[i].data2)
      n  == IF at = Len(s) THEN Head(s) ELSE s[at + 1]
  IN  /\ p \in alive
      /\ CheckIter(p, i)
      /\ Point(p, i, n)
      /\ IF visited[i] # <<>> THEN visited' = [visited EXCEPT ![i] = Append(@, n)]
                              ELSE UNCHANGED visited
      /\ UNCHANGED <<items, data, alive, due>>

\* Past the last element data2 is NULL: the iterator is no good any more.
IterNext(p, i) ==
  LET s  == items[p]
      at == PositionOf(s, iters[i].data2)
      n  == IF at = Len(s) THEN Null ELSE s[at + 1]
  IN  /\ p \in alive
      /\ CheckIter(p, i)
      /\ Point(p, i, n)
      /\ IF visited[i] # <<>> /\ n # Null
         THEN visited' = [visited EXCEPT ![i] = Append(@, n)] ELSE UNCHANGED visited
      /\ UNCHANGED <<items, data, alive, due>>

IterPrev(p, i) ==
  LET s  == items[p]
      at == PositionOf(s, iters[i].data2)
  IN  /\ p \in alive
      /\ CheckIter(p, i)
      /\ Point(p, i, IF at = 1 THEN Null ELSE s[at - 1])
      /\ StopWalk(i)
      /\ UNCHANGED <<items, data, alive>>

\* Mutant: any iterator that points somewhere will do.
SetUnchecked(p, i, k, v) ==
  /\ p \in alive
  /\ iters[i].data2 # Null
  /\ data' = [data EXCEPT ![iters[i].data2][k] = v]
  /\ UNCHANGED <<items, iters, alive, history>>

\* Mutant: the key is stored where the value belongs.
SetStoresKey(p, i, k, v) ==
  /\ p \in alive
  /\ CheckIter(p, i)
  /\ data' = [data EXCEPT ![iters[i].data2][k] = IF v = Null THEN v ELSE k]
  /\ UNCHANGED <<items, iters, alive, history>>

\* idol_pl_playlist_set and set_value: a NULL value is as good as none.
Set(p, i, k, v) ==
  /\ p \in alive
  /\ CheckIter(p, i)
  /\ data' = [data EXCEPT ![iters[i].data2][k] = v]
  /\ UNCHANGED <<items, iters, alive, history>>

\* The application drops its last reference; the iterators dangle.
Finalize(p) ==
  /\ p \in alive
  /\ alive' = alive \ {p}
  /\ UNCHANGED <<items, data, iters, history>>

-----------------------------------------------------------------------------
Init ==
  /\ items = [p \in Playlist |-> <<>>]
  /\ data = [n \in Node |-> [k \in Key |-> Null]]
  /\ iters = [i \in Iter |-> [data1 |-> Null, data2 |-> Null]]
  /\ alive = Playlist
  /\ visited = [i \in Iter |-> <<>>]
  /\ due = [i \in Iter |-> {}]

Grow == \E p \in Playlist, i \in Iter, n \in Node :
          \/ PlaylistPrepend(p, i, n)
          \/ PlaylistAppend(p, i, n)
          \/ \E position \in Position : PlaylistInsert(p, i, n, position)

Navigate == \E p \in Playlist, i \in Iter :
              IterFirst(p, i) \/ IterNext(p, i) \/ IterPrev(p, i)

Edit == \E p \in Playlist, i \in Iter, k \in Key, v \in Value \cup {Null} :
          Set(p, i, k, v)

Next == Grow \/ Navigate \/ Edit \/ \E p \in Playlist : Finalize(p)

Spec == Init /\ [][Next]_vars

-----------------------------------------------------------------------------
(***************************************************************************)
(* What must hold.                                                         *)
(***************************************************************************)
Pointer == [data1 : Playlist \cup {Null}, data2 : Node \cup {Null}]

TypeOK ==
  /\ items \in [Playlist -> Seq(Node)]
  /\ data \in [Node -> [Key -> Value \cup {Null}]]
  /\ iters \in [Iter -> Pointer]
  /\ alive \subseteq Playlist
  /\ visited \in [Iter -> Seq(Node)]
  /\ due \in [Iter -> SUBSET Node]

\* A node is in one place of one playlist, so that check_iter accepts an
\* iterator for at most one playlist and idol_pl_playlist_insert finds the
\* element it inserted and no other.
OnePlace ==
  /\ \A p \in Playlist : \A a, b \in DOMAIN items[p] :
       items[p][a] = items[p][b] => a = b
  /\ \A p, q \in Playlist :
       p # q => Elements(items[p]) \cap Elements(items[q]) = {}

\* An iterator never points into a playlist other than the one it names.
NeverAstray ==
  \A i \in Iter : iters[i].data2 # Null
    => iters[i].data1 # Null /\ iters[i].data2 \in Elements(items[iters[i].data1])

\* A walk with iter_first and iter_next meets the elements in list order and
\* none of them twice, whatever is prepended, appended or inserted on the way,
\* and it has come past every element there was when it began, up to the one it
\* is at; when it is over, past all of them.
WalkWhole ==
  \A i \in Iter : visited[i] # <<>> =>
    LET s  == items[iters[i].data1]
        to == IF iters[i].data2 = Null THEN Len(s) ELSE PositionOf(s, iters[i].data2)
    IN  /\ Elements(visited[i]) \subseteq Elements(s)
        /\ \A a, b \in DOMAIN visited[i] :
             a < b => PositionOf(s, visited[i][a]) < PositionOf(s, visited[i][b])
        /\ \A n \in due[i] : PositionOf(s, n) <= to => n \in Elements(visited[i])

\* An element changes only through an iterator that points to it and names its
\* playlist, which is alive; new elements do not disturb old ones.
ElementsKeep ==
  [][\A n \in Used : data'[n] # data[n] =>
       \E i \in Iter : /\ iters[i].data2 = n
                       /\ iters[i].data1 \in alive
                       /\ UNCHANGED <<items, iters>>]_vars

=============================================================================
