-------------------------- MODULE XmlEntriesProofs --------------------------
(***************************************************************************)
(* Proofs about XmlEntries, for documents of any size and depth: what the  *)
(* loops over the children have put together at any moment is what the     *)
(* elements they have passed say, and what is reported in the end is what  *)
(* the whole document says.                                                *)
(***************************************************************************)
EXTENDS XmlEntries, SequenceTheorems, WellFoundedInduction, TLAPS

(***************************************************************************)
(* Paths and document order.                                               *)
(***************************************************************************)
Path == Seq(Nat \ {0})

LEMMA Appended ==
  ASSUME NEW p \in Path, NEW i \in Nat \ {0}
  PROVE  /\ Append(p, i) \in Path /\ Len(Append(p, i)) = Len(p) + 1 /\ Len(p) \in Nat
         /\ Append(p, i)[Len(p) + 1] = i /\ \A k \in 1 .. Len(p) : Append(p, i)[k] = p[k]
         /\ Last(Append(p, i)) = i /\ Append(p, i) # <<>>
BY DEF Path, Last

LEMMA FrontAppended ==
  ASSUME NEW p \in Path, NEW i \in Nat \ {0}
  PROVE  Front(Append(p, i)) = p
<1> DEFINE q == Append(p, i)
           r == Front(q)
<1>1. q \in Path /\ Len(q) = Len(p) + 1 /\ Len(p) \in Nat /\ \A k \in 1 .. Len(p) : q[k] = p[k]
  BY Appended
<1> HIDE DEF q
<1>2. r = SubSeq(q, 1, Len(p))  BY <1>1 DEF Front
<1>3. r \in Path /\ Len(r) = Len(p) /\ \A k \in 1 .. Len(p) : r[k] = q[k]
  BY <1>1, <1>2 DEF Path
<1> HIDE DEF r
<1>4. r = p  BY <1>1, <1>3, SeqEqual DEF Path
<1> QED  BY <1>4 DEF r, q

LEMMA FrontAndLast ==
  ASSUME NEW p \in Path, p # <<>>
  PROVE  /\ Front(p) \in Path /\ Last(p) \in Nat \ {0} /\ p = Append(Front(p), Last(p))
         /\ Len(Front(p)) = Len(p) - 1 /\ \A k \in 1 .. Len(p) - 1 : Front(p)[k] = p[k]
         /\ Len(p) \in Nat \ {0}
<1> DEFINE f == Front(p)
           l == Last(p)
           q == Append(f, l)
<1>1. Len(p) \in Nat \ {0} /\ l = p[Len(p)] /\ l \in Nat \ {0}  BY DEF Path, Last
<1>2. f \in Path /\ Len(f) = Len(p) - 1 /\ \A k \in 1 .. Len(p) - 1 : f[k] = p[k]
  <2> DEFINE n == Len(p) - 1
  <2>1. n \in Nat /\ n <= Len(p) /\ f = SubSeq(p, 1, n)  BY <1>1 DEF Front
  <2> HIDE DEF n, f
  <2>2. f \in Path /\ Len(f) = n /\ \A k \in 1 .. n : f[k] = p[k]
    BY <1>1, <2>1 DEF Path
  <2> QED  BY <2>2 DEF n
<1> HIDE DEF f, l
<1>3. /\ q \in Path /\ Len(q) = Len(p) /\ q[Len(p)] = p[Len(p)]
      /\ \A k \in 1 .. Len(p) - 1 : q[k] = p[k]
  <2>1. /\ q \in Path /\ Len(q) = Len(f) + 1 /\ q[Len(f) + 1] = l
        /\ \A k \in 1 .. Len(f) : q[k] = f[k]
    BY <1>1, <1>2, Appended
  <2> HIDE DEF q
  <2> QED  BY <1>1, <1>2, <2>1
<1> HIDE DEF q
<1>4. \A k \in 1 .. Len(p) : q[k] = p[k]  BY <1>1, <1>3
<1>5. q = p  BY <1>3, <1>4, SeqEqual DEF Path
<1> QED  BY <1>1, <1>2, <1>5 DEF f, l, q

LEMMA SameAppended ==
  ASSUME NEW p \in Path, NEW q \in Path, NEW i \in Nat \ {0}, NEW j \in Nat \ {0},
         Append(p, i) = Append(q, j)
  PROVE  p = q /\ i = j
<1>1. Front(Append(p, i)) = p /\ Front(Append(q, j)) = q  BY FrontAppended
<1>2. Last(Append(p, i)) = i /\ Last(Append(q, j)) = j  BY Appended
<1> QED  BY <1>1, <1>2

\* q is in p.
Inside(q, p) == Len(p) < Len(q) /\ \A k \in 1 .. Len(p) : p[k] = q[k]

LEMMA StrictPrefix ==
  ASSUME NEW p \in Path, NEW q \in Path
  PROVE  IsStrictPrefix(p, q) <=> Inside(q, p)
<1>1. Len(p) \in Nat /\ Len(q) \in Nat  BY DEF Path
<1>2. CASE Len(p) <= Len(q)
  <2> DEFINE r == SubSeq(p, 1, Len(p))
             s == SubSeq(q, 1, Len(p))
  <2>1. /\ r \in Path /\ Len(r) = Len(p) /\ \A k \in 1 .. Len(p) : r[k] = p[k]
        /\ s \in Path /\ Len(s) = Len(p) /\ \A k \in 1 .. Len(p) : s[k] = q[k]
    BY <1>1, <1>2 DEF Path
  <2>2. IsStrictPrefix(p, q) <=> r = s /\ p # q
    BY <1>2 DEF IsStrictPrefix, IsPrefix
  <2> HIDE DEF r, s
  <2>3. r = s <=> \A k \in 1 .. Len(p) : p[k] = q[k]
    BY <2>1, SeqEqual DEF Path
  <2>4. (\A k \in 1 .. Len(p) : p[k] = q[k]) => (p # q <=> Len(p) < Len(q))
    BY <1>1, <1>2, SeqEqual DEF Path
  <2> QED  BY <2>2, <2>3, <2>4 DEF Inside
<1>3. CASE ~(Len(p) <= Len(q))
  BY <1>1, <1>3 DEF IsStrictPrefix, IsPrefix, Inside
<1> QED  BY <1>2, <1>3

\* p and q part at position n, p to the left.
PartsAt(p, q, n) ==
  /\ n \in 1 .. Len(p) /\ n <= Len(q)
  /\ \A k \in 1 .. n - 1 : p[k] = q[k]
  /\ p[n] < q[n]

LEMMA BeforeIs ==
  ASSUME NEW p \in Path, NEW q \in Path
  PROVE  Before(p, q) <=> Inside(q, p) \/ \E n \in Nat : PartsAt(p, q, n)
<1>1. DOMAIN p \cap DOMAIN q = {n \in 1 .. Len(p) : n <= Len(q)} /\ Len(p) \in Nat
  BY DEF Path
<1> QED  BY <1>1, StrictPrefix DEF Before, PartsAt

LEMMA NotBeforeItself ==
  ASSUME NEW p \in Path
  PROVE  ~Before(p, p)
BY BeforeIs DEF Inside, PartsAt, Path

LEMMA BeforeTransitive ==
  ASSUME NEW p \in Path, NEW q \in Path, NEW r \in Path, Before(p, q), Before(q, r)
  PROVE  Before(p, r)
<1>1. Len(p) \in Nat /\ Len(q) \in Nat /\ Len(r) \in Nat  BY DEF Path
<1>2. /\ \A k \in 1 .. Len(p) : p[k] \in Nat
      /\ \A k \in 1 .. Len(q) : q[k] \in Nat
      /\ \A k \in 1 .. Len(r) : r[k] \in Nat
  BY DEF Path
<1>3. CASE Inside(q, p) /\ Inside(r, q)
  <2>1. Inside(r, p)  BY <1>1, <1>3 DEF Inside
  <2> QED  BY <2>1, BeforeIs
<1>4. ASSUME Inside(q, p), NEW n \in Nat, PartsAt(q, r, n) PROVE Before(p, r)
  <2>1. CASE n <= Len(p)
    <3>1. PartsAt(p, r, n)  BY <1>1, <1>2, <1>4, <2>1 DEF Inside, PartsAt
    <3> QED  BY <3>1, BeforeIs
  <2>2. CASE n > Len(p)
    <3>1. Inside(r, p)  BY <1>1, <1>4, <2>2 DEF Inside, PartsAt
    <3> QED  BY <3>1, BeforeIs
  <2> QED  BY <1>1, <2>1, <2>2
<1>5. ASSUME NEW n \in Nat, PartsAt(p, q, n), Inside(r, q) PROVE Before(p, r)
  <2>1. PartsAt(p, r, n)  BY <1>1, <1>5 DEF Inside, PartsAt
  <2> QED  BY <2>1, BeforeIs
<1>6. ASSUME NEW n \in Nat, PartsAt(p, q, n), NEW m \in Nat, PartsAt(q, r, m)
      PROVE  Before(p, r)
  <2>1. CASE n <= m
    <3>1. PartsAt(p, r, n)  BY <1>1, <1>2, <1>6, <2>1 DEF PartsAt
    <3> QED  BY <3>1, BeforeIs
  <2>2. CASE m < n
    <3>1. PartsAt(p, r, m)  BY <1>1, <1>2, <1>6, <2>2 DEF PartsAt
    <3> QED  BY <3>1, BeforeIs
  <2> QED  BY <2>1, <2>2
<1> QED  BY <1>3, <1>4, <1>5, <1>6, BeforeIs

\* Children of one element come in the order of their numbers.
LEMMA BeforeSibling ==
  ASSUME NEW a \in Path, NEW i \in Nat \ {0}, NEW j \in Nat \ {0}
  PROVE  Before(Append(a, i), Append(a, j)) <=> i < j
<1> DEFINE p == Append(a, i)
           q == Append(a, j)
           n == Len(a) + 1
<1>1. /\ p \in Path /\ Len(p) = n /\ p[n] = i /\ \A k \in 1 .. n - 1 : p[k] = a[k]
      /\ q \in Path /\ Len(q) = n /\ q[n] = j /\ \A k \in 1 .. n - 1 : q[k] = a[k]
      /\ n \in Nat \ {0}
  <2>1. /\ p \in Path /\ Len(p) = Len(a) + 1 /\ p[Len(a) + 1] = i /\ Len(a) \in Nat
        /\ \A k \in 1 .. Len(a) : p[k] = a[k]
    BY Appended
  <2>2. /\ q \in Path /\ Len(q) = Len(a) + 1 /\ q[Len(a) + 1] = j
        /\ \A k \in 1 .. Len(a) : q[k] = a[k]
    BY Appended
  <2>3. n \in Nat \ {0} /\ n - 1 = Len(a)  BY <2>1
  <2> HIDE DEF p, q
  <2> QED  BY <2>1, <2>2, <2>3
<1> HIDE DEF p, q, n
<1>2. ~Inside(q, p)  BY <1>1 DEF Inside
<1>3. i < j => PartsAt(p, q, n)  BY <1>1 DEF PartsAt
<1>4. \A m \in Nat : PartsAt(p, q, m) => i < j
  <2> SUFFICES ASSUME NEW m \in Nat, PartsAt(p, q, m) PROVE i < j
    OBVIOUS
  <2>1. CASE m = n  BY <1>1, <2>1 DEF PartsAt
  <2>2. CASE m # n
    <3>1. m \in 1 .. n - 1  BY <1>1, <2>2 DEF PartsAt
    <3>2. p[m] = q[m] /\ p[m] \in Nat  BY <1>1, <3>1 DEF Path
    <3> QED  BY <3>2 DEF PartsAt
  <2> QED  BY <2>1, <2>2
<1>5. Before(p, q) <=> i < j  BY <1>1, <1>2, <1>3, <1>4, BeforeIs
<1> QED  BY <1>5 DEF p, q

-----------------------------------------------------------------------------
(***************************************************************************)
(* What comes before the next stop of the loops: the next child, the first *)
(* child of the child, or the child behind the parent.                     *)
(***************************************************************************)
\* What is in a, up to its child m and what that holds.
LEMMA BeforeInside ==
  ASSUME NEW a \in Path, NEW m \in Nat \ {0}, NEW x \in Path,
         Inside(x, a), x[Len(a) + 1] <= m
  PROVE  \/ Before(x, Append(a, m)) \/ x = Append(a, m) \/ Inside(x, Append(a, m))
<1> DEFINE q == Append(a, m)
           n == Len(a) + 1
<1>1. /\ q \in Path /\ Len(q) = n /\ q[n] = m /\ \A k \in 1 .. n - 1 : q[k] = a[k]
      /\ n \in Nat \ {0} /\ Len(a) = n - 1 /\ Len(x) \in Nat /\ n <= Len(x) /\ x[n] \in Nat
  BY Appended DEF Inside, Path
<1> HIDE DEF q, n
<1>2. \A k \in 1 .. n - 1 : x[k] = q[k]  BY <1>1 DEF Inside
<1>3. CASE x[n] < m
  <2>1. PartsAt(x, q, n)  BY <1>1, <1>2, <1>3 DEF PartsAt
  <2> QED  BY <1>1, <2>1, BeforeIs DEF q
<1>4. CASE x[n] = m
  <2>1. \A k \in 1 .. n : x[k] = q[k]  BY <1>1, <1>2, <1>4
  <2>2. CASE Len(x) = n  BY <1>1, <2>1, <2>2, SeqEqual DEF q, Path
  <2>3. CASE Len(x) > n
    <3>1. Inside(x, q)  BY <1>1, <2>1, <2>3 DEF Inside
    <3> QED  BY <3>1 DEF q
  <2> QED  BY <1>1, <2>2, <2>3
<1>5. x[n] <= m  BY DEF n
<1> QED  BY <1>1, <1>3, <1>4, <1>5

LEMMA BeforeChild ==
  ASSUME NEW a \in Path, NEW m \in Nat \ {0}, NEW x \in Path, Before(x, Append(a, m))
  PROVE  \/ Before(x, a)
         \/ x = a
         \/ Inside(x, a) /\ x[Len(a) + 1] < m
<1> DEFINE q == Append(a, m)
           n == Len(a) + 1
<1>1. /\ q \in Path /\ Len(q) = n /\ q[n] = m /\ \A k \in 1 .. n - 1 : q[k] = a[k]
      /\ n \in Nat \ {0} /\ Len(a) = n - 1 /\ Len(x) \in Nat
  BY Appended DEF Path
<1> HIDE DEF q, n
<1>2. Before(x, q)  BY DEF q
<1>3. CASE Inside(q, x)
  <2>1. CASE Len(x) = n - 1
    <3>1. \A k \in 1 .. n - 1 : x[k] = a[k]  BY <1>1, <1>3, <2>1 DEF Inside
    <3>2. x = a  BY <1>1, <2>1, <3>1, SeqEqual DEF Path
    <3> QED  BY <3>2
  <2>2. CASE Len(x) < n - 1
    <3>1. Inside(a, x)  BY <1>1, <1>3, <2>2 DEF Inside
    <3>2. Before(x, a)  BY <3>1, BeforeIs
    <3> QED  BY <3>2
  <2> QED  BY <1>1, <1>3, <2>1, <2>2 DEF Inside
<1>4. ASSUME NEW k \in Nat, PartsAt(x, q, k) PROVE Before(x, a) \/ (Inside(x, a) /\ x[n] < m)
  <2>1. CASE k = n
    <3>1. Inside(x, a)  BY <1>1, <1>4, <2>1 DEF Inside, PartsAt
    <3> QED  BY <1>1, <1>4, <2>1, <3>1 DEF PartsAt
  <2>2. CASE k # n
    <3>1. PartsAt(x, a, k)  BY <1>1, <1>4, <2>2 DEF PartsAt
    <3>2. Before(x, a)  BY <1>4, <3>1, BeforeIs
    <3> QED  BY <3>2
  <2> QED  BY <2>1, <2>2
<1> QED  BY <1>1, <1>2, <1>3, <1>4, BeforeIs DEF n

LEMMA ParentBefore ==
  ASSUME NEW a \in Path, NEW m \in Nat \ {0}
  PROVE  Before(a, Append(a, m))
<1>1. Inside(Append(a, m), a)  BY Appended DEF Inside
<1> QED  BY <1>1, Appended, BeforeIs

\* The loop goes on with the next child.
LEMMA BeforeNext ==
  ASSUME NEW a \in Path, NEW i \in Nat \ {0}, NEW x \in Path, Before(x, Append(a, i + 1))
  PROVE  \/ Before(x, Append(a, i)) \/ x = Append(a, i) \/ Inside(x, Append(a, i))
<1>1. Before(a, Append(a, i)) /\ Append(a, i) \in Path  BY ParentBefore, Appended
<1>2. \/ Before(x, a)
      \/ x = a
      \/ Inside(x, a) /\ x[Len(a) + 1] < i + 1
  BY BeforeChild
<1>3. CASE Before(x, a)  BY <1>1, <1>3, BeforeTransitive
<1>4. CASE x = a  BY <1>1, <1>4
<1>5. CASE Inside(x, a) /\ x[Len(a) + 1] < i + 1
  <2>1. x[Len(a) + 1] \in Nat  BY <1>5 DEF Inside, Path
  <2>2. x[Len(a) + 1] <= i  BY <1>5, <2>1
  <2> QED  BY <1>5, <2>2, BeforeInside
<1> QED  BY <1>2, <1>3, <1>4, <1>5

\* The loop over the children of a begins.
LEMMA BeforeFirst ==
  ASSUME NEW a \in Path, NEW x \in Path, Before(x, Append(a, 1))
  PROVE  Before(x, a) \/ x = a
<1>1. Inside(x, a) => x[Len(a) + 1] \in Nat \ {0}  BY DEF Inside, Path
<1> QED  BY <1>1, BeforeChild

\* The loop over the children of a, of which there are n, is over.
LEMMA BeforeBehind ==
  ASSUME NEW b \in Path, NEW i \in Nat \ {0}, NEW n \in Nat, NEW x \in Path,
         Before(x, Append(b, i + 1)),
         Inside(x, Append(b, i)) => x[Len(b) + 2] <= n + 1
  PROVE  LET q == Append(Append(b, i), n + 1)
         IN  Before(x, q) \/ x = q \/ Inside(x, q)
<1> DEFINE a == Append(b, i)
           q == Append(a, n + 1)
<1>1. a \in Path /\ Len(a) = Len(b) + 1 /\ Len(b) \in Nat  BY Appended
<1>2. Before(x, a) \/ x = a \/ Inside(x, a)  BY BeforeNext
<1>3. Inside(x, a) => x[Len(a) + 1] <= n + 1  BY <1>1
<1> HIDE DEF a
<1>4. q \in Path /\ Before(a, q)
  <2>1. n + 1 \in Nat \ {0}  OBVIOUS
  <2> QED  BY <1>1, <2>1, ParentBefore, Appended
<1>5. Inside(x, a) => Before(x, q) \/ x = q \/ Inside(x, q)
  BY <1>1, <1>3, BeforeInside
<1>6. Before(x, q) \/ x = q \/ Inside(x, q)
  BY <1>1, <1>2, <1>4, <1>5, BeforeTransitive
<1> QED  BY <1>6 DEF a

LEMMA NextBehind ==
  ASSUME NEW b \in Path, NEW i \in Nat \ {0}, NEW n \in Nat \ {0}
  PROVE  Before(Append(Append(b, i), n), Append(b, i + 1))
<1> DEFINE a == Append(b, i)
           q == Append(a, n)
           r == Append(b, i + 1)
           k == Len(b) + 1
<1>1. /\ a \in Path /\ Len(a) = k /\ a[k] = i /\ \A j \in 1 .. k - 1 : a[j] = b[j]
      /\ r \in Path /\ Len(r) = k /\ r[k] = i + 1 /\ \A j \in 1 .. k - 1 : r[j] = b[j]
      /\ k \in Nat \ {0}
  <2>1. i + 1 \in Nat \ {0}  OBVIOUS
  <2>2. /\ a \in Path /\ Len(a) = Len(b) + 1 /\ a[Len(b) + 1] = i /\ Len(b) \in Nat
        /\ \A j \in 1 .. Len(b) : a[j] = b[j]
    BY Appended
  <2>3. /\ r \in Path /\ Len(r) = Len(b) + 1 /\ r[Len(b) + 1] = i + 1
        /\ \A j \in 1 .. Len(b) : r[j] = b[j]
    BY <2>1, Appended
  <2>4. k \in Nat \ {0} /\ k - 1 = Len(b)  BY <2>2
  <2> HIDE DEF a, r
  <2> QED  BY <2>2, <2>3, <2>4
<1> HIDE DEF a, r, k
<1>2. q \in Path /\ Len(q) = k + 1 /\ \A j \in 1 .. k : q[j] = a[j]
  <2>1. a \in Path /\ Len(a) = k  BY <1>1
  <2>2. /\ q \in Path /\ Len(q) = Len(a) + 1
        /\ \A j \in 1 .. Len(a) : q[j] = a[j]
    BY <2>1, Appended
  <2> QED  BY <2>1, <2>2
<1> HIDE DEF q
<1>3. PartsAt(q, r, k)  BY <1>1, <1>2 DEF PartsAt
<1>4. Before(q, r)  BY <1>1, <1>2, <1>3, BeforeIs
<1> QED  BY <1>4 DEF q, r, a

-----------------------------------------------------------------------------
\* The first and the last of some children of a.
LEMMA LastSibling ==
  ASSUME NEW a \in Path, NEW K \in SUBSET (Nat \ {0}), NEW m \in K, \A k \in K : k <= m
  PROVE  LastOf({Append(a, k) : k \in K}) = Append(a, m)
<1> DEFINE S == {Append(a, k) : k \in K}
           IsLast(p) == p \in S /\ \A q \in S : p = q \/ Before(q, p)
<1>1. Append(a, m) \in S  OBVIOUS
<1>2. \A k \in K : k = m \/ Before(Append(a, k), Append(a, m))  BY BeforeSibling
<1>3. IsLast(Append(a, m))  BY <1>1, <1>2
<1>4. \A p : IsLast(p) => p = Append(a, m)
  <2> SUFFICES ASSUME NEW k \in K, IsLast(Append(a, k)) PROVE k = m
    OBVIOUS
  <2>1. CASE Append(a, k) = Append(a, m)  BY <2>1, SameAppended
  <2>2. CASE Before(Append(a, m), Append(a, k))  BY <2>2, BeforeSibling
  <2> QED  BY <1>1, <2>1, <2>2
<1>5. LastOf(S) = CHOOSE p : IsLast(p)  BY <1>1 DEF LastOf
<1> HIDE DEF IsLast
<1> QED  BY <1>3, <1>4, <1>5

LEMMA FirstSibling ==
  ASSUME NEW a \in Path, NEW K \in SUBSET (Nat \ {0}), NEW m \in K, \A k \in K : m <= k
  PROVE  FirstOf({Append(a, k) : k \in K}) = Append(a, m)
<1> DEFINE S == {Append(a, k) : k \in K}
           IsFirst(p) == p \in S /\ \A q \in S : p = q \/ Before(p, q)
<1>1. Append(a, m) \in S  OBVIOUS
<1>2. \A k \in K : k = m \/ Before(Append(a, m), Append(a, k))  BY BeforeSibling
<1>3. IsFirst(Append(a, m))  BY <1>1, <1>2
<1>4. \A p : IsFirst(p) => p = Append(a, m)
  <2> SUFFICES ASSUME NEW k \in K, IsFirst(Append(a, k)) PROVE k = m
    OBVIOUS
  <2>1. CASE Append(a, k) = Append(a, m)  BY <2>1, SameAppended
  <2>2. CASE Before(Append(a, k), Append(a, m))  BY <2>2, BeforeSibling
  <2> QED  BY <1>1, <2>1, <2>2
<1>5. FirstOf(S) = CHOOSE p : IsFirst(p)  BY <1>1 DEF FirstOf
<1> HIDE DEF IsFirst
<1> QED  BY <1>3, <1>4, <1>5

LEMMA HasLeast ==
  ASSUME NEW S \in SUBSET Nat, S # {}
  PROVE  \E m \in S : \A k \in S : m <= k
<1> DEFINE R == OpToRel(<, Nat)
<1>1. IsWellFoundedOn(R, Nat)  BY NatLessThanWellFounded, Zenon
<1>2. \A x, y \in Nat : <<x, y>> \in R <=> x < y  BY DEF OpToRel
<1> HIDE DEF R
<1>3. PICK m \in S : \A k \in S : ~(<<k, m>> \in R)
  BY <1>1, WFMin
<1>4. \A k \in S : k \in Nat  OBVIOUS
<1>5. \A k \in S : ~(k < m)  BY <1>2, <1>3, <1>4
<1> QED  BY <1>4, <1>5

LEMMA HasGreatest ==
  ASSUME NEW n \in Nat, NEW S \in SUBSET (1 .. n), S # {}
  PROVE  \E m \in S : \A k \in S : k <= m
<1> DEFINE T == {n - k : k \in S}
<1>1. T \in SUBSET Nat /\ T # {}
  <2>1. \A k \in S : n - k \in Nat  OBVIOUS
  <2>2. PICK k \in S : TRUE  OBVIOUS
  <2>3. n - k \in T  BY <2>2
  <2> QED  BY <2>1, <2>3
<1>2. PICK t \in T : \A k \in T : t <= k
  <2> HIDE DEF T
  <2> QED  BY <1>1, HasLeast
<1>3. PICK m \in S : t = n - m  BY <1>2
<1>4. ASSUME NEW k \in S PROVE k <= m
  <2>1. n - m <= n - k /\ k \in Nat /\ m \in Nat  BY <1>2, <1>3
  <2> QED  BY <2>1
<1> QED  BY <1>4

\* The elements at some of the children of a.
ChildrenOf(a, K) == {Append(a, k) : k \in K}

LEMMA NoneIs ==
  ASSUME NEW a
  PROVE  FirstOf(ChildrenOf(a, {})) = NULL /\ LastOf(ChildrenOf(a, {})) = NULL
BY DEF FirstOf, LastOf, ChildrenOf

LEMMA LastIs ==
  ASSUME NEW a \in Path, NEW n \in Nat, NEW K \in SUBSET (1 .. n), K # {}
  PROVE  \E m \in K : LastOf(ChildrenOf(a, K)) = Append(a, m) /\ \A k \in K : k <= m
<1>1. PICK m \in K : \A k \in K : k <= m  BY HasGreatest
<1>2. K \in SUBSET (Nat \ {0})  OBVIOUS
<1> QED  BY <1>1, <1>2, LastSibling DEF ChildrenOf

LEMMA FirstIs ==
  ASSUME NEW a \in Path, NEW n \in Nat, NEW K \in SUBSET (1 .. n), K # {}
  PROVE  \E m \in K : FirstOf(ChildrenOf(a, K)) = Append(a, m) /\ \A k \in K : m <= k
<1>1. K \in SUBSET Nat /\ K \in SUBSET (Nat \ {0})  OBVIOUS
<1>2. PICK m \in K : \A k \in K : m <= k  BY <1>1, HasLeast
<1> QED  BY <1>1, <1>2, FirstSibling DEF ChildrenOf

\* One more child, behind the others.
LEMMA LastNext ==
  ASSUME NEW a \in Path, NEW n \in Nat \ {0}, NEW K \in SUBSET (1 .. n - 1)
  PROVE  LastOf(ChildrenOf(a, K \cup {n})) = Append(a, n)
<1>1. K \cup {n} \in SUBSET (Nat \ {0}) /\ \A k \in K \cup {n} : k <= n  OBVIOUS
<1> QED  BY <1>1, LastSibling DEF ChildrenOf

LEMMA FirstNext ==
  ASSUME NEW a \in Path, NEW n \in Nat \ {0}, NEW K \in SUBSET (1 .. n - 1)
  PROVE  FirstOf(ChildrenOf(a, K \cup {n}))
           = IF K = {} THEN Append(a, n) ELSE FirstOf(ChildrenOf(a, K))
<1>1. K \cup {n} \in SUBSET (Nat \ {0}) /\ K \in SUBSET (1 .. n)  OBVIOUS
<1>2. CASE K = {}
  <2>1. \A k \in K \cup {n} : n <= k  BY <1>2
  <2> QED  BY <1>1, <1>2, <2>1, FirstSibling DEF ChildrenOf
<1>3. CASE K # {}
  <2>1. PICK m \in K : FirstOf(ChildrenOf(a, K)) = Append(a, m) /\ \A k \in K : m <= k
    BY <1>1, <1>3, FirstIs
  <2>2. \A k \in K \cup {n} : m <= k  BY <2>1
  <2>3. FirstOf(ChildrenOf(a, K \cup {n})) = Append(a, m)
    BY <1>1, <2>2, FirstSibling DEF ChildrenOf
  <2> QED  BY <1>3, <2>1, <2>3
<1> QED  BY <1>2, <1>3

\* Whether there is a first or last one, it is one of them.
LEMMA SomeIs ==
  ASSUME NEW a \in Path, NEW n \in Nat, NEW K \in SUBSET (1 .. n)
  PROVE  /\ LastOf(ChildrenOf(a, K)) = NULL <=> K = {}
         /\ FirstOf(ChildrenOf(a, K)) = NULL <=> K = {}
<1>1. \A k \in K : Append(a, k) # NULL
  <2>1. \A k \in K : k \in Nat \ {0}  OBVIOUS
  <2> QED  BY <2>1, Appended DEF NULL
<1>2. CASE K = {}  BY <1>2, NoneIs
<1>3. CASE K # {}
  <2>1. PICK m \in K : LastOf(ChildrenOf(a, K)) = Append(a, m)  BY <1>3, LastIs
  <2>2. PICK l \in K : FirstOf(ChildrenOf(a, K)) = Append(a, l)  BY <1>3, FirstIs
  <2> QED  BY <1>1, <1>3, <2>1, <2>2
<1> QED  BY <1>2, <1>3

-----------------------------------------------------------------------------
(***************************************************************************)
(* The tree.                                                               *)
(***************************************************************************)
Tree == doc \in Documents

Kids(p) == 1 .. At(p).kids

LEMMA PathsAre ==
  ASSUME Tree
  PROVE  /\ <<>> \in Paths
         /\ \A p \in Paths :
              /\ p \in Path /\ At(p).kids \in Nat
              /\ \A i \in Kids(p) : Append(p, i) \in Paths
              /\ \A n \in 1 .. Len(p) :
                   SubSeq(p, 1, n - 1) \in Paths /\ p[n] <= At(SubSeq(p, 1, n - 1)).kids
<1>1. <<>> \in Paths /\ Paths \subseteq Path
  BY DocumentsAssumption DEF Tree, Paths, Path
<1>2. \A p \in Paths :
        /\ At(p).kids \in Nat
        /\ \A i \in Kids(p) : Append(p, i) \in Paths
        /\ \A n \in 1 .. Len(p) :
             SubSeq(p, 1, n - 1) \in Paths /\ p[n] <= At(SubSeq(p, 1, n - 1)).kids
  BY DocumentsAssumption DEF Tree, Paths, At, Kids
<1> QED  BY <1>1, <1>2

LEMMA PrefixIs ==
  ASSUME NEW p \in Path, NEW n \in 0 .. Len(p)
  PROVE  /\ SubSeq(p, 1, n) \in Path /\ Len(SubSeq(p, 1, n)) = n
         /\ \A k \in 1 .. n : SubSeq(p, 1, n)[k] = p[k]
BY DEF Path

\* An element is in the elements on the way to it.
LEMMA Ancestor ==
  ASSUME Tree, NEW p \in Paths, NEW a \in Path, Inside(p, a)
  PROVE  a \in Paths /\ p[Len(a) + 1] \in Kids(a) /\ a = SubSeq(p, 1, Len(a))
<1> DEFINE n == Len(a) + 1
           s == SubSeq(p, 1, n - 1)
<1>1. p \in Path /\ n \in 1 .. Len(p) /\ n - 1 = Len(a) /\ n - 1 \in 0 .. Len(p)
  BY PathsAre DEF Inside, Path
<1> HIDE DEF n
<1>2. s \in Path /\ Len(s) = n - 1 /\ \A k \in 1 .. n - 1 : s[k] = p[k]
  BY <1>1, PrefixIs
<1>3. s \in Paths /\ p[n] <= At(s).kids  BY <1>1, PathsAre
<1> HIDE DEF s
<1>4. s = a  BY <1>1, <1>2, SeqEqual DEF Inside, Path
<1>5. p[n] \in Nat \ {0}  BY <1>1 DEF Path
<1>6. At(a).kids \in Nat  BY <1>3, <1>4, PathsAre
<1>7. p[n] \in Kids(a)  BY <1>3, <1>4, <1>5, <1>6 DEF Kids
<1>8. n - 1 = Len(a) /\ s = SubSeq(p, 1, Len(a))  BY <1>1 DEF s
<1> QED  BY <1>3, <1>4, <1>7, <1>8 DEF n

LEMMA TreeIs ==
  ASSUME Tree
  PROVE  /\ <<>> \in Paths
         /\ \A p \in Paths :
              /\ p \in Path /\ At(p).kids \in Nat /\ Len(p) \in Nat
              /\ Kids(p) \subseteq Nat \ {0}
              /\ \A i \in Kids(p) : Append(p, i) \in Paths
              /\ p # <<>> => Front(p) \in Paths /\ Last(p) \in Kids(Front(p))
<1>1. ASSUME NEW p \in Paths, p # <<>>
      PROVE  Front(p) \in Paths /\ Last(p) \in Kids(Front(p))
  <2>1. /\ p \in Path /\ Front(p) \in Path /\ Len(Front(p)) = Len(p) - 1 /\ Len(p) \in Nat \ {0}
        /\ \A k \in 1 .. Len(p) - 1 : Front(p)[k] = p[k]
    BY <1>1, PathsAre, FrontAndLast
  <2>2. Inside(p, Front(p))  BY <2>1 DEF Inside
  <2>3. (Len(p) - 1) + 1 = Len(p)  BY <2>1
  <2> QED  BY <2>1, <2>2, <2>3, Ancestor DEF Last
<1>2. \A p \in Paths : Len(p) \in Nat  BY PathsAre DEF Path
<1> QED  BY <1>1, <1>2, PathsAre DEF Kids

LEMMA SiblingsAre ==
  ASSUME Tree, NEW a \in Paths, NEW m \in Kids(a)
  PROVE  Siblings(Append(a, m)) = ChildrenOf(a, Kids(a))
<1>1. a \in Path /\ m \in Nat \ {0}  BY TreeIs
<1>2. Front(Append(a, m)) = a  BY <1>1, FrontAppended
<1>3. ASSUME NEW q \in Paths, q # <<>>, Front(q) = a PROVE \E k \in Kids(a) : q = Append(a, k)
  BY <1>3, TreeIs, FrontAndLast
<1>4. \A k \in Kids(a) : /\ Append(a, k) \in Paths /\ Front(Append(a, k)) = a
                         /\ Append(a, k) # <<>>
  BY <1>1, TreeIs, FrontAppended, Appended
<1> QED  BY <1>2, <1>3, <1>4 DEF Siblings, ChildrenOf

-----------------------------------------------------------------------------
(***************************************************************************)
(* The loops that are under way: one for each element on the way to the    *)
(* innermost, each past the child whose children the next one does.        *)
(***************************************************************************)
Entry == [uri : Path, title : Path, author : Path, size : Path, subtitle : Path]
Frame == [at : Path, next : Nat \ {0}, entry : Entry]
Said == [kind : {"entry", "playlist", "ended"}, entry : Entry]

Typed ==
  /\ Tree /\ title \in Path /\ feed \in Entry
  /\ phase \in {"feed", "items", "done"} /\ retval \in {"error", "success"}
  /\ out \in Seq(Said)

Stacked(c) ==
  /\ c \in Seq(Frame) /\ Len(c) >= 1 /\ c[1].at = <<>>
  /\ \A n \in 1 .. Len(c) : c[n].at \in Paths /\ c[n].next <= At(c[n].at).kids + 1
  /\ \A n \in 1 .. Len(c) - 1 :
       c[n].next - 1 \in Kids(c[n].at) /\ c[n + 1].at = Append(c[n].at, c[n].next - 1)

NodeOf(c) == Append(c[Len(c)].at, c[Len(c)].next)
AllPassed(c) == Len(c) = 1 /\ c[1].next = At(<<>>).kids + 1

LEMMA Rooted ==
  ASSUME NEW i \in Nat \ {0}
  PROVE  Append(<<>>, i) = <<i>> /\ <<>> \in Path /\ <<i>> \in Path /\ Len(<<i>>) = 1 /\ <<i>>[1] = i
BY DEF Path

LEMMA TopIs ==
  ASSUME Tree, NEW c, Stacked(c), NEW n \in 1 .. Len(c)
  PROVE  /\ Len(c) \in Nat \ {0} /\ c[n] \in Frame /\ c[n].at \in Paths /\ c[n].at \in Path
         /\ c[n] = [at |-> c[n].at, next |-> c[n].next, entry |-> c[n].entry]
         /\ c[n].next \in Nat \ {0} /\ c[n].entry \in Entry /\ At(c[n].at).kids \in Nat
         /\ c[n].next \in Kids(c[n].at) <=> ~(c[n].next > At(c[n].at).kids)
         /\ c[n].next > At(c[n].at).kids => c[n].next = At(c[n].at).kids + 1
         /\ Append(c[n].at, c[n].next) \in Path
         /\ c[n].next \in Kids(c[n].at) => Append(c[n].at, c[n].next) \in Paths
<1>1. Len(c) \in Nat \ {0} /\ c[n] \in Frame  BY DEF Stacked
<1>2. /\ c[n].next \in Nat \ {0} /\ c[n].entry \in Entry
      /\ c[n] = [at |-> c[n].at, next |-> c[n].next, entry |-> c[n].entry]
  BY <1>1 DEF Frame
<1>3. c[n].at \in Paths /\ c[n].next <= At(c[n].at).kids + 1  BY DEF Stacked
<1>4. c[n].at \in Path /\ At(c[n].at).kids \in Nat  BY <1>3, TreeIs
<1>5. Append(c[n].at, c[n].next) \in Path  BY <1>2, <1>4, Appended
<1>6. c[n].next \in Kids(c[n].at) => Append(c[n].at, c[n].next) \in Paths  BY <1>3, TreeIs
<1> QED  BY <1>1, <1>2, <1>3, <1>4, <1>5, <1>6 DEF Kids

LEMMA FrameUpdated ==
  ASSUME NEW f \in Frame, NEW e
  PROVE  /\ [f EXCEPT !.next = @ + 1, !.entry = e]
               = [at |-> f.at, next |-> f.next + 1, entry |-> e]
         /\ [f EXCEPT !.next = @ + 1] = [at |-> f.at, next |-> f.next + 1, entry |-> f.entry]
<1> DEFINE g == [at |-> f.at, next |-> f.next + 1, entry |-> f.entry]
<1>1. [f EXCEPT !.next = @ + 1] = g  BY DEF Frame
<1>2. [g EXCEPT !.entry = e] = [at |-> f.at, next |-> f.next + 1, entry |-> e]  OBVIOUS
<1> HIDE DEF g
<1>3. [f EXCEPT !.next = @ + 1, !.entry = e] = [g EXCEPT !.entry = e]  BY <1>1, Zenon
<1> QED  BY <1>1, <1>2, <1>3 DEF g

LEMMA FrameReplaced ==
  ASSUME NEW c \in Seq(Frame), NEW g \in Frame, NEW l \in 1 .. Len(c)
  PROVE  LET d == [c EXCEPT ![l] = g]
         IN  /\ d \in Seq(Frame) /\ Len(d) = Len(c) /\ d[l] = g
             /\ \A n \in 1 .. Len(c) : n # l => d[n] = c[n]
OBVIOUS

LEMMA FrameAppended ==
  ASSUME NEW c \in Seq(Frame), NEW g \in Frame
  PROVE  LET d == Append(c, g)
         IN  /\ d \in Seq(Frame) /\ Len(d) = Len(c) + 1 /\ d[Len(c) + 1] = g
             /\ \A n \in 1 .. Len(c) : d[n] = c[n]
OBVIOUS

Advanced(c, e) == [c EXCEPT ![Len(c)] = [c[Len(c)] EXCEPT !.next = @ + 1, !.entry = e]]

LEMMA CollectIs ==
  ASSUME Tree, NEW c, Stacked(c), NEW e \in Entry, c[Len(c)].next \in Kids(c[Len(c)].at),
         NEW d, d = Advanced(c, e)
  PROVE  /\ Stacked(d) /\ Len(d) = Len(c)
         /\ \A n \in 1 .. Len(c) - 1 : d[n] = c[n]
         /\ d[Len(c)] = [at |-> c[Len(c)].at, next |-> c[Len(c)].next + 1, entry |-> e]
<1> DEFINE l == Len(c)
           f == c[l]
           g == [at |-> f.at, next |-> f.next + 1, entry |-> e]
<1>1. /\ l \in Nat \ {0} /\ l \in 1 .. l /\ f \in Frame
      /\ f = [at |-> f.at, next |-> f.next, entry |-> f.entry]
      /\ f.at \in Paths /\ f.at \in Path /\ f.next \in Nat \ {0} /\ At(f.at).kids \in Nat
  <2>1. l \in Nat /\ l >= 1  BY DEF Stacked
  <2>2. l \in 1 .. l  BY <2>1
  <2> QED  BY <2>1, <2>2, TopIs
<1>2. [f EXCEPT !.next = @ + 1, !.entry = e] = g  BY <1>1, FrameUpdated
<1>3. d = [c EXCEPT ![l] = g]  BY <1>2, Zenon DEF Advanced
<1>4. g \in Frame  BY <1>1 DEF Frame
<1>5. g.at = f.at /\ g.next = f.next + 1  OBVIOUS
<1>6. f.next <= At(f.at).kids  BY DEF Kids
<1> HIDE DEF g
<1>7. c \in Seq(Frame) /\ c[1].at = <<>>  BY DEF Stacked
<1>8. d \in Seq(Frame) /\ Len(d) = l /\ d[l] = g /\ \A n \in 1 .. l : n # l => d[n] = c[n]
  <2>1. l \in 1 .. Len(c)  BY <1>1
  <2>2. LET b == [c EXCEPT ![l] = g]
        IN  /\ b \in Seq(Frame) /\ Len(b) = Len(c) /\ b[l] = g
            /\ \A n \in 1 .. Len(c) : n # l => b[n] = c[n]
    BY <1>4, <1>7, <2>1, FrameReplaced
  <2> QED  BY <1>3, <2>2, Zenon
<1> HIDE DEF l
<1>9. \A n \in 1 .. l : d[n].at = c[n].at  BY <1>5, <1>8 DEF f
<1>10. Stacked(d)
  <2>1. d[1].at = <<>>  BY <1>1, <1>7, <1>9
  <2>2. ASSUME NEW n \in 1 .. l PROVE d[n].at \in Paths /\ d[n].next <= At(d[n].at).kids + 1
    <3>1. CASE n = l
      <4>1. d[n].at = f.at /\ d[n].next = f.next + 1  BY <1>5, <1>8, <3>1
      <4> QED  BY <1>1, <1>6, <4>1
    <3>2. CASE n # l  BY <1>8, <3>2 DEF Stacked, l
    <3> QED  BY <3>1, <3>2
  <2>3. ASSUME NEW n \in 1 .. l - 1
        PROVE  d[n].next - 1 \in Kids(d[n].at) /\ d[n + 1].at = Append(d[n].at, d[n].next - 1)
    <3>1. n \in 1 .. l /\ n + 1 \in 1 .. l /\ n # l  BY <1>1
    <3>2. c[n].next - 1 \in Kids(c[n].at) /\ c[n + 1].at = Append(c[n].at, c[n].next - 1)
      BY DEF Stacked, l
    <3> QED  BY <1>8, <1>9, <3>1, <3>2
  <2>4. d \in Seq(Frame) /\ Len(d) = l /\ l >= 1  BY <1>1, <1>8
  <2> HIDE DEF f
  <2> QED  BY <2>1, <2>2, <2>3, <2>4 DEF Stacked
<1>11. \A n \in 1 .. l - 1 : n \in 1 .. l /\ n # l  BY <1>1
<1> QED  BY <1>8, <1>10, <1>11 DEF g, f, l

LEMMA EnterIs ==
  ASSUME Tree, NEW c, Stacked(c), c[Len(c)].next \in Kids(c[Len(c)].at),
         NEW d, d = Append([c EXCEPT ![Len(c)].next = @ + 1], Call(NodeOf(c)))
  PROVE  /\ Stacked(d) /\ Len(d) = Len(c) + 1
         /\ \A n \in 1 .. Len(c) - 1 : d[n] = c[n]
         /\ d[Len(c)] = [at |-> c[Len(c)].at, next |-> c[Len(c)].next + 1,
                         entry |-> c[Len(c)].entry]
         /\ d[Len(c) + 1] = Call(NodeOf(c))
<1> DEFINE l == Len(c)
           f == c[l]
           e == f.entry
           b == Advanced(c, e)
           g == Call(NodeOf(c))
<1>1. /\ l \in Nat \ {0} /\ l \in 1 .. l /\ f \in Frame
      /\ f = [at |-> f.at, next |-> f.next, entry |-> f.entry]
      /\ f.at \in Paths /\ f.at \in Path /\ f.next \in Nat \ {0} /\ e \in Entry
      /\ NodeOf(c) \in Paths
  <2>1. l \in Nat /\ l >= 1  BY DEF Stacked
  <2>2. l \in 1 .. l  BY <2>1
  <2> QED  BY <2>1, <2>2, TopIs DEF NodeOf
<1>2. [c EXCEPT ![l].next = @ + 1] = b
  <2>1. [f EXCEPT !.next = @ + 1] = [f EXCEPT !.next = @ + 1, !.entry = e]
    BY <1>1, FrameUpdated, Zenon
  <2> QED  BY <2>1, Zenon DEF Advanced
<1> HIDE DEF e
<1>3. /\ Stacked(b) /\ Len(b) = l /\ \A n \in 1 .. l - 1 : b[n] = c[n]
      /\ b[l] = [at |-> f.at, next |-> f.next + 1, entry |-> e]
  <2>1. e \in Entry /\ f.next \in Kids(f.at)  BY <1>1
  <2>2. /\ Stacked(b) /\ Len(b) = Len(c)
        /\ \A n \in 1 .. Len(c) - 1 : b[n] = c[n]
        /\ b[Len(c)] = [at |-> c[Len(c)].at, next |-> c[Len(c)].next + 1, entry |-> e]
    BY <2>1, CollectIs, Zenon
  <2> QED  BY <2>2
<1>4. d = Append(b, g)  BY <1>2
<1> HIDE DEF b
<1>5. g \in Frame /\ g.at = NodeOf(c) /\ g.next = 1
  <2>1. <<>> \in Path /\ NodeOf(c) \in Path  BY <1>1, TreeIs DEF Path
  <2>2. NoEntry \in Entry  BY <2>1 DEF NoEntry, Entry, NULL
  <2> QED  BY <2>1, <2>2 DEF Call, Frame
<1>6. At(g.at).kids \in Nat  BY <1>1, <1>5, TreeIs
<1> HIDE DEF g
<1>7. b \in Seq(Frame) /\ b[1].at = <<>>  BY <1>3 DEF Stacked
<1>8. d \in Seq(Frame) /\ Len(d) = l + 1 /\ d[l + 1] = g /\ \A n \in 1 .. l : d[n] = b[n]
  <2>1. LET s == Append(b, g)
        IN  /\ s \in Seq(Frame) /\ Len(s) = Len(b) + 1 /\ s[Len(b) + 1] = g
            /\ \A n \in 1 .. Len(b) : s[n] = b[n]
    BY <1>5, <1>7, FrameAppended, Zenon
  <2> QED  BY <1>3, <1>4, <2>1, Zenon
<1>9. b[l].at = f.at /\ b[l].next - 1 = f.next  BY <1>1, <1>3
<1> HIDE DEF l
<1>10. Stacked(d)
  <2>1. d[1].at = <<>>  BY <1>1, <1>7, <1>8
  <2>2. ASSUME NEW n \in 1 .. l + 1 PROVE d[n].at \in Paths /\ d[n].next <= At(d[n].at).kids + 1
    <3>1. CASE n = l + 1  BY <1>1, <1>5, <1>6, <1>8, <3>1
    <3>2. CASE n # l + 1
      <4>1. n \in 1 .. l /\ d[n] = b[n]  BY <1>1, <1>8, <3>2
      <4> QED  BY <1>3, <4>1 DEF Stacked
    <3> QED  BY <3>1, <3>2
  <2>3. ASSUME NEW n \in 1 .. l
        PROVE  d[n].next - 1 \in Kids(d[n].at) /\ d[n + 1].at = Append(d[n].at, d[n].next - 1)
    <3>1. CASE n = l
      <4>1. d[n] = b[l] /\ d[n + 1] = g  BY <1>1, <1>8, <3>1
      <4>2. f.next \in Kids(f.at) /\ NodeOf(c) = Append(f.at, f.next)  BY DEF NodeOf, l, f
      <4> QED  BY <1>5, <1>9, <4>1, <4>2
    <3>2. CASE n # l
      <4>1. n \in 1 .. l - 1 /\ n + 1 \in 1 .. l  BY <1>1, <3>2
      <4>2. b[n].next - 1 \in Kids(b[n].at) /\ b[n + 1].at = Append(b[n].at, b[n].next - 1)
        BY <1>3, <4>1 DEF Stacked
      <4> QED  BY <1>8, <4>1, <4>2
    <3> QED  BY <3>1, <3>2
  <2>4. Len(d) - 1 = l /\ Len(d) >= 1  BY <1>1, <1>8
  <2> QED  BY <1>8, <2>1, <2>2, <2>3, <2>4 DEF Stacked
<1>11. \A n \in 1 .. l - 1 : n \in 1 .. l  BY <1>1
<1> QED  BY <1>1, <1>3, <1>8, <1>10, <1>11 DEF g, f, e, l

LEMMA LeaveIs ==
  ASSUME Tree, NEW c, Stacked(c), Len(c) > 1, NEW d, d = SubSeq(c, 1, Len(c) - 1)
  PROVE  /\ Stacked(d) /\ Len(d) = Len(c) - 1 /\ Len(d) \in 1 .. Len(c)
         /\ \A n \in 1 .. Len(d) : d[n] = c[n]
<1> DEFINE l == Len(c) - 1
<1>1. c \in Seq(Frame) /\ l \in Nat \ {0} /\ l + 1 = Len(c) /\ c[1].at = <<>> /\ d = SubSeq(c, 1, l)
  BY DEF Stacked
<1> HIDE DEF l
<1>2. d \in Seq(Frame) /\ Len(d) = l /\ \A n \in 1 .. l : d[n] = c[n]
  BY <1>1
<1>3. \A n \in 1 .. l : d[n].at \in Paths /\ d[n].next <= At(d[n].at).kids + 1
  <2>1. \A n \in 1 .. l : n \in 1 .. Len(c)  BY <1>1
  <2> QED  BY <1>2, <2>1 DEF Stacked
<1>4. ASSUME NEW n \in 1 .. l - 1
      PROVE  d[n].next - 1 \in Kids(d[n].at) /\ d[n + 1].at = Append(d[n].at, d[n].next - 1)
  <2>1. n \in 1 .. l /\ n + 1 \in 1 .. l /\ n \in 1 .. Len(c) - 1  BY <1>1
  <2> QED  BY <1>2, <2>1 DEF Stacked
<1>5. l \in 1 .. Len(c) /\ 1 \in 1 .. l  BY <1>1
<1> QED  BY <1>1, <1>2, <1>3, <1>4, <1>5 DEF Stacked, l

-----------------------------------------------------------------------------
(***************************************************************************)
(* What a feed has said of itself in its first n - 1 elements.             *)
(***************************************************************************)
Name(i) == At(<<i>>).name
Text(i) == "data" \in At(<<i>>).has

\* The elements with text behind the last one of this name without.
TextsBefore(n, name) ==
  {i \in 1 .. n - 1 : /\ Text(i)
                      /\ \A j \in 1 .. n - 1 : (Name(j) = name /\ ~Text(j)) => j < i}
SaidBefore(n, name, substitute) ==
  Or(LastOf(ChildrenOf(<<>>, {i \in TextsBefore(n, name) : Name(i) = name})),
     FirstOf(ChildrenOf(<<>>, {i \in TextsBefore(n, name) : Name(i) = substitute})))

ImagesBefore(n) ==
  {i \in 1 .. n - 1 : \/ Name(i) = "image"
                      \/ Name(i) = "itunes:image" /\ "href" \in At(<<i>>).has}
TextOf(p) == IF p # NULL /\ At(p).name = "image" THEN Value(p, "data") ELSE p
ImageBefore(n) ==
  IF Rss THEN TextOf(LastOf(ChildrenOf(<<>>, ImagesBefore(n)))) ELSE SaidBefore(n, "logo", "icon")

SoFar(f, n) ==
  /\ f.author = SaidBefore(n, "author", "generator")
  /\ f.subtitle = ImageBefore(n)

\* An announcement is the first report, of what is told.
RightlySaid(o) ==
  /\ \A n \in DOMAIN o : o[n].kind = "playlist" =>
       /\ n = 1
       /\ o[n].entry.author = ToldBy("author", "generator")
       /\ o[n].entry.subtitle = ImageTold
  /\ (o # <<>> /\ (Rss \/ Items # {})) => o[1].kind = "playlist"

Announced(c, f, ph, o) ==
  /\ (ph = "feed" /\ o = <<>>) => Len(c) = 1 /\ SoFar(f, c[1].next)
  /\ (Rss /\ ph = "feed") => o = <<>>
  /\ (Rss /\ ph = "items") => o # <<>>
  /\ Atom => ph \in {"feed", "done"}
  /\ (Atom /\ o = <<>>) => Len(c) = 1 /\ \A i \in 1 .. c[1].next - 1 : Name(i) # "entry"
  /\ RightlySaid(o)
  /\ \A n \in DOMAIN o : o[n].kind = "ended" <=> (ph = "done" /\ n = Len(o))

LEMMA BeforeTop ==
  ASSUME NEW i \in Nat \ {0}, NEW j \in Nat \ {0}
  PROVE  Before(<<i>>, <<j>>) <=> i < j
BY Rooted, BeforeSibling

LEMMA TopsAre ==
  ASSUME Tree
  PROVE  /\ Tops = ChildrenOf(<<>>, Kids(<<>>))
         /\ \A K \in SUBSET Kids(<<>>) : ChildrenOf(<<>>, K) = {<<i>> : i \in K}
         /\ At(<<>>).kids \in Nat /\ Kids(<<>>) \subseteq Nat \ {0}
<1>1. <<>> \in Paths /\ <<>> \in Path /\ At(<<>>).kids \in Nat /\ Kids(<<>>) \subseteq Nat \ {0}
  BY TreeIs
<1>2. \A K \in SUBSET Kids(<<>>) : ChildrenOf(<<>>, K) = {<<i>> : i \in K}
  <2> SUFFICES ASSUME NEW K \in SUBSET Kids(<<>>) PROVE ChildrenOf(<<>>, K) = {<<i>> : i \in K}
    OBVIOUS
  <2>1. \A i \in K : Append(<<>>, i) = <<i>>  BY <1>1, Rooted
  <2> QED  BY <2>1, Zenon DEF ChildrenOf
<1>3. ASSUME NEW p \in Paths, Len(p) = 1 PROVE p[1] \in Kids(<<>>) /\ p = <<p[1]>>
  <2>1. p \in Path  BY TreeIs
  <2>2. Inside(p, <<>>)  BY <1>1, <1>3 DEF Inside
  <2>3. p[1] \in Kids(<<>>)
    <3>1. Len(<<>>) + 1 = 1  OBVIOUS
    <3> QED  BY <1>1, <2>2, <3>1, Ancestor
  <2>4. p = <<p[1]>>  BY <1>3, <2>1 DEF Path
  <2> QED  BY <2>3, <2>4
<1>4. ASSUME NEW i \in Kids(<<>>) PROVE <<i>> \in Paths /\ Len(<<i>>) = 1
  <2>1. Append(<<>>, i) \in Paths /\ i \in Nat \ {0}  BY <1>1, TreeIs
  <2> QED  BY <2>1, Rooted
<1>5. Tops = {<<i>> : i \in Kids(<<>>)}
  <2>1. ASSUME NEW p \in Tops PROVE p \in {<<i>> : i \in Kids(<<>>)}
    <3>1. p \in Paths /\ Len(p) = 1  BY DEF Tops
    <3> QED  BY <1>3, <3>1
  <2>2. \A i \in Kids(<<>>) : <<i>> \in Tops  BY <1>4 DEF Tops
  <2> QED  BY <2>1, <2>2
<1> QED  BY <1>1, <1>2, <1>5

LEMMA SaidNothing ==
  ASSUME NEW name, NEW substitute
  PROVE  SaidBefore(1, name, substitute) = NULL
<1>1. TextsBefore(1, name) = {}  BY DEF TextsBefore
<1>2. /\ {i \in TextsBefore(1, name) : Name(i) = name} = {}
      /\ {i \in TextsBefore(1, name) : Name(i) = substitute} = {}
  BY <1>1
<1> QED  BY <1>2, NoneIs DEF SaidBefore, Or

\* The next element is the author, stands in for it, or is neither.
LEMMA SaidNext ==
  ASSUME NEW n \in Nat \ {0}, NEW name, NEW substitute, name # substitute
  PROVE  LET v == SaidBefore(n, name, substitute)
         IN  SaidBefore(n + 1, name, substitute)
               = IF Name(n) = name \/ (Name(n) = substitute /\ v = NULL)
                 THEN Value(<<n>>, "data") ELSE v
<1> DEFINE r == <<>>
           T == TextsBefore(n, name)
           U == TextsBefore(n + 1, name)
           A == {i \in T : Name(i) = name}
           S == {i \in T : Name(i) = substitute}
           B == {i \in U : Name(i) = name}
           R == {i \in U : Name(i) = substitute}
           v == SaidBefore(n, name, substitute)
           w == SaidBefore(n + 1, name, substitute)
<1>1. /\ v = Or(LastOf(ChildrenOf(r, A)), FirstOf(ChildrenOf(r, S)))
      /\ w = Or(LastOf(ChildrenOf(r, B)), FirstOf(ChildrenOf(r, R)))
  BY DEF SaidBefore
<1>2. T \subseteq 1 .. n - 1 /\ U \subseteq 1 .. n /\ 1 .. n = 1 .. n - 1 \cup {n}
  BY DEF TextsBefore
<1>3. Value(<<n>>, "data") = IF Text(n) THEN <<n>> ELSE NULL  BY DEF Value, Text
<1>4. Append(r, n) = <<n>> /\ <<n>> # NULL /\ r \in Path  BY Rooted DEF NULL
<1>5. CASE Name(n) = name /\ Text(n)
  <2>1. U = T \cup {n}  BY <1>2, <1>5 DEF TextsBefore
  <2> HIDE DEF U, T
  <2>2. B = A \cup {n} /\ A \in SUBSET (1 .. n - 1)  BY <1>2, <1>5, <2>1
  <2>3. LastOf(ChildrenOf(r, B)) = <<n>>  BY <1>4, <2>2, LastNext
  <2>4. w = <<n>>  BY <1>1, <1>4, <2>3 DEF Or
  <2> QED  BY <1>3, <1>5, <2>4
<1>6. CASE Name(n) = name /\ ~Text(n)
  <2>1. U = {}
    <3>1. ASSUME NEW i \in U PROVE FALSE
      <4>1. n \in 1 .. (n + 1) - 1 /\ i \in 1 .. n  BY <1>2
      <4>2. n < i  BY <1>6, <4>1 DEF TextsBefore
      <4> QED  BY <4>1, <4>2
    <3> QED  BY <3>1
  <2>2. B = {} /\ R = {}  BY <2>1
  <2>3. w = NULL  BY <1>1, <2>2, NoneIs DEF Or
  <2> QED  BY <1>3, <1>6, <2>3
<1>7. CASE Name(n) # name
  <2>1. U = IF Text(n) THEN T \cup {n} ELSE T
    <3>1. \A i \in 1 .. n - 1 : i \in U <=> i \in T  BY <1>2, <1>7 DEF TextsBefore
    <3>2. n \in U <=> Text(n)  BY <1>7 DEF TextsBefore
    <3>3. n \notin T  BY <1>2
    <3>4. \A i : i \in U => (i \in 1 .. n - 1 \/ i = n)  BY <1>2
    <3>5. \A i : i \in T => i \in 1 .. n - 1  BY <1>2
    <3> HIDE DEF U, T
    <3>6. CASE Text(n)  BY <3>1, <3>2, <3>4, <3>5, <3>6
    <3>7. CASE ~Text(n)  BY <3>1, <3>2, <3>3, <3>4, <3>5, <3>7
    <3> QED  BY <3>6, <3>7
  <2> HIDE DEF U, T
  <2>2. B = A  BY <1>7, <2>1
  <2>3. A \in SUBSET (1 .. n - 1) /\ S \in SUBSET (1 .. n - 1) /\ n - 1 \in Nat
    <3>1. A \subseteq T /\ S \subseteq T  OBVIOUS
    <3>2. n - 1 \in Nat  OBVIOUS
    <3> HIDE DEF A, S
    <3> QED  BY <1>2, <3>1, <3>2
  <2> DEFINE last == LastOf(ChildrenOf(r, A))
             first == FirstOf(ChildrenOf(r, S))
  <2>4. (last = NULL <=> A = {}) /\ (first = NULL <=> S = {})  BY <1>4, <2>3, SomeIs
  <2>5. CASE Name(n) = substitute /\ Text(n)
    <3>1. R = S \cup {n}  BY <2>1, <2>5
    <3>2. FirstOf(ChildrenOf(r, R)) = IF S = {} THEN <<n>> ELSE first
      <4> HIDE DEF S, R
      <4>1. FirstOf(ChildrenOf(r, S \cup {n})) = IF S = {} THEN Append(r, n) ELSE first
        BY <1>4, <2>3, FirstNext
      <4> QED  BY <1>4, <3>1, <4>1
    <3>3. w = Or(last, IF S = {} THEN <<n>> ELSE first)  BY <1>1, <2>2, <3>2
    <3>4. v = Or(last, first)  BY <1>1
    <3> HIDE DEF last, first, v, w, S, A
    <3> QED  BY <1>3, <1>4, <1>7, <2>4, <2>5, <3>3, <3>4 DEF Or, v, w
  <2>6. CASE ~(Name(n) = substitute /\ Text(n))
    <3>1. R = S  BY <2>1, <2>6
    <3>2. w = v  BY <1>1, <2>2, <3>1
    <3> HIDE DEF v, w, R, S, A, B
    <3> QED  BY <1>3, <1>7, <2>6, <3>2 DEF v, w
  <2> QED  BY <2>5, <2>6
<1> QED  BY <1>5, <1>6, <1>7

LEMMA ImageNext ==
  ASSUME NEW n \in Nat \ {0}, Rss
  PROVE  /\ ImageBefore(1) = NULL
         /\ ImageBefore(n + 1)
              = IF Name(n) = "image" THEN Value(<<n>>, "data")
                ELSE IF Name(n) = "itunes:image" /\ Value(<<n>>, "href") # NULL THEN <<n>>
                ELSE ImageBefore(n)
<1> DEFINE I == ImagesBefore(n)
           J == ImagesBefore(n + 1)
           Takes == Name(n) = "image" \/ (Name(n) = "itunes:image" /\ "href" \in At(<<n>>).has)
<1>1. ImagesBefore(1) = {}  BY DEF ImagesBefore
<1>2. I \in SUBSET (1 .. n - 1) /\ J = IF Takes THEN I \cup {n} ELSE I
  <2>1. (n + 1) - 1 = n /\ 1 .. n = 1 .. n - 1 \cup {n} /\ n \notin 1 .. n - 1  OBVIOUS
  <2> QED  BY <2>1 DEF ImagesBefore
<1>3. Append(<<>>, n) = <<n>> /\ <<n>> # NULL /\ <<>> \in Path  BY Rooted DEF NULL
<1>4. ImageBefore(1) = NULL  BY <1>1, NoneIs DEF ImageBefore, TextOf
<1>5. ImageBefore(n) = TextOf(LastOf(ChildrenOf(<<>>, I)))  BY DEF ImageBefore
<1>6. ImageBefore(n + 1) = TextOf(LastOf(ChildrenOf(<<>>, J)))  BY DEF ImageBefore
<1> HIDE DEF I, J
<1>7. Takes => LastOf(ChildrenOf(<<>>, J)) = <<n>>  BY <1>2, <1>3, LastNext
<1>8. Value(<<n>>, "href") # NULL <=> "href" \in At(<<n>>).has  BY <1>3 DEF Value
<1>9. TextOf(<<n>>) = IF Name(n) = "image" THEN Value(<<n>>, "data") ELSE <<n>>
  BY <1>3 DEF TextOf, Name
<1> QED  BY <1>2, <1>4, <1>5, <1>6, <1>7, <1>8, <1>9

LEMMA FeedNext ==
  ASSUME NEW f \in Entry, NEW n \in Nat \ {0}, Rss \/ Atom, SoFar(f, n), node = <<n>>
  PROVE  SoFar(FeedData(f, Name(n)), n + 1)
<1> DEFINE g == FeedData(f, Name(n))
           name == Name(n)
<1>1. Rss => ~Atom  BY DEF Rss, Atom
<1>2. f = [uri |-> f.uri, title |-> f.title, author |-> f.author, size |-> f.size,
           subtitle |-> f.subtitle]
  BY DEF Entry
<1>3. /\ g.author = IF name = "author" \/ (name = "generator" /\ f.author = NULL)
                    THEN Value(<<n>>, "data") ELSE f.author
      /\ Rss => g.subtitle = IF name = "image" THEN Value(<<n>>, "data")
                             ELSE IF name = "itunes:image" /\ Value(<<n>>, "href") # NULL THEN <<n>>
                             ELSE f.subtitle
      /\ Atom => g.subtitle = IF name = "logo" \/ (name = "icon" /\ f.subtitle = NULL)
                              THEN Value(<<n>>, "data") ELSE f.subtitle
  <2> HIDE DEF name
  <2> QED  BY <1>1, <1>2 DEF FeedData, name
<1> HIDE DEF g
<1>4. f.author = SaidBefore(n, "author", "generator") /\ f.subtitle = ImageBefore(n)
  BY DEF SoFar
<1>5. g.author = SaidBefore(n + 1, "author", "generator")  BY <1>3, <1>4, SaidNext
<1>6. g.subtitle = ImageBefore(n + 1)
  <2>1. CASE Rss  BY <1>3, <1>4, <2>1, ImageNext
  <2>2. CASE Atom
    <3>1. \A k : ImageBefore(k) = SaidBefore(k, "logo", "icon")  BY <1>1, <2>2 DEF ImageBefore
    <3> QED  BY <1>3, <1>4, <2>2, <3>1, SaidNext
  <2> QED  BY <2>1, <2>2
<1> QED  BY <1>5, <1>6 DEF SoFar, g

\* What is told of a feed, once its first n - 1 elements are all that tells.
LEMMA ToldIs ==
  ASSUME Tree, Rss \/ Atom, NEW n \in 1 .. At(<<>>).kids + 1, Told = ChildrenOf(<<>>, 1 .. n - 1)
  PROVE  /\ \A name, substitute : ToldBy(name, substitute) = SaidBefore(n, name, substitute)
         /\ ImageTold = ImageBefore(n)
<1> DEFINE I == 1 .. n - 1
<1>1. /\ n \in Nat \ {0} /\ I \subseteq Kids(<<>>)
      /\ \A K \in SUBSET I : ChildrenOf(<<>>, K) = {<<i>> : i \in K}
      /\ \A i \in I : i \in Nat \ {0}
  BY TopsAre DEF Kids
<1>2. Told = {<<i>> : i \in I}  BY <1>1
<1> HIDE DEF I
<1>3. ASSUME NEW name, NEW substitute
      PROVE  ToldBy(name, substitute) = SaidBefore(n, name, substitute)
  <2> DEFINE told == {p \in Told : /\ Has(p, "data")
                                   /\ \A q \in Told : (At(q).name = name /\ ~Has(q, "data"))
                                                        => Before(q, p)}
             T == TextsBefore(n, name)
  <2>1. \A i \in I : <<i>> \in told <=> i \in T
    <3> SUFFICES ASSUME NEW i \in I PROVE <<i>> \in told <=> i \in T
      OBVIOUS
    <3>1. <<i>> \in told <=> /\ Has(<<i>>, "data")
                             /\ \A j \in I : (At(<<j>>).name = name /\ ~Has(<<j>>, "data"))
                                                => Before(<<j>>, <<i>>)
      BY <1>2
    <3>2. \A j \in I : Before(<<j>>, <<i>>) <=> j < i  BY <1>1, BeforeTop
    <3> QED  BY <3>1, <3>2 DEF TextsBefore, Has, Name, Text, I
  <2>2. told \subseteq Told /\ T \subseteq I  BY DEF TextsBefore, I
  <2>3. ToldBy(name, substitute)
          = Or(LastOf({p \in told : At(p).name = name}), FirstOf({p \in told : At(p).name = substitute}))
    BY DEF ToldBy
  <2> HIDE DEF told, T
  <2>4. ASSUME NEW x
        PROVE  {p \in told : At(p).name = x} = ChildrenOf(<<>>, {i \in T : Name(i) = x})
    <3>1. {i \in T : Name(i) = x} \in SUBSET I  BY <2>2
    <3>2. ChildrenOf(<<>>, {i \in T : Name(i) = x}) = {<<i>> : i \in {j \in T : Name(j) = x}}
      BY <1>1, <3>1
    <3>3. \A p \in told : \E i \in T : p = <<i>>  BY <1>2, <2>1, <2>2
    <3>4. \A i \in T : <<i>> \in told  BY <2>1, <2>2
    <3> QED  BY <3>2, <3>3, <3>4 DEF Name
  <2> QED  BY <2>3, <2>4 DEF SaidBefore, T
<1>4. ImageTold = ImageBefore(n)
  <2>1. CASE Rss
    <3> DEFINE S == {p \in Told : \/ At(p).name = "image"
                                  \/ At(p).name = "itunes:image" /\ Has(p, "href")}
               J == ImagesBefore(n)
    <3>1. J \in SUBSET I /\ J = {i \in I : \/ Name(i) = "image"
                                           \/ Name(i) = "itunes:image" /\ "href" \in At(<<i>>).has}
      BY DEF ImagesBefore, I
    <3>2. S = {<<i>> : i \in J}  BY <1>2, <3>1 DEF Name, Has
    <3>3. S = ChildrenOf(<<>>, J)  BY <1>1, <3>1, <3>2
    <3>4. ImageTold = TextOf(LastOf(S))  BY <2>1 DEF ImageTold, TextOf
    <3> QED  BY <2>1, <3>3, <3>4 DEF ImageBefore
  <2>2. CASE Atom
    <3>1. ~Rss  BY <2>2 DEF Rss, Atom
    <3> QED  BY <1>3, <3>1 DEF ImageTold, ImageBefore
  <2> QED  BY <2>1, <2>2
<1> QED  BY <1>3, <1>4

LEMMA ToldWhole ==
  ASSUME Tree
  PROVE  /\ Rss => Told = ChildrenOf(<<>>, 1 .. At(<<>>).kids)
         /\ \A n \in Kids(<<>>) :
              (Atom /\ Name(n) = "entry" /\ \A i \in 1 .. n - 1 : Name(i) # "entry")
                => Told = ChildrenOf(<<>>, 1 .. n - 1)
<1> DEFINE K == Kids(<<>>)
<1>1. /\ Tops = ChildrenOf(<<>>, K) /\ Tops = {<<i>> : i \in K} /\ K \subseteq Nat \ {0}
      /\ \A L \in SUBSET K : ChildrenOf(<<>>, L) = {<<i>> : i \in L}
  BY TopsAre
<1>2. Rss => Told = Tops  BY DEF Told
<1>3. ASSUME Atom, NEW n \in K, Name(n) = "entry", \A i \in 1 .. n - 1 : Name(i) # "entry"
      PROVE  Told = ChildrenOf(<<>>, 1 .. n - 1)
  <2>1. 1 .. n - 1 \in SUBSET K /\ n \in Nat \ {0} /\ At(<<>>).kids \in Nat
    BY <1>1, TopsAre DEF Kids
  <2>2. ~Rss /\ Items = {p \in Tops : At(p).name = "entry"}
    BY <1>3 DEF Rss, Atom, Items, ItemName
  <2>3. ASSUME NEW i \in K PROVE <<i>> \in Told <=> i \in 1 .. n - 1
    <3>1. <<i>> \in Told <=> \A j \in K : Name(j) = "entry" => Before(<<i>>, <<j>>)
      BY <1>1, <2>2 DEF Told, Name
    <3>2. <<i>> \in Told <=> \A j \in K : Name(j) = "entry" => i < j
      BY <1>1, <3>1, BeforeTop
    <3>3. i \in Nat \ {0} /\ \A j \in K : j \in Nat \ {0}  BY <1>1
    <3>4. <<i>> \in Told => i < n  BY <1>3, <3>2
    <3>5. i < n => <<i>> \in Told
      <4>1. ASSUME NEW j \in K, Name(j) = "entry" PROVE n <= j
        <5>1. j \notin 1 .. n - 1  BY <1>3, <4>1
        <5> QED  BY <2>1, <3>3, <5>1
      <4> QED  BY <2>1, <3>2, <3>3, <4>1
    <3> QED  BY <2>1, <3>3, <3>4, <3>5
  <2>4. Told \subseteq Tops  BY DEF Told
  <2> HIDE DEF K
  <2>5. Told = {<<i>> : i \in 1 .. n - 1}  BY <1>1, <2>1, <2>3, <2>4
  <2> QED  BY <1>1, <2>1, <2>5
<1> QED  BY <1>1, <1>2, <1>3 DEF Kids

-----------------------------------------------------------------------------
(***************************************************************************)
(* What an item has said so far, and which items have been reported.       *)
(***************************************************************************)
LocatingBefore(a, n) == {k \in 1 .. n - 1 : Locating(Append(a, k))}
LocationOf(p) == IF p # NULL /\ At(p).name = "url" THEN Value(p, "data") ELSE p

Of(e, i) == \A v \in {e.title, e.author, e.size} : v # NULL => v[1] = i

SizeRight(e, a) ==
  \/ e.size = NULL
  \/ Atom /\ e.size = e.uri
  \/ Rss /\ At(e.size).name = "length"
  \/ Rss /\ e.size \in Locations(a)

Held(f) ==
  /\ f.entry.uri = LocationOf(LastOf(ChildrenOf(f.at, LocatingBefore(f.at, f.next))))
  /\ Of(f.entry, f.at[1])
  /\ SizeRight(f.entry, f.at)

EntryRight(e) ==
  /\ Of(e, e.uri[1])
  /\ (Atom \/ Locations(e.uri) = {e.uri}) => e.size \in {NULL, e.uri} \/ At(e.size).name = "length"

EntriesOf(o) == {n \in DOMAIN o : o[n].kind = "entry"}
LocatedBefore(n) == {i \in 1 .. n - 1 : Name(i) = ItemName /\ Located(<<i>>)}

Given(o, n) ==
  /\ {o[k].entry.uri : k \in EntriesOf(o)} = {LastOf(Locations(<<i>>)) : i \in LocatedBefore(n)}
  /\ \A k \in EntriesOf(o) : /\ o[k].entry.uri # <<>> /\ o[k].entry.uri[1] < n
                             /\ EntryRight(o[k].entry)
  /\ \A k, l \in EntriesOf(o) : k < l => o[k].entry.uri[1] < o[l].entry.uri[1]

Reached(c, ph) == IF Rss /\ ph = "feed" THEN 1 ELSE IF Len(c) = 1 THEN c[1].next ELSE c[1].next - 1

Feeding(c, ph, o) ==
  /\ Len(c) <= 2
  /\ Len(c) = 2 => /\ ph = (IF Rss THEN "items" ELSE "feed")
                   /\ At(c[2].at).name = ItemName
                   /\ Held(c[2])
  /\ Given(o, Reached(c, ph))

-----------------------------------------------------------------------------
(***************************************************************************)
(* What a frame of a body holds, and which media have been reported.       *)
(***************************************************************************)
Within(a) ==
  /\ a \in Paths /\ Len(a) >= 1 /\ At(<<a[1]>>).name = "body"
  /\ \A n \in 2 .. Len(a) : At(SubSeq(a, 1, n)).name \notin MediaNames \cup {"textstream"}

IsMedia(a, k) == At(Append(a, k)).name \in MediaNames
Texts(a, m, c) == {k \in m + 1 .. c - 1 : At(Append(a, k)).name = "textstream"}
TextIn(a, m, c) == LET text == LastOf(ChildrenOf(a, Texts(a, m, c)))
                   IN  IF text = NULL THEN NULL ELSE Value(text, "src")

\* The child of a that is waiting before its child c.
Waits(a, m, c) == m \in 1 .. c - 1 /\ IsMedia(a, m) /\ \A k \in m + 1 .. c - 1 : ~IsMedia(a, k)

Waiting(f) ==
  \/ /\ \A k \in 1 .. f.next - 1 : ~IsMedia(f.at, k)
     /\ f.entry.uri = NULL
  \/ \E m \in 1 .. f.next - 1 :
       /\ Waits(f.at, m, f.next)
       /\ f.entry = [uri |-> Value(Append(f.at, m), "src"), title |-> Value(Append(f.at, m), "title"),
                     author |-> Value(Append(f.at, m), "author"), size |-> NULL,
                     subtitle |-> TextIn(f.at, m, f.next)]

HeadsBefore(n) ==
  {q \in Paths : /\ Len(q) = 2 /\ At(<<q[1]>>).name = "head" /\ q[1] < n
                 /\ At(q).name = "title_meta" /\ Has(q, "content")}
IsFirst(p, S) == p \in S /\ \A q \in S : p = q \/ Before(p, q)

TitleIs(t, n) == (HeadsBefore(n) = {} /\ t = NULL) \/ IsFirst(t, HeadsBefore(n))

Due(p) == {q \in Media : Has(q, "src") /\ Before(Complete(q), p)}
Sent(o, p) ==
  /\ {o[n] : n \in DOMAIN o} = {Report(MediaReport(q)) : q \in Due(p)}
  /\ \A m, n \in DOMAIN o :
       m < n => Before(Complete(o[m].entry.uri), Complete(o[n].entry.uri))

Showing(c, t, ph, o, r) ==
  /\ ph \in {"feed", "done"}
  /\ \A n \in 2 .. Len(c) : /\ Within(c[n].at) /\ c[n].at[1] = c[1].next - 1
                            /\ Waiting(c[n])
  /\ TitleIs(t, c[1].next)
  /\ Sent(o, NodeOf(c))
  /\ r = "success" => \E i \in 1 .. c[1].next - 1 : Name(i) = "body"
  /\ \A i \in 1 .. c[1].next - 1 :
       (Name(i) = "body" /\ (Len(c) = 1 \/ i < c[1].next - 1)) => r = "success"

-----------------------------------------------------------------------------
(***************************************************************************)
(* The document does not change, and neither does what hangs on it.        *)
(***************************************************************************)
LEMMA SameElements ==
  ASSUME UNCHANGED doc
  PROVE  /\ Paths' = Paths /\ (Tree' <=> Tree) /\ \A p : At(p)' = At(p)
         /\ (Smil' <=> Smil) /\ (Rss' <=> Rss) /\ (Atom' <=> Atom) /\ ItemName' = ItemName
         /\ \A p, property : Value(p, property)' = Value(p, property)
         /\ \A p, property : Has(p, property)' <=> Has(p, property)
         /\ \A p : Kids(p)' = Kids(p)
         /\ \A i : Name(i)' = Name(i) /\ (Text(i)' <=> Text(i))
<1>1. Paths' = Paths /\ \A p : At(p)' = At(p)  BY DEF Paths, At
<1>2. (Tree' <=> Tree)  BY DEF Tree
<1>3. Format' = Format  BY <1>1 DEF Format
<1>4. (Smil' <=> Smil) /\ (Rss' <=> Rss) /\ (Atom' <=> Atom)  BY <1>3 DEF Smil, Rss, Atom
<1>5. ItemName' = ItemName  BY <1>4 DEF ItemName
<1>6. \A p, property : Value(p, property)' = Value(p, property)  BY <1>1 DEF Value
<1>7. \A p, property : Has(p, property)' <=> Has(p, property)  BY <1>1 DEF Has
<1>8. \A p : Kids(p)' = Kids(p)  BY <1>1 DEF Kids
<1>9. \A i : Name(i)' = Name(i) /\ (Text(i)' <=> Text(i))  BY <1>1 DEF Name, Text
<1> QED  BY <1>1, <1>2, <1>4, <1>5, <1>6, <1>7, <1>8, <1>9

LEMMA SameStack ==
  ASSUME UNCHANGED doc
  PROVE  \A c : (Stacked(c)' <=> Stacked(c)) /\ (AllPassed(c)' <=> AllPassed(c))
BY DEF Stacked, AllPassed, At, Paths, Kids

LEMMA SameSaid ==
  ASSUME UNCHANGED doc
  PROVE  /\ \A f, n : (SoFar(f, n)' <=> SoFar(f, n))
         /\ \A name, substitute : ToldBy(name, substitute)' = ToldBy(name, substitute)
         /\ ImageTold' = ImageTold /\ Items' = Items
<1> USE SameElements
<1>1. \A n, name : TextsBefore(n, name)' = TextsBefore(n, name)  BY DEF TextsBefore
<1>2. \A n, name, substitute : SaidBefore(n, name, substitute)' = SaidBefore(n, name, substitute)
  BY <1>1 DEF SaidBefore
<1>3. \A n : ImagesBefore(n)' = ImagesBefore(n)  BY DEF ImagesBefore
<1>4. \A p : TextOf(p)' = TextOf(p)  BY DEF TextOf
<1>5. \A n : ImageBefore(n)' = ImageBefore(n)  BY <1>2, <1>3, <1>4 DEF ImageBefore
<1>6. \A f, n : (SoFar(f, n)' <=> SoFar(f, n))  BY <1>2, <1>5 DEF SoFar
<1>7. Tops' = Tops  BY DEF Tops
<1>8. Items' = Items  BY <1>7 DEF Items
<1>9. Told' = Told  BY <1>7, <1>8 DEF Told
<1>10. \A name, substitute : ToldBy(name, substitute)' = ToldBy(name, substitute)
  <2> SUFFICES ASSUME NEW name, NEW substitute
               PROVE  ToldBy(name, substitute)' = ToldBy(name, substitute)
    OBVIOUS
  <2> QED  BY <1>9 DEF ToldBy, At, Has
<1>11. ImageTold' = ImageTold  BY <1>9, <1>10 DEF ImageTold
<1> QED  BY <1>6, <1>8, <1>10, <1>11

LEMMA SameAnnounced ==
  ASSUME UNCHANGED doc
  PROVE  \A c, f, ph, o : (Announced(c, f, ph, o)' <=> Announced(c, f, ph, o))
BY SameElements, SameSaid DEF Announced, RightlySaid

LEMMA SameFeeding ==
  ASSUME UNCHANGED doc
  PROVE  \A c, ph, o : (Feeding(c, ph, o)' <=> Feeding(c, ph, o))
<1> USE SameElements
<1>1. \A p : (Locating(p)' <=> Locating(p))  BY DEF Locating
<1>2. \A p : Locations(p)' = Locations(p)  BY <1>1 DEF Locations
<1>3. \A p : (Located(p)' <=> Located(p))  BY <1>2 DEF Located
<1>4. \A a, n : LocatingBefore(a, n)' = LocatingBefore(a, n)  BY <1>1 DEF LocatingBefore
<1>5. \A p : LocationOf(p)' = LocationOf(p)  BY DEF LocationOf
<1>6. \A e, a : (SizeRight(e, a)' <=> SizeRight(e, a))  BY <1>2 DEF SizeRight
<1>7. \A f : (Held(f)' <=> Held(f))  BY <1>4, <1>5, <1>6 DEF Held
<1>8. \A e : (EntryRight(e)' <=> EntryRight(e))  BY <1>2 DEF EntryRight
<1>9. \A n : LocatedBefore(n)' = LocatedBefore(n)  BY <1>3 DEF LocatedBefore
<1>10. \A o, n : (Given(o, n)' <=> Given(o, n))  BY <1>2, <1>8, <1>9 DEF Given
<1>11. \A c, ph : Reached(c, ph)' = Reached(c, ph)  BY DEF Reached
<1> QED  BY <1>7, <1>10, <1>11 DEF Feeding

LEMMA SameShowing ==
  ASSUME UNCHANGED doc
  PROVE  \A c, t, ph, o, r : (Showing(c, t, ph, o, r)' <=> Showing(c, t, ph, o, r))
<1> USE SameElements
<1>1. \A a : (Within(a)' <=> Within(a))  BY DEF Within, MediaNames
<1>2. \A a, k : (IsMedia(a, k)' <=> IsMedia(a, k))  BY DEF IsMedia
<1>3. \A a, m, c : Texts(a, m, c)' = Texts(a, m, c)  BY DEF Texts
<1>4. \A a, m, c : TextIn(a, m, c)' = TextIn(a, m, c)  BY <1>3 DEF TextIn
<1>5. \A a, m, c : (Waits(a, m, c)' <=> Waits(a, m, c))  BY <1>2 DEF Waits
<1>6. \A f : (Waiting(f)' <=> Waiting(f))  BY <1>2, <1>4, <1>5 DEF Waiting
<1>7. \A n : HeadsBefore(n)' = HeadsBefore(n)  BY DEF HeadsBefore
<1>17. \A t, n : (TitleIs(t, n)' <=> TitleIs(t, n))  BY <1>7 DEF TitleIs, IsFirst, Before
<1>8. Media' = Media  BY DEF Media, MediaNames
<1>9. \A p : Siblings(p)' = Siblings(p)  BY DEF Siblings
<1>10. \A p : MediaBehind(p)' = MediaBehind(p)  BY <1>9 DEF MediaBehind, MediaNames
<1>11. \A p : TextsOf(p)' = TextsOf(p)  BY <1>9, <1>10 DEF TextsOf
<1>12. \A p : HeadTitles(p)' = HeadTitles(p)  BY DEF HeadTitles
<1>13. \A p : MediaReport(p)' = MediaReport(p)  BY <1>11, <1>12 DEF MediaReport
<1>14. \A p : Complete(p)' = Complete(p)  BY <1>10, Zenon DEF Complete
<1>15. \A p : Due(p)' = Due(p)  BY <1>8, <1>14, Zenon DEF Due
<1>16. \A o, p : (Sent(o, p)' <=> Sent(o, p))  BY <1>13, <1>14, <1>15, Zenon DEF Sent
<1> QED  BY <1>1, <1>6, <1>16, <1>17 DEF Showing

-----------------------------------------------------------------------------
IInv ==
  /\ Typed /\ Stacked(calls) /\ (phase = "done" => AllPassed(calls))
  /\ Smil => Showing(calls, title, phase, out, retval)
  /\ (Rss \/ Atom) => Announced(calls, feed, phase, out) /\ Feeding(calls, phase, out)
  /\ ~(Smil \/ Rss \/ Atom) => phase = "feed" /\ out = <<>>

-----------------------------------------------------------------------------
(***************************************************************************)
(* The steps of the loops.                                                 *)
(***************************************************************************)
LEMMA NodeIs ==
  ASSUME Tree, Stacked(calls)
  PROVE  /\ Top = calls[Len(calls)] /\ node = NodeOf(calls) /\ node = Append(Top.at, Top.next)
         /\ Len(calls) \in Nat \ {0} /\ Len(calls) \in 1 .. Len(calls) /\ 1 \in 1 .. Len(calls)
         /\ Top \in Frame /\ Top.at \in Paths /\ Top.at \in Path /\ Top.next \in Nat \ {0}
         /\ Top.entry \in Entry /\ node \in Path /\ At(Top.at).kids \in Nat
         /\ ~AtEnd <=> Top.next \in Kids(Top.at)
         /\ ~AtEnd => node \in Paths
         /\ AtEnd => Top.next = At(Top.at).kids + 1
<1>1. Len(calls) \in Nat /\ Len(calls) >= 1  BY DEF Stacked
<1>2. Len(calls) \in 1 .. Len(calls) /\ 1 \in 1 .. Len(calls)  BY <1>1
<1>3. node = NodeOf(calls) /\ node = Append(Top.at, Top.next) /\ Top = calls[Len(calls)]
  BY DEF node, NodeOf, Top
<1>4. /\ Top \in Frame /\ Top.at \in Paths /\ Top.at \in Path /\ Top.next \in Nat \ {0}
      /\ Top.entry \in Entry /\ At(Top.at).kids \in Nat
      /\ Top.next \in Kids(Top.at) <=> ~(Top.next > At(Top.at).kids)
      /\ Top.next > At(Top.at).kids => Top.next = At(Top.at).kids + 1
      /\ Append(Top.at, Top.next) \in Path
      /\ Top.next \in Kids(Top.at) => Append(Top.at, Top.next) \in Paths
  BY <1>2, TopIs DEF Top
<1> QED  BY <1>1, <1>2, <1>3, <1>4 DEF AtEnd

LEMMA InDocumentIs ==
  ASSUME Tree, Stacked(calls), InDocument
  PROVE  /\ Len(calls) = 1 /\ Top = calls[1] /\ Top.at = <<>> /\ node = <<calls[1].next>>
         /\ calls[1].next \in Nat \ {0} /\ calls[1].next \in 1 .. At(<<>>).kids + 1
         /\ ~AtEnd <=> calls[1].next \in Kids(<<>>)
         /\ AtEnd => calls[1].next = At(<<>>).kids + 1 /\ AllPassed(calls)
<1>1. Len(calls) = 1 /\ calls[1].at = <<>>  BY DEF InDocument, Stacked
<1>2. Top = calls[1]  BY <1>1 DEF Top
<1>3. node = Append(<<>>, calls[1].next) /\ calls[1].next \in Nat \ {0} /\ At(<<>>).kids \in Nat
  BY <1>1, <1>2, NodeIs
<1>4. node = <<calls[1].next>>  BY <1>3, Rooted
<1> QED  BY <1>1, <1>2, <1>3, <1>4, NodeIs DEF Kids, AllPassed

LEMMA Collects ==
  ASSUME Tree, Stacked(calls), ~AtEnd, NEW e \in Entry, Collect(e)
  PROVE  /\ Stacked(calls') /\ Len(calls') = Len(calls) /\ UNCHANGED <<doc, phase>>
         /\ \A n \in 1 .. Len(calls) - 1 : calls'[n] = calls[n]
         /\ calls'[Len(calls)] = [at |-> Top.at, next |-> Top.next + 1, entry |-> e]
<1>1. calls' = Advanced(calls, e)  BY DEF Collect, Top, Advanced
<1>2. calls[Len(calls)].next \in Kids(calls[Len(calls)].at)  BY NodeIs
<1>3. UNCHANGED <<doc, phase>>  BY DEF Collect
<1>4. /\ Stacked(calls') /\ Len(calls') = Len(calls)
      /\ \A n \in 1 .. Len(calls) - 1 : calls'[n] = calls[n]
      /\ calls'[Len(calls)] = [at |-> calls[Len(calls)].at, next |-> calls[Len(calls)].next + 1,
                               entry |-> e]
  BY <1>1, <1>2, CollectIs
<1> QED  BY <1>3, <1>4 DEF Top

LEMMA Enters ==
  ASSUME Tree, Stacked(calls), ~AtEnd, Enter
  PROVE  /\ Stacked(calls') /\ Len(calls') = Len(calls) + 1 /\ UNCHANGED <<doc, title>>
         /\ \A n \in 1 .. Len(calls) - 1 : calls'[n] = calls[n]
         /\ calls'[Len(calls)] = [at |-> Top.at, next |-> Top.next + 1, entry |-> Top.entry]
         /\ calls'[Len(calls) + 1] = Call(node)
<1>1. calls' = Append([calls EXCEPT ![Len(calls)].next = @ + 1], Call(NodeOf(calls)))
  BY NodeIs DEF Enter
<1>2. calls[Len(calls)].next \in Kids(calls[Len(calls)].at)  BY NodeIs
<1>3. UNCHANGED <<doc, title>>  BY DEF Enter
<1>4. /\ Stacked(calls') /\ Len(calls') = Len(calls) + 1
      /\ \A n \in 1 .. Len(calls) - 1 : calls'[n] = calls[n]
      /\ calls'[Len(calls)] = [at |-> calls[Len(calls)].at, next |-> calls[Len(calls)].next + 1,
                               entry |-> calls[Len(calls)].entry]
      /\ calls'[Len(calls) + 1] = Call(NodeOf(calls))
  BY <1>1, <1>2, EnterIs, Zenon
<1> QED  BY <1>3, <1>4, NodeIs DEF Top

LEMMA Leaves ==
  ASSUME Tree, Stacked(calls), InEntry, Leave
  PROVE  /\ Stacked(calls') /\ Len(calls') = Len(calls) - 1 /\ Len(calls') \in 1 .. Len(calls)
         /\ UNCHANGED <<doc, title, feed>>
         /\ \A n \in 1 .. Len(calls') : calls'[n] = calls[n]
<1>1. calls' = SubSeq(calls, 1, Len(calls) - 1) /\ Len(calls) > 1  BY DEF Leave, InEntry
<1>2. UNCHANGED <<doc, title, feed>>  BY DEF Leave
<1> QED  BY <1>1, <1>2, LeaveIs

LEMMA EntryTypes ==
  ASSUME Tree
  PROVE  /\ NULL \in Path /\ NoEntry \in Entry
         /\ \A p \in Path : \A property : Value(p, property) \in Path
         /\ \A e \in Entry : Report(e) \in Said
         /\ PlaylistEnd \in Said /\ (feed \in Entry => Announcement \in Said)
<1>1. NULL \in Path  BY TreeIs DEF NULL
<1>2. NoEntry \in Entry  BY <1>1 DEF NoEntry, Entry
<1>3. \A p \in Path : \A property : Value(p, property) \in Path  BY <1>1 DEF Value
<1>4. \A e \in Entry : Report(e) \in Said  BY DEF Report, Said
<1>5. PlaylistEnd \in Said  BY <1>2 DEF PlaylistEnd, Said
<1>6. feed \in Entry => Announcement \in Said  BY DEF Announcement, Said
<1> QED  BY <1>1, <1>2, <1>3, <1>4, <1>5, <1>6

LEMMA FeedTypes ==
  ASSUME Tree, node \in Path
  PROVE  /\ \A f \in Entry : \A name : FeedData(f, name) \in Entry
         /\ \A e \in Entry : \A name : RssData(e, name) \in Entry /\ AtomData(e, name) \in Entry
<1>1. \A property : Value(node, property) \in Path  BY EntryTypes
<1>2. \A e \in Entry : e.size \in Path /\ Or(Value(node, "length"), e.size) \in Path
  BY <1>1 DEF Entry, Or
<1>3. \A f \in Entry : \A v \in Path : /\ [f EXCEPT !.author = v] \in Entry
                                       /\ [f EXCEPT !.subtitle = v] \in Entry
                                       /\ [f EXCEPT !.title = v] \in Entry
                                       /\ [f EXCEPT !.size = v] \in Entry
                                       /\ [f EXCEPT !.uri = v] \in Entry
  BY DEF Entry
<1>4. \A f \in Entry : \A v, w \in Path : [f EXCEPT !.uri = v, !.size = w] \in Entry
  BY DEF Entry
<1>5. \A f \in Entry : \A name : FeedData(f, name) \in Entry  BY <1>1, <1>3 DEF FeedData
<1>6. \A e \in Entry : \A name : AtomData(e, name) \in Entry  BY <1>1, <1>3, <1>4 DEF AtomData
<1>7. \A e \in Entry : \A name : RssData(e, name) \in Entry  BY <1>1, <1>2, <1>3, <1>4 DEF RssData
<1> QED  BY <1>5, <1>6, <1>7

Basics == Typed /\ Stacked(calls) /\ (phase = "done" => AllPassed(calls))

LEMMA NotDone ==
  ASSUME Basics, InEntry \/ ~AtEnd
  PROVE  phase # "done"
<1> SUFFICES ASSUME AllPassed(calls) PROVE FALSE
  BY DEF Basics
<1>1. Len(calls) = 1 /\ calls[1].next = At(<<>>).kids + 1 /\ calls[1].at = <<>>
  BY DEF AllPassed, Basics, Stacked
<1>2. Top = calls[1] /\ At(<<>>).kids \in Nat  BY <1>1, TreeIs DEF Top, Basics, Typed
<1> QED  BY <1>1, <1>2 DEF InEntry, AtEnd

LEMMA SendTypes ==
  ASSUME Typed, NEW e \in Entry, Send(e)
  PROVE  out' \in Seq(Said)
<1> DEFINE r == Report([e EXCEPT !.title = IF e.title # NULL THEN e.title ELSE title])
<1>1. [e EXCEPT !.title = IF e.title # NULL THEN e.title ELSE title] \in Entry
  BY DEF Typed, Entry
<1>2. r \in Said  BY <1>1, EntryTypes DEF Typed
<1>3. out' = IF e.uri = NULL THEN out ELSE Append(out, r)  BY DEF Send
<1> HIDE DEF r
<1> QED  BY <1>2, <1>3 DEF Typed

LEMMA HeadTitleTypes ==
  ASSUME Tree, NEW p \in Paths
  PROVE  HeadTitle(p) \in Path
<1> DEFINE metas == {i \in Kids(p) : /\ At(Append(p, i)).name = "title_meta"
                                     /\ "content" \in At(Append(p, i)).has}
<1>1. metas \subseteq Nat \ {0} /\ p \in Path  BY TreeIs
<1>2. HeadTitle(p) = IF metas = {} THEN NULL
                     ELSE Append(p, CHOOSE i \in metas : \A j \in metas : i <= j)
  BY DEF HeadTitle, Kids
<1> HIDE DEF metas
<1>3. metas # {} => \E i \in metas : \A j \in metas : i <= j
  <2>1. metas \in SUBSET Nat  BY <1>1
  <2> QED  BY <2>1, HasLeast
<1> QED  BY <1>1, <1>2, <1>3, EntryTypes, Appended

LEMMA BasicsNext ==
  ASSUME Basics, Next
  PROVE  UNCHANGED doc /\ Basics'
<1>1. /\ Tree /\ Stacked(calls) /\ title \in Path /\ feed \in Entry
      /\ phase \in {"feed", "items", "done"} /\ retval \in {"error", "success"}
      /\ out \in Seq(Said)
  BY DEF Basics, Typed
<1>2. Top.entry \in Entry /\ node \in Path /\ (~AtEnd => node \in Paths)  BY <1>1, NodeIs
<1>3. ASSUME UNCHANGED doc, Stacked(calls'), title' \in Path, feed' \in Entry,
             phase' \in {"feed", "items", "done"}, retval' \in {"error", "success"},
             out' \in Seq(Said), phase' # "done" \/ AllPassed(calls')
      PROVE  UNCHANGED doc /\ Basics'
  <2>1. Tree' /\ Stacked(calls)' /\ (AllPassed(calls)' <=> AllPassed(calls'))
    BY <1>1, <1>3, SameElements, SameStack
  <2> QED  BY <1>3, <2>1 DEF Basics, Typed
<1>4. ASSUME NEW e \in Entry, ~AtEnd, Collect(e), title' \in Path, feed' \in Entry,
             retval' = retval, out' \in Seq(Said)
      PROVE  UNCHANGED doc /\ Basics'
  <2>1. Stacked(calls') /\ UNCHANGED <<doc, phase>>  BY <1>1, <1>4, Collects
  <2>2. phase # "done"  BY <1>4, NotDone
  <2> QED  BY <1>1, <1>3, <1>4, <2>1, <2>2
<1>5. ASSUME ~AtEnd, Enter, feed' = feed, phase' = phase, retval' = retval, out' \in Seq(Said)
      PROVE  UNCHANGED doc /\ Basics'
  <2>1. Stacked(calls') /\ UNCHANGED <<doc, title>>  BY <1>1, <1>5, Enters
  <2>2. phase # "done"  BY <1>5, NotDone
  <2> QED  BY <1>1, <1>3, <1>5, <2>1, <2>2
<1>6. ASSUME InEntry, Leave, phase' = phase, retval' \in {"error", "success"}, out' \in Seq(Said)
      PROVE  UNCHANGED doc /\ Basics'
  <2>1. Stacked(calls') /\ UNCHANGED <<doc, title, feed>>  BY <1>1, <1>6, Leaves
  <2>2. phase # "done"  BY <1>6, NotDone
  <2> QED  BY <1>1, <1>3, <1>6, <2>1, <2>2
<1>7. ASSUME InDocument, AtEnd, UNCHANGED <<doc, calls, title, feed>>, phase' = "done",
             retval' \in {"error", "success"}, out' \in Seq(Said)
      PROVE  UNCHANGED doc /\ Basics'
  <2>1. AllPassed(calls)  BY <1>1, <1>7, InDocumentIs
  <2> QED  BY <1>1, <1>3, <1>7, <2>1
<1>8. /\ NoEntry \in Entry /\ PlaylistEnd \in Said /\ Announcement \in Said
      /\ \A property : Value(node, property) \in Path
      /\ \A e \in Entry : Report(e) \in Said
  BY <1>1, <1>2, EntryTypes
<1>9. CASE SmilHead
  <2>1. ~AtEnd /\ Collect(Top.entry)  BY <1>9 DEF SmilHead, Pass, Others
  <2>2. title' \in Path  BY <1>1, <1>2, <1>9, <2>1, HeadTitleTypes DEF SmilHead
  <2> QED  BY <1>1, <1>2, <1>4, <1>9, <2>1, <2>2 DEF SmilHead
<1>10. CASE SmilBody  BY <1>1, <1>5, <1>10 DEF SmilBody, Named
<1>11. CASE SmilMedia
  <2> DEFINE e == [NoEntry EXCEPT !.uri = Value(node, "src"), !.title = Value(node, "title"),
                                  !.author = Value(node, "author")]
  <2>1. e \in Entry  BY <1>8 DEF Entry, NoEntry
  <2>2. ~AtEnd /\ Collect(e)  BY <1>11 DEF SmilMedia, Named
  <2> HIDE DEF e
  <2>3. out' \in Seq(Said)  BY <1>2, <1>11, SendTypes DEF SmilMedia, Basics
  <2> QED  BY <1>1, <1>4, <1>11, <2>1, <2>2, <2>3 DEF SmilMedia
<1>12. CASE SmilTextStream
  <2> DEFINE e == [Top.entry EXCEPT !.subtitle = Value(node, "src")]
  <2>1. e \in Entry  BY <1>2, <1>8 DEF Entry
  <2>2. ~AtEnd /\ Collect(e)  BY <1>12 DEF SmilTextStream, Named
  <2> HIDE DEF e
  <2> QED  BY <1>1, <1>4, <1>12, <2>1, <2>2 DEF SmilTextStream
<1>13. CASE SmilNested  BY <1>1, <1>5, <1>13 DEF SmilNested, Others
<1>14. CASE SmilEntryEnd
  <2>1. out' \in Seq(Said)  BY <1>2, <1>14, SendTypes DEF SmilEntryEnd, Basics
  <2> QED  BY <1>1, <1>6, <1>14, <2>1 DEF SmilEntryEnd
<1>15. CASE SmilEnd  BY <1>1, <1>7, <1>15 DEF SmilEnd
<1>16. CASE FeedElement
  <2>1. ~AtEnd /\ Collect(Top.entry)  BY <1>16 DEF FeedElement, Pass
  <2>2. feed' \in Entry  BY <1>1, <1>2, <1>16, FeedTypes DEF FeedElement
  <2> QED  BY <1>1, <1>2, <1>4, <1>16, <2>1, <2>2 DEF FeedElement
<1>17. CASE RssAnnounce
  <2> DEFINE f == Call(<<>>)
  <2>1. calls' = <<f>> /\ UNCHANGED <<doc, title, feed, retval>> /\ phase' = "items"
        /\ out' = Append(out, Announcement)
    BY <1>17 DEF RssAnnounce
  <2>2. f \in Frame /\ f.at = <<>> /\ f.next = 1
    <3>1. <<>> \in Path  BY <1>1, TreeIs
    <3> QED  BY <1>8, <3>1 DEF Call, Frame
  <2>3. <<>> \in Paths /\ 1 <= At(<<>>).kids + 1  BY <1>1, TreeIs
  <2> HIDE DEF f
  <2>4. Stacked(calls')  BY <2>1, <2>2, <2>3 DEF Stacked
  <2>5. out' \in Seq(Said)  BY <1>1, <1>8, <2>1
  <2> QED  BY <1>1, <1>3, <2>1, <2>4, <2>5
<1>18. CASE RssSkip
  <2>1. ~AtEnd /\ Collect(Top.entry)  BY <1>18 DEF RssSkip, Pass, Others
  <2> QED  BY <1>1, <1>2, <1>4, <1>18, <2>1 DEF RssSkip
<1>19. CASE RssItem  BY <1>1, <1>5, <1>19 DEF RssItem, Named
<1>20. CASE AtomEntry
  <2>1. out' \in Seq(Said)  BY <1>1, <1>8, <1>20 DEF AtomEntry
  <2> QED  BY <1>1, <1>5, <1>20, <2>1 DEF AtomEntry, Named
<1>21. CASE ItemElement
  <2> DEFINE e == IF Rss THEN RssData(Top.entry, At(node).name) ELSE AtomData(Top.entry, At(node).name)
  <2>1. e \in Entry  BY <1>1, <1>2, FeedTypes
  <2>2. ~AtEnd /\ Collect(e)  BY <1>21 DEF ItemElement
  <2> HIDE DEF e
  <2> QED  BY <1>1, <1>4, <1>21, <2>1, <2>2 DEF ItemElement
<1>22. CASE ItemEnd
  <2>1. out' \in Seq(Said)  BY <1>1, <1>2, <1>8, <1>22 DEF ItemEnd
  <2> QED  BY <1>1, <1>6, <1>22, <2>1 DEF ItemEnd
<1>23. CASE FeedEnd
  <2>1. out' \in Seq(Said)  BY <1>1, <1>8, <1>23 DEF FeedEnd
  <2> QED  BY <1>1, <1>7, <1>23, <2>1 DEF FeedEnd
<1> QED  BY <1>9, <1>10, <1>11, <1>12, <1>13, <1>14, <1>15, <1>16, <1>17, <1>18, <1>19, <1>20,
            <1>21, <1>22, <1>23 DEF Next

-----------------------------------------------------------------------------
(***************************************************************************)
(* The announcement of a feed.                                             *)
(***************************************************************************)
LEMMA SaysMore ==
  ASSUME NEW o \in Seq(Said), NEW r \in Said, r.kind # "playlist", RightlySaid(o),
         o = <<>> => (~Rss /\ Items = {}), NEW q, q = Append(o, r)
  PROVE  RightlySaid(q) /\ q # <<>>
<1>1. /\ DOMAIN o = 1 .. Len(o) /\ DOMAIN q = 1 .. Len(o) + 1 /\ Len(o) \in Nat
      /\ q[Len(o) + 1] = r /\ \A n \in 1 .. Len(o) : q[n] = o[n]
      /\ q # <<>>
  OBVIOUS
<1>2. \A n \in DOMAIN q : q[n].kind = "playlist" => n \in DOMAIN o /\ q[n] = o[n]
  BY <1>1
<1>3. o # <<>> => 1 \in DOMAIN o  OBVIOUS
<1> QED  BY <1>1, <1>2, <1>3 DEF RightlySaid

LEMMA AnnouncedInit ==
  ASSUME Rss \/ Atom, NEW c, c = <<Call(<<>>)>>, NEW f, f = NoEntry
  PROVE  Announced(c, f, "feed", <<>>)
<1>1. Len(c) = 1 /\ c[1].next = 1  BY DEF Call
<1>2. f.author = NULL /\ f.subtitle = NULL  BY DEF NoEntry
<1>3. SoFar(f, 1)
  <2>1. CASE Rss
    <3>1. 1 \in Nat \ {0}  OBVIOUS
    <3>2. ImageBefore(1) = NULL  BY <2>1, <3>1, ImageNext
    <3> QED  BY <1>2, <3>2, SaidNothing DEF SoFar
  <2>2. CASE ~Rss  BY <1>2, <2>2, SaidNothing DEF SoFar, ImageBefore
  <2> QED  BY <2>1, <2>2
<1>4. \A i \in 1 .. c[1].next - 1 : FALSE  BY <1>1
<1>5. DOMAIN <<>> = {}  OBVIOUS
<1>6. RightlySaid(<<>>)  BY <1>5 DEF RightlySaid
<1>7. Rss => ~Atom  BY DEF Rss, Atom
<1> QED  BY <1>1, <1>3, <1>4, <1>5, <1>6, <1>7 DEF Announced

\* The announcement is the first report, of what has been read so far, which
\* is all that is told.
LEMMA Announces ==
  ASSUME Typed, Rss \/ Atom, NEW n \in 1 .. At(<<>>).kids + 1, SoFar(feed, n),
         Told = ChildrenOf(<<>>, 1 .. n - 1), NEW o, o = <<Announcement>>
  PROVE  RightlySaid(o) /\ \A k \in DOMAIN o : o[k].kind # "ended"
<1>1. DOMAIN o = {1} /\ o[1] = Announcement /\ o # <<>>  OBVIOUS
<1>2. Announcement.kind = "playlist" /\ Announcement.entry = feed  BY DEF Announcement
<1>3. /\ ToldBy("author", "generator") = SaidBefore(n, "author", "generator")
      /\ ImageTold = ImageBefore(n)
  BY ToldIs DEF Typed
<1> QED  BY <1>1, <1>2, <1>3 DEF RightlySaid, SoFar

LEMMA AnnouncedNext ==
  ASSUME Basics, Next, Rss \/ Atom, Announced(calls, feed, phase, out)
  PROVE  Announced(calls', feed', phase', out')
<1>1. /\ Typed /\ Tree /\ Stacked(calls) /\ feed \in Entry /\ out \in Seq(Said)
      /\ phase \in {"feed", "items", "done"}
  BY DEF Basics, Typed
<1>2. /\ Len(calls) \in Nat \ {0} /\ Top.entry \in Entry /\ calls # <<>>
      /\ NoEntry \in Entry /\ Announcement \in Said /\ PlaylistEnd \in Said
      /\ \A e \in Entry : Report(e) \in Said
  BY <1>1, NodeIs, EntryTypes
<1>3. /\ Rss => ~Atom /\ ~Smil
      /\ Atom => ~Smil
      /\ ItemName = IF Rss THEN "item" ELSE "entry"
  BY DEF Rss, Atom, Smil, ItemName
<1>4. /\ (phase = "feed" /\ out = <<>>) => Len(calls) = 1 /\ SoFar(feed, calls[1].next)
      /\ (Rss /\ phase = "feed") => out = <<>>
      /\ (Rss /\ phase = "items") => out # <<>>
      /\ Atom => phase \in {"feed", "done"}
      /\ (Atom /\ out = <<>>) => /\ Len(calls) = 1
                                 /\ \A i \in 1 .. calls[1].next - 1 : Name(i) # "entry"
      /\ RightlySaid(out)
      /\ \A n \in DOMAIN out : out[n].kind = "ended" <=> (phase = "done" /\ n = Len(out))
  BY DEF Announced
<1>5. ~Smil  BY <1>3
\* Nothing is said, and the loop over the items goes on or ends.
<1>6. ASSUME phase' = phase, out' = out, out # <<>> PROVE Announced(calls', feed', phase', out')
  BY <1>4, <1>6 DEF Announced
<1>7. CASE FeedElement
  <2> DEFINE n == calls[1].next
  <2>1. InDocument /\ ~AtEnd /\ Collect(Top.entry) /\ out' = out /\ phase = "feed"
    BY <1>7 DEF FeedElement, Pass
  <2>2. /\ phase' = phase /\ Len(calls') = Len(calls)
        /\ calls'[Len(calls)] = [at |-> Top.at, next |-> Top.next + 1, entry |-> Top.entry]
    BY <1>1, <1>2, <2>1, Collects
  <2>3. CASE out = <<>>
    <3>1. /\ Len(calls) = 1 /\ Top = calls[1] /\ node = <<n>> /\ n \in Nat \ {0}
      BY <1>1, <2>1, InDocumentIs
    <3>2. SoFar(feed, n)  BY <1>4, <2>1, <2>3
    <3>3. feed' = FeedData(feed, Name(n))  BY <1>7, <3>1 DEF FeedElement, Name
    <3>4. Len(calls') = 1 /\ calls'[1].next = n + 1  BY <2>2, <3>1
    <3> HIDE DEF n
    <3>5. SoFar(feed', n + 1)  BY <1>1, <3>1, <3>2, <3>3, FeedNext
    <3>6. Atom => \A i \in 1 .. n : Name(i) # "entry"
      <4>1. Atom => Name(n) # "entry"
        BY <1>2, <1>3, <1>7, <2>1, <3>1 DEF FeedElement, Named, Name
      <4>2. Atom => \A i \in 1 .. n - 1 : Name(i) # "entry"  BY <1>4, <2>3 DEF n
      <4>3. \A i \in 1 .. n : i \in 1 .. n - 1 \/ i = n  BY <3>1
      <4> QED  BY <4>1, <4>2, <4>3
    <3>7. (n + 1) - 1 = n  BY <3>1
    <3> QED  BY <1>4, <2>1, <2>2, <2>3, <3>4, <3>5, <3>6, <3>7 DEF Announced
  <2>4. CASE out # <<>>  BY <1>6, <2>1, <2>2, <2>4
  <2> QED  BY <2>3, <2>4
<1>8. CASE RssAnnounce
  <2>1. /\ Rss /\ InDocument /\ AtEnd /\ phase = "feed" /\ phase' = "items"
        /\ out' = Append(out, Announcement)
    BY <1>8 DEF RssAnnounce
  <2>2. calls[1].next = At(<<>>).kids + 1 /\ At(<<>>).kids \in Nat
    BY <1>1, <2>1, InDocumentIs, TreeIs
  <2>3. SoFar(feed, At(<<>>).kids + 1) /\ out = <<>>  BY <1>4, <2>1, <2>2
  <2>4. Told = ChildrenOf(<<>>, 1 .. (At(<<>>).kids + 1) - 1)  BY <1>1, <2>1, <2>2, ToldWhole
  <2>5. out' = <<Announcement>> /\ out' # <<>>  BY <2>1, <2>3
  <2>6. At(<<>>).kids + 1 \in 1 .. At(<<>>).kids + 1  BY <2>2
  <2>7. RightlySaid(out') /\ \A k \in DOMAIN out' : out'[k].kind # "ended"
    BY <1>1, <2>1, <2>3, <2>4, <2>5, <2>6, Announces
  <2> QED  BY <1>3, <2>1, <2>5, <2>7 DEF Announced
<1>9. CASE RssSkip
  <2>1. Rss /\ phase = "items" /\ out' = out /\ phase' = phase
    BY <1>9 DEF RssSkip, Pass, Collect
  <2> QED  BY <1>4, <1>6, <2>1
<1>10. CASE RssItem
  <2>1. Rss /\ phase = "items" /\ out' = out /\ phase' = phase  BY <1>10 DEF RssItem
  <2> QED  BY <1>4, <1>6, <2>1
<1>11. CASE AtomEntry
  <2> DEFINE n == calls[1].next
  <2>1. /\ Atom /\ InDocument /\ ~AtEnd /\ At(node).name = "entry" /\ phase' = phase /\ feed' = feed
        /\ out' = IF out = <<>> THEN <<Announcement>> ELSE out
    BY <1>11 DEF AtomEntry, Named
  <2>2. phase = "feed"
    <3>1. phase # "done"  BY <2>1, NotDone
    <3> QED  BY <1>4, <2>1, <3>1
  <2>3. CASE out = <<>>
    <3>1. SoFar(feed, n) /\ \A i \in 1 .. n - 1 : Name(i) # "entry"  BY <1>4, <2>1, <2>2, <2>3
    <3>2. n \in Kids(<<>>) /\ n \in 1 .. At(<<>>).kids + 1 /\ Name(n) = "entry"
      BY <1>1, <2>1, InDocumentIs DEF Name
    <3> HIDE DEF n
    <3>3. Told = ChildrenOf(<<>>, 1 .. n - 1)  BY <1>1, <2>1, <3>1, <3>2, ToldWhole
    <3>4. out' = <<Announcement>> /\ out' # <<>>  BY <2>1, <2>3
    <3>5. RightlySaid(out') /\ \A k \in DOMAIN out' : out'[k].kind # "ended"
      BY <1>1, <2>1, <3>1, <3>2, <3>3, <3>4, Announces
    <3> QED  BY <1>3, <2>1, <2>2, <3>4, <3>5 DEF Announced
  <2>4. CASE out # <<>>  BY <1>6, <2>1, <2>4
  <2> QED  BY <2>3, <2>4
<1>12. ASSUME InEntry PROVE out # <<>> /\ phase # "done"
  <2>1. phase # "done"  BY <1>12, NotDone
  <2>2. Len(calls) # 1  BY <1>12 DEF InEntry
  <2> QED  BY <1>1, <1>4, <2>1, <2>2
<1>13. CASE ItemElement
  <2>1. InEntry /\ out' = out /\ phase' = phase  BY <1>13 DEF ItemElement, Collect
  <2> QED  BY <1>6, <1>12, <2>1
<1>14. CASE ItemEnd
  <2>1. /\ InEntry /\ phase' = phase
        /\ out' = IF Top.entry.uri = NULL THEN out ELSE Append(out, Report(Top.entry))
    BY <1>14 DEF ItemEnd
  <2>2. CASE out' = out  BY <1>6, <1>12, <2>1, <2>2
  <2>3. CASE out' = Append(out, Report(Top.entry))
    <3> DEFINE r == Report(Top.entry)
    <3>1. r \in Said /\ r.kind = "entry" /\ out # <<>> /\ phase # "done"
      BY <1>2, <1>12, <2>1 DEF Report
    <3>2. out' = Append(out, r)  BY <2>3
    <3> HIDE DEF r
    <3>3. RightlySaid(out') /\ out' # <<>>  BY <1>1, <1>4, <3>1, <3>2, SaysMore
    <3>4. \A n \in DOMAIN out' : out'[n].kind # "ended"
      <4>1. \A n \in DOMAIN out : out[n].kind # "ended"  BY <1>4, <3>1
      <4>2. \A n \in DOMAIN out' : out'[n] = r \/ (n \in DOMAIN out /\ out'[n] = out[n])
        BY <1>1, <3>1, <3>2
      <4> QED  BY <3>1, <4>1, <4>2
    <3> QED  BY <1>4, <2>1, <3>1, <3>3, <3>4 DEF Announced
  <2> QED  BY <2>1, <2>2, <2>3
<1>15. CASE FeedEnd
  <2>1. /\ (Rss /\ phase = "items") \/ (Atom /\ phase = "feed")
        /\ InDocument /\ AtEnd /\ phase' = "done" /\ out' = Append(out, PlaylistEnd) /\ calls' = calls
    BY <1>15 DEF FeedEnd
  <2>2. PlaylistEnd.kind = "ended" /\ phase # "done"  BY <2>1 DEF PlaylistEnd
  <2>3. out = <<>> => (~Rss /\ Items = {})
    <3> SUFFICES ASSUME out = <<>> PROVE ~Rss /\ Items = {}
      OBVIOUS
    <3>1. Atom /\ ~Rss  BY <1>3, <1>4, <2>1
    <3>2. \A i \in 1 .. calls[1].next - 1 : Name(i) # "entry"  BY <1>4, <3>1
    <3>3. calls[1].next = At(<<>>).kids + 1  BY <1>1, <2>1, InDocumentIs
    <3>4. At(<<>>).kids \in Nat /\ Tops = {<<i>> : i \in Kids(<<>>)}  BY <1>1, TopsAre
    <3>5. \A i \in Kids(<<>>) : At(<<i>>).name # "entry"
      <4>1. Kids(<<>>) = 1 .. calls[1].next - 1
        BY <3>3, <3>4 DEF Kids
      <4> QED  BY <3>2, <4>1, Zenon DEF Name
    <3>6. Items = {}  BY <1>3, <3>1, <3>4, <3>5 DEF Items
    <3> QED  BY <3>1, <3>6
  <2>4. RightlySaid(out') /\ out' # <<>>  BY <1>1, <1>2, <1>4, <2>1, <2>2, <2>3, SaysMore
  <2>5. \A n \in DOMAIN out' : out'[n].kind = "ended" <=> n = Len(out')
    <3> DEFINE r == PlaylistEnd
    <3>1. \A n \in DOMAIN out : out[n].kind # "ended"  BY <1>4, <2>2
    <3>2. r \in Said /\ r.kind = "ended" /\ out' = Append(out, r)  BY <1>2, <2>1, <2>2
    <3> HIDE DEF r
    <3>3. Len(out') = Len(out) + 1 /\ Len(out) \in Nat /\ DOMAIN out = 1 .. Len(out)
          /\ DOMAIN out' = 1 .. Len(out) + 1 /\ out'[Len(out) + 1] = r
          /\ \A n \in 1 .. Len(out) : out'[n] = out[n]
      BY <1>1, <3>2
    <3> QED  BY <3>1, <3>2, <3>3
  <2> QED  BY <2>1, <2>4, <2>5 DEF Announced
<1>16. ~(SmilHead \/ SmilBody \/ SmilMedia \/ SmilTextStream \/ SmilNested \/ SmilEntryEnd \/ SmilEnd)
  BY <1>5 DEF SmilHead, SmilBody, SmilMedia, SmilTextStream, SmilNested, SmilEntryEnd, SmilEnd
<1> QED  BY <1>7, <1>8, <1>9, <1>10, <1>11, <1>13, <1>14, <1>15, <1>16 DEF Next

-----------------------------------------------------------------------------
(***************************************************************************)
(* The items of a feed.                                                    *)
(***************************************************************************)
LEMMA ChildIs ==
  ASSUME Tree, NEW m \in Kids(<<>>), NEW k \in Nat \ {0}
  PROVE  LET a == <<m>>
             p == Append(a, k)
         IN  /\ a \in Paths /\ a \in Path /\ Len(a) = 1 /\ a[1] = m
             /\ p \in Path /\ Len(p) = 2 /\ p[1] = m /\ p[2] = k /\ p # NULL
             /\ k \in Kids(a) => p \in Paths
<1> DEFINE a == <<m>>
           p == Append(a, k)
<1>1. m \in Nat \ {0} /\ Append(<<>>, m) \in Paths  BY TreeIs
<1>2. a \in Path /\ Len(a) = 1 /\ a[1] = m /\ a \in Paths  BY <1>1, Rooted
<1> HIDE DEF a
<1>3. /\ p \in Path /\ Len(p) = Len(a) + 1 /\ p[Len(a) + 1] = k
      /\ \A l \in 1 .. Len(a) : p[l] = a[l] /\ p # <<>>
  BY <1>2, Appended
<1>4. k \in Kids(a) => p \in Paths  BY <1>2, TreeIs
<1> HIDE DEF p
<1>5. p[1] = m /\ Len(p) = 2 /\ p[2] = k /\ p # NULL
  BY <1>2, <1>3 DEF NULL
<1> QED  BY <1>2, <1>3, <1>4, <1>5 DEF p, a

LEMMA GrandchildIs ==
  ASSUME Tree, NEW m \in Kids(<<>>), NEW p \in Paths, Len(p) = 2, p[1] = m
  PROVE  p[2] \in Kids(<<m>>) /\ p = Append(<<m>>, p[2])
<1> DEFINE a == <<m>>
           q == Append(a, p[2])
<1>1. a \in Paths /\ a \in Path /\ Len(a) = 1 /\ a[1] = m /\ Kids(a) \subseteq Nat \ {0}
  <2>1. 1 \in Nat \ {0}  OBVIOUS
  <2>2. a \in Paths /\ a \in Path /\ Len(a) = 1 /\ a[1] = m  BY <2>1, ChildIs
  <2> QED  BY <2>2, TreeIs
<1>2. p \in Path /\ Inside(p, a)
  <2>1. p \in Path  BY TreeIs
  <2>2. Len(a) < Len(p) /\ \A l \in 1 .. Len(a) : a[l] = p[l]  BY <1>1
  <2> QED  BY <2>1, <2>2 DEF Inside
<1>3. p[Len(a) + 1] \in Kids(a)  BY <1>1, <1>2, Ancestor
<1>4. p[2] \in Kids(a) /\ p[2] \in Nat \ {0}  BY <1>1, <1>3
<1>5. q \in Path /\ Len(q) = 2 /\ q[1] = m /\ q[2] = p[2]  BY <1>4, ChildIs
<1> HIDE DEF q
<1>6. \A l \in 1 .. Len(p) : l = 1 \/ l = 2  OBVIOUS
<1>7. \A l \in 1 .. Len(p) : q[l] = p[l]  BY <1>5, <1>6
<1>8. q = p  BY <1>2, <1>5, <1>7, SeqEqual DEF Path
<1> QED  BY <1>4, <1>8 DEF q

LEMMA LocationsAre ==
  ASSUME Tree, NEW m \in Kids(<<>>)
  PROVE  /\ Locations(<<m>>) = ChildrenOf(<<m>>, LocatingBefore(<<m>>, At(<<m>>).kids + 1))
         /\ \A p : p[1] = m => Locations(p) = Locations(<<m>>)
<1> DEFINE a == <<m>>
           K == LocatingBefore(a, At(a).kids + 1)
<1>1. a \in Paths /\ a \in Path /\ Len(a) = 1 /\ a[1] = m /\ At(a).kids \in Nat
  <2>1. 1 \in Nat \ {0}  OBVIOUS
  <2>2. a \in Paths /\ a \in Path /\ Len(a) = 1 /\ a[1] = m  BY <2>1, ChildIs
  <2> QED  BY <2>2, TreeIs
<1>2. K = {k \in Kids(a) : Locating(Append(a, k))} /\ Kids(a) \subseteq Nat \ {0}
  BY <1>1 DEF LocatingBefore, Kids
<1>3. \A p : p[1] = m => Locations(p) = Locations(a)  BY <1>1 DEF Locations
<1>4. Locations(a) = {p \in Paths : Len(p) = 2 /\ p[1] = m /\ Locating(p)}
  BY <1>1 DEF Locations
<1>5. ASSUME NEW k \in K PROVE Append(a, k) \in Locations(a)
  <2>1. k \in Nat \ {0} /\ k \in Kids(a) /\ Locating(Append(a, k))  BY <1>2
  <2>2. Append(a, k) \in Paths /\ Len(Append(a, k)) = 2 /\ Append(a, k)[1] = m
    BY <2>1, ChildIs
  <2> QED  BY <1>4, <2>1, <2>2
<1>6. ASSUME NEW p \in Locations(a) PROVE \E k \in K : p = Append(a, k)
  <2>1. p \in Paths /\ Len(p) = 2 /\ p[1] = m /\ Locating(p)  BY <1>4
  <2>2. p[2] \in Kids(a) /\ p = Append(a, p[2])  BY <2>1, GrandchildIs
  <2> QED  BY <1>2, <2>1, <2>2
<1> HIDE DEF K
<1>7. Locations(a) = ChildrenOf(a, K)  BY <1>5, <1>6 DEF ChildrenOf
<1> QED  BY <1>3, <1>7 DEF K

\* One more element of an item.
LEMMA HeldNext ==
  ASSUME Tree, Rss \/ Atom, NEW m \in Kids(<<>>), NEW f \in Frame, f.at = <<m>>,
         f.next \in Kids(<<m>>), Held(f), node = Append(<<m>>, f.next),
         NEW e, e = IF Rss THEN RssData(f.entry, At(node).name) ELSE AtomData(f.entry, At(node).name),
         NEW g, g = [at |-> f.at, next |-> f.next + 1, entry |-> e]
  PROVE  Held(g)
<1> DEFINE a == <<m>>
           n == f.next
           name == At(node).name
           old == f.entry
           L == LocatingBefore(a, n)
           M == LocatingBefore(a, n + 1)
<1>1. /\ n \in Nat \ {0} /\ a \in Path /\ node \in Paths /\ Len(node) = 2 /\ node[1] = m
      /\ node # NULL /\ a[1] = m
  <2>1. n \in Nat \ {0}  BY DEF Frame
  <2> QED  BY <2>1, ChildIs
<1>2. \A property : Value(node, property) = IF Has(node, property) THEN node ELSE NULL
  BY DEF Value, Has
<1>3. g.at = a /\ g.next = n + 1 /\ g.entry = e  OBVIOUS
<1>4. /\ old.uri = LocationOf(LastOf(ChildrenOf(a, L))) /\ Of(old, m) /\ SizeRight(old, a)
  BY <1>1 DEF Held
<1>5. /\ L \in SUBSET (1 .. n - 1) /\ M = IF Locating(node) THEN L \cup {n} ELSE L
  <2>1. (n + 1) - 1 = n /\ 1 .. n = (1 .. n - 1) \cup {n} /\ n \notin 1 .. n - 1  BY <1>1
  <2>2. M = {k \in (1 .. n - 1) \cup {n} : Locating(Append(a, k))}  BY <2>1 DEF LocatingBefore
  <2>3. L = {k \in 1 .. n - 1 : Locating(Append(a, k))} /\ node = Append(a, n)
    BY DEF LocatingBefore
  <2> HIDE DEF L, M, n
  <2> QED  BY <2>1, <2>2, <2>3
<1>6. Locating(node) => LastOf(ChildrenOf(a, M)) = node  BY <1>1, <1>5, LastNext
<1>7. Locating(node) => node \in Locations(a)  BY <1>1 DEF Locations
<1>8. LocationOf(node) = IF name = "url" THEN Value(node, "data") ELSE node
  BY <1>1 DEF LocationOf
<1>9. Rss => ~Atom  BY DEF Rss, Atom
<1>10. old = [uri |-> old.uri, title |-> old.title, author |-> old.author, size |-> old.size,
              subtitle |-> old.subtitle]
  BY DEF Frame, Entry
<1> HIDE DEF a, n, old, L, M, name
<1>11. CASE Rss
  <2>1. /\ e.title = IF name = "title" THEN Value(node, "data") ELSE old.title
        /\ e.author = IF name = "author" THEN Value(node, "data") ELSE old.author
        /\ e.uri = IF name = "url" THEN Value(node, "data")
                   ELSE IF name \in {"enclosure", "audio_content"} /\ Value(node, "url") # NULL
                   THEN node ELSE old.uri
        /\ e.size = IF name = "length" THEN Value(node, "data")
                    ELSE IF name \in {"enclosure", "audio_content"} /\ Value(node, "url") # NULL
                    THEN Or(Value(node, "length"), old.size) ELSE old.size
    <3>1. e = RssData(old, name)  BY <1>11 DEF old, name
    <3> QED  BY <1>10, <3>1 DEF RssData
  <2>2. Locating(node) <=> \/ name \in {"enclosure", "audio_content"} /\ Has(node, "url")
                           \/ name = "url"
    BY <1>9, <1>11 DEF Locating, name
  <2>3. e.uri = IF Locating(node) THEN LocationOf(node) ELSE old.uri
    BY <1>1, <1>2, <1>8, <2>1, <2>2
  <2>4. e.uri = LocationOf(LastOf(ChildrenOf(a, M)))  BY <1>4, <1>5, <1>6, <2>3
  <2>5. Of(e, m)
    <3>1. /\ e.title \in {NULL, node, old.title} /\ e.author \in {NULL, node, old.author}
          /\ e.size \in {NULL, node, old.size}
      <4>1. e.title \in {NULL, node, old.title}  BY <1>2, <2>1
      <4>2. e.author \in {NULL, node, old.author}  BY <1>2, <2>1
      <4>3. e.size \in {NULL, node, old.size}  BY <1>2, <2>1 DEF Or
      <4> QED  BY <4>1, <4>2, <4>3
    <3> QED  BY <1>1, <1>4, <3>1 DEF Of
  <2>6. SizeRight(e, a)
    <3>1. CASE name = "length"  BY <1>2, <1>11, <2>1, <3>1 DEF SizeRight, name
    <3>2. CASE name \in {"enclosure", "audio_content"} /\ Value(node, "url") # NULL
      <4>1. Locating(node)  BY <1>2, <2>2, <3>2
      <4>2. e.size = old.size \/ e.size = node  BY <1>2, <2>1, <3>2 DEF Or
      <4> QED  BY <1>4, <1>7, <1>9, <1>11, <4>1, <4>2 DEF SizeRight
    <3>3. CASE e.size = old.size  BY <1>4, <1>9, <1>11, <3>3 DEF SizeRight
    <3> QED  BY <2>1, <3>1, <3>2, <3>3
  <2> QED  BY <1>1, <1>3, <2>4, <2>5, <2>6, Zenon DEF Held, M
<1>12. CASE Atom
  <2>1. /\ e.title = IF name = "title" THEN Value(node, "data") ELSE old.title
        /\ e.author = old.author
        /\ e.uri = IF name \in {"link", "enclosure"} /\ Value(node, "href") # NULL
                   THEN node ELSE old.uri
        /\ e.size = IF name \in {"link", "enclosure"} /\ Value(node, "href") # NULL
                    THEN Value(node, "length") ELSE old.size
    <3>1. e = AtomData(old, name)  BY <1>9, <1>12 DEF old, name
    <3> QED  BY <1>10, <3>1 DEF AtomData
  <2>2. Locating(node) <=> name \in {"link", "enclosure"} /\ Has(node, "href")
    BY <1>9, <1>12 DEF Locating, name
  <2>3. e.uri = IF Locating(node) THEN LocationOf(node) ELSE old.uri
    BY <1>1, <1>2, <1>8, <2>1, <2>2
  <2>4. e.uri = LocationOf(LastOf(ChildrenOf(a, M)))  BY <1>4, <1>5, <1>6, <2>3
  <2>5. Of(e, m)
    <3>1. /\ e.title \in {NULL, node, old.title} /\ e.author \in {NULL, node, old.author}
          /\ e.size \in {NULL, node, old.size}
      <4>1. e.title \in {NULL, node, old.title}  BY <1>2, <2>1
      <4>2. e.author \in {NULL, node, old.author}  BY <1>2, <2>1
      <4>3. e.size \in {NULL, node, old.size}  BY <1>2, <2>1
      <4> QED  BY <4>1, <4>2, <4>3
    <3> QED  BY <1>1, <1>4, <3>1 DEF Of
  <2>6. SizeRight(e, a)  BY <1>2, <1>4, <1>9, <1>12, <2>1 DEF SizeRight
  <2> QED  BY <1>1, <1>3, <2>4, <2>5, <2>6, Zenon DEF Held, M
<1> QED  BY <1>11, <1>12

LEMMA HeldInit ==
  ASSUME NEW p
  PROVE  Held(Call(p))
<1> DEFINE f == Call(p)
<1>1. f.at = p /\ f.next = 1 /\ f.entry = NoEntry  BY DEF Call
<1>2. LocatingBefore(p, 1) = {}  BY DEF LocatingBefore
<1>3. /\ NoEntry.uri = NULL /\ NoEntry.title = NULL /\ NoEntry.author = NULL
      /\ NoEntry.size = NULL
  BY DEF NoEntry
<1> HIDE DEF f
<1>4. LocationOf(LastOf(ChildrenOf(p, LocatingBefore(p, 1)))) = NULL
  BY <1>2, NoneIs DEF LocationOf
<1>5. Held(f)  BY <1>1, <1>3, <1>4 DEF Held, Of, SizeRight
<1> QED  BY <1>5 DEF f

\* An item is over: it is reported if it is located.
LEMMA ItemIs ==
  ASSUME Tree, Rss \/ Atom, NEW m \in Kids(<<>>), NEW f \in Frame, f.at = <<m>>,
         f.next = At(<<m>>).kids + 1, Held(f)
  PROVE  /\ f.entry.uri # NULL <=> Located(<<m>>)
         /\ f.entry.uri # NULL => /\ f.entry.uri = LastOf(Locations(<<m>>))
                                  /\ f.entry.uri[1] = m /\ EntryRight(f.entry)
<1> DEFINE a == <<m>>
           n == At(a).kids + 1
           L == LocatingBefore(a, n)
           p == LastOf(Locations(a))
           e == f.entry
<1>1. a \in Paths /\ a \in Path /\ a[1] = m /\ At(a).kids \in Nat
  <2>1. 1 \in Nat \ {0}  OBVIOUS
  <2>2. a \in Paths /\ a \in Path /\ a[1] = m  BY <2>1, ChildIs
  <2> QED  BY <2>2, TreeIs
<1>2. Locations(a) = ChildrenOf(a, L) /\ \A q : q[1] = m => Locations(q) = Locations(a)
  BY LocationsAre
<1>3. e.uri = LocationOf(p) /\ Of(e, m) /\ SizeRight(e, a)  BY <1>1, <1>2 DEF Held
<1>4. L \in SUBSET (1 .. At(a).kids)  BY <1>1 DEF LocatingBefore
<1> HIDE DEF L, n
<1>5. p # NULL => p[1] = m /\ p \in Locations(a)
  <2> SUFFICES ASSUME p # NULL PROVE p[1] = m /\ p \in Locations(a)
    OBVIOUS
  <2>1. L # {}  BY <1>1, <1>2, <1>4, SomeIs
  <2>2. PICK k \in L : p = Append(a, k)
    <3>1. \E k \in L : LastOf(ChildrenOf(a, L)) = Append(a, k)
      BY <1>1, <1>4, <2>1, LastIs
    <3> QED  BY <1>2, <3>1
  <2>3. k \in Nat \ {0}  BY <1>4
  <2>4. p[1] = m  BY <2>2, <2>3, ChildIs
  <2>5. p \in Locations(a)  BY <1>2, <2>2 DEF ChildrenOf
  <2> QED  BY <2>4, <2>5
<1>6. Located(a) <=> p # NULL /\ (At(p).name = "url" => Has(p, "data"))  BY DEF Located
<1> HIDE DEF p, a, e
<1>7. /\ e.uri # NULL <=> Located(a)
      /\ e.uri # NULL => e.uri = p /\ p # NULL
  BY <1>3, <1>6 DEF LocationOf, Value, Has
<1>8. e.uri # NULL => EntryRight(e)
  <2> SUFFICES ASSUME e.uri # NULL PROVE EntryRight(e)
    OBVIOUS
  <2>1. e.uri = p /\ p[1] = m /\ Locations(e.uri) = Locations(a)  BY <1>2, <1>5, <1>7
  <2>2. Of(e, e.uri[1])  BY <1>3, <2>1
  <2>3. Rss => ~Atom  BY DEF Rss, Atom
  <2>4. (Atom \/ Locations(e.uri) = {e.uri}) => e.size \in {NULL, e.uri} \/ At(e.size).name = "length"
    BY <1>3, <2>1, <2>3 DEF SizeRight
  <2> QED  BY <2>2, <2>4 DEF EntryRight
<1> QED  BY <1>5, <1>7, <1>8 DEF p, a, e

LEMMA LocatedNext ==
  ASSUME NEW m \in Nat \ {0}
  PROVE  LocatedBefore(m + 1) = IF Name(m) = ItemName /\ Located(<<m>>)
                                THEN LocatedBefore(m) \cup {m} ELSE LocatedBefore(m)
<1>1. (m + 1) - 1 = m /\ 1 .. m = (1 .. m - 1) \cup {m} /\ m \notin 1 .. m - 1  OBVIOUS
<1> QED  BY <1>1 DEF LocatedBefore

LEMMA GivenInit == Given(<<>>, 1)
<1>1. EntriesOf(<<>>) = {} /\ LocatedBefore(1) = {}  BY DEF EntriesOf, LocatedBefore
<1> QED  BY <1>1 DEF Given

LEMMA GivenSkip ==
  ASSUME NEW o, NEW m \in Nat \ {0}, Given(o, m), Name(m) # ItemName \/ ~Located(<<m>>),
         \A k \in EntriesOf(o) : o[k].entry \in Entry
  PROVE  Given(o, m + 1)
<1>1. LocatedBefore(m + 1) = LocatedBefore(m)  BY LocatedNext
<1>2. \A k \in EntriesOf(o) : /\ o[k].entry.uri # <<>> /\ o[k].entry.uri[1] < m + 1
                              /\ EntryRight(o[k].entry)
  <2> SUFFICES ASSUME NEW k \in EntriesOf(o)
               PROVE  /\ o[k].entry.uri # <<>> /\ o[k].entry.uri[1] < m + 1
                      /\ EntryRight(o[k].entry)
    OBVIOUS
  <2>1. /\ o[k].entry.uri # <<>> /\ o[k].entry.uri[1] < m /\ EntryRight(o[k].entry)
    BY DEF Given
  <2>2. o[k].entry.uri \in Path  BY DEF Entry
  <2>3. o[k].entry.uri[1] \in Nat  BY <2>1, <2>2 DEF Path
  <2> QED  BY <2>1, <2>3
<1> QED  BY <1>1, <1>2 DEF Given

\* A report that is no entry.
LEMMA GivenSaid ==
  ASSUME NEW o \in Seq(Said), NEW n, Given(o, n), NEW r \in Said, r.kind # "entry",
         NEW q, q = Append(o, r)
  PROVE  Given(q, n)
<1>1. /\ DOMAIN o = 1 .. Len(o) /\ DOMAIN q = 1 .. Len(o) + 1 /\ Len(o) \in Nat
      /\ q[Len(o) + 1] = r /\ \A k \in 1 .. Len(o) : q[k] = o[k]
  OBVIOUS
<1>2. EntriesOf(q) = EntriesOf(o) /\ \A k \in EntriesOf(o) : q[k] = o[k]  BY <1>1 DEF EntriesOf
<1>3. {q[k].entry.uri : k \in EntriesOf(q)} = {o[k].entry.uri : k \in EntriesOf(o)}
  BY <1>2
<1>4. \A k \in EntriesOf(q) : /\ q[k].entry.uri # <<>> /\ q[k].entry.uri[1] < n
                              /\ EntryRight(q[k].entry)
  BY <1>2 DEF Given
<1>5. \A k, l \in EntriesOf(q) : k < l => q[k].entry.uri[1] < q[l].entry.uri[1]
  <2> SUFFICES ASSUME NEW k \in EntriesOf(q), NEW l \in EntriesOf(q), k < l
               PROVE  q[k].entry.uri[1] < q[l].entry.uri[1]
    OBVIOUS
  <2>1. k \in EntriesOf(o) /\ l \in EntriesOf(o) /\ q[k] = o[k] /\ q[l] = o[l]  BY <1>2
  <2>2. o[k].entry.uri[1] < o[l].entry.uri[1]  BY <2>1 DEF Given
  <2> QED  BY <2>1, <2>2
<1>6. {q[k].entry.uri : k \in EntriesOf(q)} = {LastOf(Locations(<<i>>)) : i \in LocatedBefore(n)}
  BY <1>3, Zenon DEF Given
<1> QED  BY <1>4, <1>5, <1>6, Zenon DEF Given

LEMMA GivenMore ==
  ASSUME NEW o \in Seq(Said), NEW m \in Nat \ {0}, Given(o, m), Name(m) = ItemName,
         Located(<<m>>), NEW e \in Entry, e.uri = LastOf(Locations(<<m>>)), e.uri # NULL,
         e.uri[1] = m, EntryRight(e), NEW q, q = Append(o, Report(e))
  PROVE  Given(q, m + 1)
<1> DEFINE r == Report(e)
           l == Len(o) + 1
<1>1. r \in Said /\ r.kind = "entry" /\ r.entry = e  BY DEF Report, Said
<1>2. q = Append(o, r)  OBVIOUS
<1> HIDE DEF r
<1>3. /\ DOMAIN o = 1 .. Len(o) /\ DOMAIN q = 1 .. l /\ Len(o) \in Nat
      /\ q[l] = r /\ \A k \in 1 .. Len(o) : q[k] = o[k]
  BY <1>1, <1>2
<1> HIDE DEF l
<1>4. /\ EntriesOf(q) = EntriesOf(o) \cup {l} /\ q[l].entry = e
      /\ \A k \in EntriesOf(o) : q[k] = o[k] /\ k < l /\ k \in Nat
  BY <1>1, <1>3 DEF EntriesOf, l
<1>5. LocatedBefore(m + 1) = LocatedBefore(m) \cup {m}  BY LocatedNext
<1>6. \A k \in EntriesOf(o) : o[k].entry.uri[1] \in Nat /\ o[k].entry.uri[1] < m
  <2> SUFFICES ASSUME NEW k \in EntriesOf(o)
               PROVE  o[k].entry.uri[1] \in Nat /\ o[k].entry.uri[1] < m
    OBVIOUS
  <2>1. o[k] \in Said  BY DEF EntriesOf
  <2>2. o[k].entry.uri \in Path  BY <2>1 DEF Said, Entry
  <2>3. o[k].entry.uri # <<>> /\ o[k].entry.uri[1] < m  BY DEF Given
  <2> QED  BY <2>2, <2>3 DEF Path
<1>7. {q[k].entry.uri : k \in EntriesOf(q)}
        = {LastOf(Locations(<<i>>)) : i \in LocatedBefore(m + 1)}
  <2>1. {o[k].entry.uri : k \in EntriesOf(o)} = {LastOf(Locations(<<i>>)) : i \in LocatedBefore(m)}
    BY DEF Given
  <2>2. {q[k].entry.uri : k \in EntriesOf(q)} = {o[k].entry.uri : k \in EntriesOf(o)} \cup {e.uri}
    <3> DEFINE E == EntriesOf(o)
    <3>1. {q[k].entry.uri : k \in EntriesOf(q)} = {q[k].entry.uri : k \in E \cup {l}}
      BY <1>4
    <3>2. {q[k].entry.uri : k \in E \cup {l}} = {q[k].entry.uri : k \in E} \cup {q[l].entry.uri}
      OBVIOUS
    <3>3. {q[k].entry.uri : k \in E} = {o[k].entry.uri : k \in E}
      <4>1. \A k \in E : q[k].entry.uri = o[k].entry.uri  BY <1>4
      <4> HIDE DEF E
      <4> QED  BY <4>1, Zenon
    <3> QED  BY <1>4, <3>1, <3>2, <3>3, Zenon
  <2>3. {LastOf(Locations(<<i>>)) : i \in LocatedBefore(m + 1)}
          = {LastOf(Locations(<<i>>)) : i \in LocatedBefore(m)} \cup {LastOf(Locations(<<m>>))}
    BY <1>5
  <2> QED  BY <2>1, <2>2, <2>3
<1>8. \A k \in EntriesOf(q) : /\ q[k].entry.uri # <<>> /\ q[k].entry.uri[1] < m + 1
                              /\ EntryRight(q[k].entry)
  <2>1. \A k \in EntriesOf(o) : o[k].entry.uri # <<>> /\ EntryRight(o[k].entry)  BY DEF Given
  <2>2. \A k \in EntriesOf(o) : o[k].entry.uri[1] < m + 1  BY <1>6
  <2>3. e.uri # <<>> /\ m < m + 1  BY DEF NULL
  <2> QED  BY <1>4, <2>1, <2>2, <2>3
<1>9. \A k, j \in EntriesOf(q) : k < j => q[k].entry.uri[1] < q[j].entry.uri[1]
  <2> SUFFICES ASSUME NEW k \in EntriesOf(q), NEW j \in EntriesOf(q), k < j
               PROVE  q[k].entry.uri[1] < q[j].entry.uri[1]
    OBVIOUS
  <2>1. k \in EntriesOf(o)  BY <1>3, <1>4 DEF l
  <2>2. CASE j \in EntriesOf(o)  BY <1>4, <2>1, <2>2 DEF Given
  <2>3. CASE j = l  BY <1>4, <1>6, <2>1, <2>3
  <2> QED  BY <1>4, <2>2, <2>3
<1> QED  BY <1>7, <1>8, <1>9 DEF Given

LEMMA FeedingInit ==
  ASSUME NEW c, c = <<Call(<<>>)>>
  PROVE  Feeding(c, "feed", <<>>)
<1>1. Len(c) = 1 /\ c[1].next = 1  BY DEF Call
<1> QED  BY <1>1, GivenInit DEF Feeding, Reached

LEMMA FeedingNext ==
  ASSUME Basics, Next, Rss \/ Atom, Announced(calls, feed, phase, out), Feeding(calls, phase, out)
  PROVE  Feeding(calls', phase', out')
<1>1. /\ Typed /\ Tree /\ Stacked(calls) /\ feed \in Entry /\ out \in Seq(Said)
      /\ phase \in {"feed", "items", "done"}
  BY DEF Basics, Typed
<1>2. /\ Len(calls) \in Nat \ {0} /\ Top.entry \in Entry /\ Announcement \in Said
      /\ PlaylistEnd \in Said
  BY <1>1, NodeIs, EntryTypes
<1>3. /\ Rss => ~Atom /\ ~Smil
      /\ Atom => ~Smil
      /\ ItemName = IF Rss THEN "item" ELSE "entry"
      /\ Announcement.kind # "entry" /\ PlaylistEnd.kind # "entry"
  BY DEF Rss, Atom, Smil, ItemName, Announcement, PlaylistEnd
<1>4. /\ Len(calls) <= 2
      /\ Len(calls) = 2 => /\ phase = (IF Rss THEN "items" ELSE "feed")
                           /\ At(calls[2].at).name = ItemName
                           /\ Held(calls[2])
      /\ Given(out, Reached(calls, phase))
      /\ (Rss /\ phase = "feed") => out = <<>>
      /\ Atom => phase \in {"feed", "done"}
  BY DEF Feeding, Announced
<1>5. \A k \in EntriesOf(out) : out[k].entry \in Entry
  <2>1. \A k \in EntriesOf(out) : out[k] \in Said  BY <1>1 DEF EntriesOf
  <2> QED  BY <2>1 DEF Said
\* The loop over the elements of the document goes on.
<1>6. ASSUME InDocument, ~AtEnd, Collect(Top.entry), out' = out,
             (Rss /\ phase = "feed") \/ At(node).name # ItemName
      PROVE  Feeding(calls', phase', out')
  <2> DEFINE n == calls[1].next
  <2>1. Len(calls) = 1 /\ Top = calls[1] /\ node = <<n>> /\ n \in Nat \ {0}
    BY <1>1, <1>6, InDocumentIs
  <2>2. /\ phase' = phase /\ Len(calls') = Len(calls)
        /\ calls'[Len(calls)] = [at |-> Top.at, next |-> Top.next + 1, entry |-> Top.entry]
    BY <1>1, <1>2, <1>6, Collects
  <2>3. Len(calls') = 1 /\ calls'[1].next = n + 1  BY <2>1, <2>2
  <2> HIDE DEF n
  <2>4. Given(out, Reached(calls', phase'))
    <3>1. CASE Rss /\ phase = "feed"
      <4>1. Reached(calls', phase') = 1 /\ Reached(calls, phase) = 1  BY <2>2, <3>1 DEF Reached
      <4> QED  BY <1>4, <4>1
    <3>2. CASE ~(Rss /\ phase = "feed")
      <4>1. Reached(calls', phase') = n + 1 /\ Reached(calls, phase) = n
        BY <2>1, <2>2, <2>3, <3>2 DEF Reached, n
      <4>2. Name(n) # ItemName  BY <1>6, <2>1, <3>2 DEF Name
      <4> QED  BY <1>4, <1>5, <2>1, <4>1, <4>2, GivenSkip
    <3> QED  BY <3>1, <3>2
  <2>5. Len(calls') <= 2 /\ Len(calls') # 2  BY <2>3
  <2> QED  BY <1>6, <2>4, <2>5 DEF Feeding
\* An item begins.
<1>7. ASSUME InDocument, ~AtEnd, Enter, phase' = phase, At(node).name = ItemName,
             phase = (IF Rss THEN "items" ELSE "feed"), NEW o, Given(o, Reached(calls, phase)),
             out' = o
      PROVE  Feeding(calls', phase', out')
  <2> DEFINE n == calls[1].next
  <2>1. Len(calls) = 1 /\ Top = calls[1] /\ n \in Nat \ {0}  BY <1>1, <1>7, InDocumentIs
  <2>2. /\ Len(calls') = 2 /\ calls'[2] = Call(node)
        /\ calls'[1] = [at |-> Top.at, next |-> Top.next + 1, entry |-> Top.entry]
    <3>1. /\ Len(calls') = Len(calls) + 1
          /\ calls'[Len(calls)] = [at |-> Top.at, next |-> Top.next + 1, entry |-> Top.entry]
          /\ calls'[Len(calls) + 1] = Call(node)
      BY <1>1, <1>7, Enters
    <3> QED  BY <2>1, <3>1
  <2>3. calls'[1].next - 1 = n  BY <2>1, <2>2
  <2>4. Reached(calls', phase') = Reached(calls, phase)
    BY <1>3, <1>7, <2>1, <2>2, <2>3 DEF Reached
  <2>5. calls'[2].at = node /\ Held(calls'[2])  BY <2>2, HeldInit DEF Call
  <2>6. Given(out', Reached(calls', phase'))  BY <1>7, <2>4
  <2> QED  BY <1>7, <2>2, <2>5, <2>6 DEF Feeding
\* The feed is announced or ends.
<1>8. ASSUME Len(calls') = 1, NEW r \in Said, r.kind # "entry", out' = Append(out, r),
             Reached(calls', phase') = Reached(calls, phase)
      PROVE  Feeding(calls', phase', out')
  <2>1. Given(out', Reached(calls, phase))  BY <1>1, <1>4, <1>8, GivenSaid
  <2> QED  BY <1>8, <2>1 DEF Feeding
<1>9. ASSUME InEntry
      PROVE  LET m == calls[1].next - 1
             IN  /\ Len(calls) = 2 /\ Top = calls[2] /\ m \in Kids(<<>>) /\ calls[2].at = <<m>>
                 /\ Reached(calls, phase) = m /\ Name(m) = ItemName /\ m \in Nat \ {0}
                 /\ calls[1].next = m + 1 /\ ~(Rss /\ phase = "feed")
  <2> DEFINE m == calls[1].next - 1
  <2>1. Len(calls) = 2
    <3>1. Len(calls) > 1 /\ Len(calls) \in Nat /\ Len(calls) <= 2
      BY <1>2, <1>4, <1>9 DEF InEntry
    <3>2. \A n \in Nat : (n > 1 /\ n <= 2) => n = 2  OBVIOUS
    <3> QED  BY <3>1, <3>2, Zenon
  <2>2. m \in Kids(<<>>) /\ calls[2].at = Append(<<>>, m) /\ calls[1] \in Frame
    <3>1. 1 \in 1 .. Len(calls) - 1 /\ calls[1].at = <<>> /\ 1 + 1 = 2  BY <1>1, <2>1 DEF Stacked
    <3>2. calls[1].next - 1 \in Kids(calls[1].at)
          /\ calls[1 + 1].at = Append(calls[1].at, calls[1].next - 1)
      BY <1>1, <3>1 DEF Stacked
    <3>3. calls[1] \in Frame  BY <1>1, <2>1 DEF Stacked
    <3> QED  BY <3>1, <3>2, <3>3
  <2>3. m \in Nat \ {0} /\ calls[1].next = m + 1
    <3>1. m \in Nat \ {0}  BY <1>1, <2>2, TreeIs
    <3>2. calls[1].next \in Nat  BY <2>2 DEF Frame
    <3> QED  BY <3>1, <3>2
  <2> HIDE DEF m
  <2>4. calls[2].at = <<m>>  BY <2>2, <2>3, Rooted
  <2>5. ~(Rss /\ phase = "feed")  BY <1>4, <2>1
  <2>6. Reached(calls, phase) = m  BY <2>1, <2>5 DEF Reached, m
  <2>7. Name(m) = ItemName  BY <1>4, <2>1, <2>4 DEF Name
  <2>8. Top = calls[2]  BY <2>1 DEF Top
  <2> QED  BY <2>1, <2>2, <2>3, <2>4, <2>5, <2>6, <2>7, <2>8 DEF m
<1>10. CASE FeedElement
  <2>1. /\ InDocument /\ ~AtEnd /\ Collect(Top.entry) /\ out' = out /\ phase = "feed"
        /\ ~(Atom /\ Named({ItemName}))
    BY <1>10 DEF FeedElement, Pass
  <2>2. Atom => At(node).name # ItemName  BY <1>2, <2>1 DEF Named
  <2> QED  BY <1>6, <2>1, <2>2
<1>11. CASE RssAnnounce
  <2>1. /\ Rss /\ phase = "feed" /\ phase' = "items" /\ calls' = <<Call(<<>>)>>
        /\ out' = Append(out, Announcement)
    BY <1>11 DEF RssAnnounce
  <2>2. Len(calls') = 1 /\ calls'[1].next = 1  BY <2>1 DEF Call
  <2>3. Reached(calls', phase') = Reached(calls, phase)  BY <2>1, <2>2 DEF Reached
  <2> QED  BY <1>2, <1>3, <1>8, <2>1, <2>2, <2>3
<1>12. CASE RssSkip
  <2>1. /\ InDocument /\ ~AtEnd /\ Collect(Top.entry) /\ out' = out /\ Rss
        /\ At(node).name # "item"
    BY <1>12 DEF RssSkip, Pass, Others
  <2> QED  BY <1>3, <1>6, <2>1
<1>13. CASE RssItem
  <2>1. /\ InDocument /\ ~AtEnd /\ Enter /\ out' = out /\ Rss /\ phase = "items" /\ phase' = phase
        /\ At(node).name = "item"
    BY <1>13 DEF RssItem, Named
  <2> QED  BY <1>3, <1>4, <1>7, <2>1
<1>14. CASE AtomEntry
  <2>1. /\ InDocument /\ ~AtEnd /\ Enter /\ Atom /\ phase' = phase
        /\ At(node).name = "entry"
        /\ out' = IF out = <<>> THEN <<Announcement>> ELSE out
    BY <1>14 DEF AtomEntry, Named
  <2>2. phase = "feed"
    <3>1. phase # "done"  BY <2>1, NotDone
    <3> QED  BY <1>4, <2>1, <3>1
  <2>3. Given(out', Reached(calls, phase))
    <3>1. CASE out # <<>>  BY <1>4, <2>1, <3>1
    <3>2. CASE out = <<>>
      <4>1. out' = Append(out, Announcement)  BY <2>1, <3>2
      <4> QED  BY <1>1, <1>2, <1>3, <1>4, <4>1, GivenSaid
    <3> QED  BY <3>1, <3>2
  <2> QED  BY <1>3, <1>7, <2>1, <2>2, <2>3
<1>15. CASE ItemElement
  <2> DEFINE m == calls[1].next - 1
             f == calls[2]
             e == IF Rss THEN RssData(f.entry, At(node).name) ELSE AtomData(f.entry, At(node).name)
  <2>1. InEntry /\ ~AtEnd /\ out' = out  BY <1>15 DEF ItemElement
  <2>2. /\ Len(calls) = 2 /\ Top = f /\ m \in Kids(<<>>) /\ f.at = <<m>> /\ f \in Frame
        /\ node = Append(<<m>>, f.next) /\ f.next \in Kids(<<m>>) /\ Held(f)
        /\ node \in Path
    <3>1. Len(calls) = 2 /\ Top = f /\ m \in Kids(<<>>) /\ f.at = <<m>>  BY <1>9, <2>1
    <3>2. Top \in Frame /\ node = Append(Top.at, Top.next) /\ Top.next \in Kids(Top.at)
          /\ node \in Path
      BY <1>1, <2>1, NodeIs
    <3> HIDE DEF m, f
    <3> QED  BY <1>4, <3>1, <3>2 DEF f
  <2>3. Collect(e)  BY <1>15, <2>2 DEF ItemElement
  <2>4. e \in Entry  BY <1>1, <1>2, <2>2, FeedTypes
  <2> HIDE DEF e, f, m
  <2>5. /\ Len(calls') = 2 /\ phase' = phase /\ calls'[1] = calls[1]
        /\ calls'[2] = [at |-> f.at, next |-> f.next + 1, entry |-> e]
    <3>1. /\ Len(calls') = Len(calls) /\ UNCHANGED <<doc, phase>>
          /\ \A n \in 1 .. Len(calls) - 1 : calls'[n] = calls[n]
          /\ calls'[Len(calls)] = [at |-> Top.at, next |-> Top.next + 1, entry |-> e]
      BY <1>1, <2>1, <2>3, <2>4, Collects
    <3>2. 1 \in 1 .. Len(calls) - 1  BY <2>2
    <3> QED  BY <2>2, <3>1, <3>2
  <2>6. Held(calls'[2])
    <3>1. e = IF Rss THEN RssData(f.entry, At(node).name) ELSE AtomData(f.entry, At(node).name)
      BY DEF e
    <3> QED  BY <1>1, <2>2, <2>5, <3>1, HeldNext
  <2>7. Reached(calls', phase') = Reached(calls, phase)  BY <2>2, <2>5 DEF Reached
  <2>8. calls'[2].at = f.at  BY <2>5
  <2>9. phase' = (IF Rss THEN "items" ELSE "feed") /\ At(calls'[2].at).name = ItemName
    BY <1>4, <2>2, <2>5, <2>8 DEF f
  <2>10. Given(out', Reached(calls', phase'))  BY <1>4, <2>1, <2>7
  <2> QED  BY <2>5, <2>6, <2>9, <2>10 DEF Feeding
<1>16. CASE ItemEnd
  <2> DEFINE m == calls[1].next - 1
             f == calls[2]
  <2>1. /\ InEntry /\ AtEnd /\ phase' = phase /\ Leave
        /\ out' = IF Top.entry.uri = NULL THEN out ELSE Append(out, Report(Top.entry))
    BY <1>16 DEF ItemEnd
  <2>2. /\ Len(calls) = 2 /\ Top = f /\ m \in Kids(<<>>) /\ f.at = <<m>>
        /\ Reached(calls, phase) = m /\ Name(m) = ItemName /\ m \in Nat \ {0}
        /\ calls[1].next = m + 1 /\ ~(Rss /\ phase = "feed")
    BY <1>9, <2>1
  <2> HIDE DEF m, f
  <2>3. f \in Frame /\ f.next = At(<<m>>).kids + 1 /\ Held(f) /\ f.entry \in Entry
    <3>1. Top \in Frame /\ Top.next = At(Top.at).kids + 1  BY <1>1, <2>1, NodeIs
    <3> QED  BY <1>2, <1>4, <2>2, <3>1 DEF f
  <2>4. /\ f.entry.uri # NULL <=> Located(<<m>>)
        /\ f.entry.uri # NULL => /\ f.entry.uri = LastOf(Locations(<<m>>))
                                 /\ f.entry.uri[1] = m /\ EntryRight(f.entry)
    BY <1>1, <2>2, <2>3, ItemIs
  <2>5. Given(out', m + 1)
    <3>1. CASE f.entry.uri = NULL
      BY <1>4, <1>5, <2>1, <2>2, <2>4, <3>1, GivenSkip
    <3>2. CASE f.entry.uri # NULL
      <4>1. out' = Append(out, Report(f.entry))  BY <2>1, <2>2, <3>2
      <4> QED  BY <1>1, <1>4, <2>2, <2>3, <2>4, <3>2, <4>1, GivenMore
    <3> QED  BY <3>1, <3>2
  <2>6. Len(calls') = 1 /\ calls'[1] = calls[1]
    <3>1. Len(calls') = Len(calls) - 1 /\ \A n \in 1 .. Len(calls') : calls'[n] = calls[n]
      BY <1>1, <2>1, Leaves
    <3> QED  BY <2>2, <3>1
  <2>7. Reached(calls', phase') = m + 1  BY <2>1, <2>2, <2>6 DEF Reached
  <2> QED  BY <2>5, <2>6, <2>7 DEF Feeding
<1>17. CASE FeedEnd
  <2>1. /\ (Rss /\ phase = "items") \/ (Atom /\ phase = "feed")
        /\ InDocument /\ phase' = "done" /\ out' = Append(out, PlaylistEnd) /\ calls' = calls
    BY <1>17 DEF FeedEnd
  <2>2. Len(calls') = 1  BY <2>1 DEF InDocument
  <2>3. Reached(calls', phase') = Reached(calls, phase)  BY <1>3, <2>1 DEF Reached
  <2> QED  BY <1>2, <1>3, <1>8, <2>1, <2>2, <2>3
<1>18. ~(SmilHead \/ SmilBody \/ SmilMedia \/ SmilTextStream \/ SmilNested \/ SmilEntryEnd \/ SmilEnd)
  BY <1>3 DEF SmilHead, SmilBody, SmilMedia, SmilTextStream, SmilNested, SmilEntryEnd, SmilEnd
<1> QED  BY <1>10, <1>11, <1>12, <1>13, <1>14, <1>15, <1>16, <1>17, <1>18 DEF Next

\* At the end of a feed every item has been reported that is located.
LEMMA FedWhole ==
  ASSUME Typed, Stacked(calls), AllPassed(calls), phase = "done", Feeding(calls, phase, out)
  PROVE  FeedWhole
<1> DEFINE n == At(<<>>).kids + 1
<1>1. n \in Nat /\ n - 1 = At(<<>>).kids /\ Tops = {<<i>> : i \in Kids(<<>>)}
  <2>1. At(<<>>).kids \in Nat /\ Tops = {<<i>> : i \in Kids(<<>>)}  BY TopsAre DEF Typed
  <2> QED  BY <2>1
<1>2. Given(out, n)
  <2>1. Reached(calls, phase) = n  BY DEF AllPassed, Reached
  <2> QED  BY <2>1 DEF Feeding
<1> HIDE DEF n
<1>3. Entries = EntriesOf(out)  BY DEF Entries, EntriesOf
<1>4. {LastOf(Locations(<<i>>)) : i \in LocatedBefore(n)}
        = {LastOf(Locations(p)) : p \in {q \in Items : Located(q)}}
  <2>1. LocatedBefore(n) = {i \in Kids(<<>>) : Name(i) = ItemName /\ Located(<<i>>)}
    BY <1>1 DEF LocatedBefore, Kids
  <2>2. Items = {p \in {<<i>> : i \in Kids(<<>>)} : At(p).name = ItemName}  BY <1>1 DEF Items
  <2>3. {q \in Items : Located(q)} = {<<i>> : i \in LocatedBefore(n)}  BY <2>1, <2>2 DEF Name
  <2> QED  BY <2>3
<1>5. \A k \in EntriesOf(out) : out[k].entry.uri \in Path /\ Len(out[k].entry.uri) >= 1
  <2> SUFFICES ASSUME NEW k \in EntriesOf(out)
               PROVE  out[k].entry.uri \in Path /\ Len(out[k].entry.uri) >= 1
    OBVIOUS
  <2>1. out[k] \in Said /\ out[k].entry.uri # <<>>  BY <1>2 DEF EntriesOf, Given, Typed
  <2>2. out[k].entry.uri \in Path  BY <2>1 DEF Said, Entry
  <2> QED  BY <2>1, <2>2 DEF Path
<1>6. \A k, l \in EntriesOf(out) : k < l => Before(out[k].entry.uri, out[l].entry.uri)
  <2> SUFFICES ASSUME NEW k \in EntriesOf(out), NEW l \in EntriesOf(out), k < l
               PROVE  Before(out[k].entry.uri, out[l].entry.uri)
    OBVIOUS
  <2>1. out[k].entry.uri[1] < out[l].entry.uri[1]  BY <1>2 DEF Given
  <2> DEFINE p == out[k].entry.uri
             q == out[l].entry.uri
  <2>2. p \in Path /\ q \in Path /\ Len(p) >= 1 /\ Len(q) >= 1 /\ p[1] < q[1]  BY <1>5, <2>1
  <2> HIDE DEF p, q
  <2>3. Len(p) \in Nat  BY <2>2 DEF Path
  <2>4. PartsAt(p, q, 1)  BY <2>2, <2>3 DEF PartsAt
  <2>5. Before(p, q)  BY <2>2, <2>4, BeforeIs
  <2> QED  BY <2>5 DEF p, q
<1>7. \A k \in EntriesOf(out) : EntryRight(out[k].entry)  BY <1>2 DEF Given
<1>8. {out[k].entry.uri : k \in EntriesOf(out)}
        = {LastOf(Locations(p)) : p \in {q \in Items : Located(q)}}
  BY <1>2, <1>4, Zenon DEF Given
<1> QED  BY <1>3, <1>6, <1>7, <1>8, Zenon DEF FeedWhole, EntryRight, Of

-----------------------------------------------------------------------------
(***************************************************************************)
(* The media of a body, and where they are complete.                       *)
(***************************************************************************)
Skipped == MediaNames \cup {"textstream"}

LEMMA InsideChild ==
  ASSUME NEW d \in Path, NEW c \in Nat \ {0}, NEW p \in Path, Inside(Append(d, c), p)
  PROVE  d = p \/ Inside(d, p)
<1> DEFINE q == Append(d, c)
<1>1. /\ q \in Path /\ Len(q) = Len(d) + 1 /\ Len(d) \in Nat /\ Len(p) \in Nat
      /\ \A k \in 1 .. Len(d) : q[k] = d[k]
  BY Appended DEF Path
<1>2. Len(p) < Len(q) /\ \A k \in 1 .. Len(p) : p[k] = q[k]  BY DEF Inside
<1> HIDE DEF q
<1>3. \A k \in 1 .. Len(p) : p[k] = d[k]  BY <1>1, <1>2
<1>4. CASE Len(p) = Len(d)
  <2>1. d = p  BY <1>3, <1>4, SeqEqual DEF Path
  <2> QED  BY <2>1
<1>5. CASE Len(p) < Len(d)  BY <1>3, <1>5 DEF Inside
<1> QED  BY <1>1, <1>2, <1>4, <1>5

LEMMA PrefixOfAppended ==
  ASSUME NEW a \in Path, NEW m \in Nat \ {0}, NEW n \in 0 .. Len(a)
  PROVE  SubSeq(Append(a, m), 1, n) = SubSeq(a, 1, n)
<1> DEFINE q == Append(a, m)
           r == SubSeq(q, 1, n)
           s == SubSeq(a, 1, n)
<1>1. q \in Path /\ Len(q) = Len(a) + 1 /\ Len(a) \in Nat /\ \A k \in 1 .. Len(a) : q[k] = a[k]
  BY Appended
<1> HIDE DEF q
<1>2. s \in Path /\ Len(s) = n /\ \A k \in 1 .. n : s[k] = a[k]  BY PrefixIs
<1>3. n \in 0 .. Len(q)  BY <1>1
<1>4. r \in Path /\ Len(r) = n /\ \A k \in 1 .. n : r[k] = q[k]  BY <1>1, <1>3, PrefixIs
<1> HIDE DEF r, s
<1>5. \A k \in 1 .. n : r[k] = s[k]  BY <1>1, <1>2, <1>4
<1>6. r = s  BY <1>2, <1>4, <1>5, SeqEqual DEF Path
<1> QED  BY <1>6 DEF r, s, q

LEMMA WholeIs ==
  ASSUME NEW a \in Path
  PROVE  SubSeq(a, 1, Len(a)) = a
<1> DEFINE r == SubSeq(a, 1, Len(a))
<1>1. Len(a) \in 0 .. Len(a)  BY DEF Path
<1>2. r \in Path /\ Len(r) = Len(a) /\ \A k \in 1 .. Len(a) : r[k] = a[k]  BY <1>1, PrefixIs
<1> HIDE DEF r
<1>3. r = a  BY <1>2, SeqEqual DEF Path
<1> QED  BY <1>3 DEF r

\* Nothing on the way to an element within a body has been skipped.
LEMMA WithinPrefix ==
  ASSUME Tree, NEW a, Within(a), NEW p \in Path, Len(p) >= 2, a = p \/ Inside(a, p)
  PROVE  At(p).name \notin Skipped
<1>1. a \in Path /\ Len(a) \in Nat /\ Len(p) \in Nat  BY TreeIs DEF Within, Path
<1>2. p = SubSeq(a, 1, Len(p))
  <2>1. CASE a = p  BY <1>1, <2>1, WholeIs
  <2>2. CASE Inside(a, p)  BY <2>2, Ancestor DEF Within
  <2> QED  BY <2>1, <2>2
<1>3. Len(p) \in 2 .. Len(a)  BY <1>1 DEF Inside
<1> QED  BY <1>2, <1>3 DEF Within, Skipped

LEMMA WithinNext ==
  ASSUME Tree, NEW a, Within(a), NEW m \in Kids(a), At(Append(a, m)).name \notin Skipped
  PROVE  Within(Append(a, m)) /\ Append(a, m)[1] = a[1]
<1> DEFINE q == Append(a, m)
<1>1. a \in Path /\ a \in Paths /\ m \in Nat \ {0} /\ Len(a) \in Nat /\ Len(a) >= 1 /\ q \in Paths
  BY TreeIs DEF Within
<1>2. /\ q \in Path /\ Len(q) = Len(a) + 1 /\ \A k \in 1 .. Len(a) : q[k] = a[k]
  BY <1>1, Appended
<1>3. \A n \in 0 .. Len(a) : SubSeq(q, 1, n) = SubSeq(a, 1, n)  BY <1>1, PrefixOfAppended
<1>4. SubSeq(q, 1, Len(q)) = q  BY <1>2, WholeIs
<1>5. At(q).name \notin Skipped  OBVIOUS
<1> HIDE DEF q
<1>6. \A n \in 2 .. Len(q) : At(SubSeq(q, 1, n)).name \notin MediaNames \cup {"textstream"}
  <2> SUFFICES ASSUME NEW n \in 2 .. Len(q)
               PROVE  At(SubSeq(q, 1, n)).name \notin MediaNames \cup {"textstream"}
    OBVIOUS
  <2>1. CASE n = Len(q)  BY <1>4, <1>5, <2>1 DEF Skipped
  <2>2. CASE n # Len(q)
    <3>1. n \in 2 .. Len(a) /\ n \in 0 .. Len(a)  BY <1>1, <1>2, <2>2
    <3> QED  BY <1>3, <3>1 DEF Within
  <2> QED  BY <2>1, <2>2
<1>7. q[1] = a[1]  BY <1>1, <1>2
<1> QED  BY <1>1, <1>2, <1>6, <1>7 DEF Within, q

LEMMA MediaIs ==
  ASSUME Tree, NEW a \in Paths, Len(a) >= 1, NEW m \in Kids(a)
  PROVE  Append(a, m) \in Media <=> Within(a) /\ IsMedia(a, m)
<1> DEFINE q == Append(a, m)
<1>1. a \in Path /\ m \in Nat \ {0} /\ Len(a) \in Nat /\ q \in Paths  BY TreeIs
<1>2. /\ q \in Path /\ Len(q) = Len(a) + 1 /\ \A k \in 1 .. Len(a) : q[k] = a[k]
  BY <1>1, Appended
<1>3. \A n \in 0 .. Len(a) : SubSeq(q, 1, n) = SubSeq(a, 1, n)  BY <1>1, PrefixOfAppended
<1>4. IsMedia(a, m) <=> At(q).name \in MediaNames  BY DEF IsMedia
<1> HIDE DEF q
<1>5. 2 .. Len(q) - 1 = 2 .. Len(a) /\ q[1] = a[1] /\ Len(q) > 1  BY <1>1, <1>2
<1>6. \A n \in 2 .. Len(a) : SubSeq(q, 1, n) = SubSeq(a, 1, n)
  <2>1. \A n \in 2 .. Len(a) : n \in 0 .. Len(a)  BY <1>1
  <2> QED  BY <1>3, <2>1
<1>7. q \in Media <=> Within(a) /\ IsMedia(a, m)
  BY <1>1, <1>4, <1>5, <1>6 DEF Media, Within
<1> QED  BY <1>7 DEF q

LEMMA MediaAre ==
  ASSUME Tree, NEW q \in Media
  PROVE  \E a \in Paths : \E m \in Kids(a) : Within(a) /\ IsMedia(a, m) /\ q = Append(a, m)
<1>1. q \in Paths /\ Len(q) > 1  BY DEF Media
<1>2. q \in Path /\ q # <<>>  BY <1>1, TreeIs
<1>3. /\ Front(q) \in Paths /\ Last(q) \in Kids(Front(q))
      /\ q = Append(Front(q), Last(q)) /\ Len(Front(q)) = Len(q) - 1 /\ Len(q) \in Nat
  BY <1>1, <1>2, TreeIs, FrontAndLast
<1>4. Len(Front(q)) >= 1  BY <1>1, <1>3
<1>5. Within(Front(q)) /\ IsMedia(Front(q), Last(q))  BY <1>3, <1>4, MediaIs
<1> QED  BY <1>3, <1>5

\* What is said of the child m of a is complete at the child c, or behind the
\* last one.
Closes(a, m, c) ==
  /\ m \in Kids(a) /\ IsMedia(a, m) /\ c \in m + 1 .. At(a).kids + 1
  /\ \A k \in m + 1 .. c - 1 : ~IsMedia(a, k)
  /\ c = At(a).kids + 1 \/ IsMedia(a, c)

LEMMA MediaBehindIs ==
  ASSUME Tree, NEW a \in Paths, NEW m \in Kids(a)
  PROVE  MediaBehind(Append(a, m)) = ChildrenOf(a, {k \in m + 1 .. At(a).kids : IsMedia(a, k)})
<1> DEFINE p == Append(a, m)
           K == {k \in m + 1 .. At(a).kids : IsMedia(a, k)}
<1>1. a \in Path /\ m \in Nat \ {0} /\ At(a).kids \in Nat /\ Kids(a) \subseteq Nat \ {0}  BY TreeIs
<1>2. Siblings(p) = ChildrenOf(a, Kids(a))  BY SiblingsAre
<1>3. \A k \in Kids(a) : Before(p, Append(a, k)) <=> m < k  BY <1>1, BeforeSibling
<1>4. K = {k \in Kids(a) : IsMedia(a, k) /\ m < k}  BY <1>1 DEF Kids
<1> HIDE DEF K
<1>5. MediaBehind(p) = {q \in ChildrenOf(a, Kids(a)) : At(q).name \in MediaNames /\ Before(p, q)}
  BY <1>2 DEF MediaBehind
<1> HIDE DEF p
<1>6. MediaBehind(p) = ChildrenOf(a, K)
  BY <1>3, <1>4, <1>5 DEF ChildrenOf, IsMedia
<1> QED  BY <1>6 DEF p, K

LEMMA CompleteIs ==
  ASSUME Tree, NEW a \in Paths, NEW m, NEW c, Closes(a, m, c)
  PROVE  Complete(Append(a, m)) = Append(a, c) /\ c \in Nat \ {0}
<1> DEFINE p == Append(a, m)
           K == {k \in m + 1 .. At(a).kids : IsMedia(a, k)}
<1>1. /\ m \in Kids(a) /\ IsMedia(a, m) /\ c \in m + 1 .. At(a).kids + 1
      /\ \A k \in m + 1 .. c - 1 : ~IsMedia(a, k)
      /\ c = At(a).kids + 1 \/ IsMedia(a, c)
  BY DEF Closes
<1>2. a \in Path /\ m \in Nat \ {0} /\ At(a).kids \in Nat  BY <1>1, TreeIs
<1>3. MediaBehind(p) = ChildrenOf(a, K)  BY <1>1, MediaBehindIs
<1>4. Front(p) = a  BY <1>2, FrontAppended
<1>5. /\ K \in SUBSET (Nat \ {0}) /\ \A k \in K : c <= k
      /\ c \in K <=> c # At(a).kids + 1
      /\ K = {} <=> c = At(a).kids + 1
      /\ c \in Nat \ {0}
  <2>1. \A k \in K : k \in Nat \ {0}  BY <1>2
  <2>2. \A k \in K : c <= k
    <3> SUFFICES ASSUME NEW k \in K, ~(c <= k) PROVE FALSE
      OBVIOUS
    <3>1. k \in m + 1 .. c - 1 /\ IsMedia(a, k)  BY <1>1, <1>2
    <3> QED  BY <1>1, <3>1
  <2>3. c \in Nat \ {0}  BY <1>1, <1>2
  <2>4. c \in K <=> c # At(a).kids + 1
    <3>1. c # At(a).kids + 1 => c \in m + 1 .. At(a).kids  BY <1>1, <1>2
    <3>2. At(a).kids + 1 \notin K  BY <1>2
    <3> QED  BY <1>1, <3>1, <3>2
  <2>5. K = {} <=> c = At(a).kids + 1
    <3>1. ASSUME c = At(a).kids + 1, NEW k \in K PROVE FALSE
      <4>1. k <= At(a).kids /\ k \in Nat  BY <1>2
      <4> QED  BY <1>2, <2>2, <3>1, <4>1
    <3> QED  BY <2>4, <3>1
  <2> QED  BY <2>1, <2>2, <2>3, <2>4, <2>5
<1> HIDE DEF K
<1>6. Complete(p) = IF MediaBehind(p) = {} THEN Append(a, At(a).kids + 1)
                    ELSE FirstOf(MediaBehind(p))
  BY <1>4, Zenon DEF Complete
<1>7. MediaBehind(p) = {} <=> K = {}  BY <1>3 DEF ChildrenOf
<1>8. CASE K = {}
  <2>1. Complete(p) = Append(a, At(a).kids + 1)  BY <1>6, <1>7, <1>8
  <2> QED  BY <1>5, <1>8, <2>1
<1>9. CASE K # {}
  <2>1. FirstOf(ChildrenOf(a, K)) = Append(a, c)
    <3>1. c \in K  BY <1>5, <1>9
    <3> QED  BY <1>2, <1>5, <3>1, FirstSibling DEF ChildrenOf
  <2>2. Complete(p) = Append(a, c)  BY <1>3, <1>6, <1>7, <1>9, <2>1
  <2> QED  BY <1>5, <2>2
<1> QED  BY <1>8, <1>9

LEMMA ClosesSomewhere ==
  ASSUME Tree, NEW a \in Paths, NEW m \in Kids(a), IsMedia(a, m)
  PROVE  \E c : Closes(a, m, c)
<1> DEFINE n == At(a).kids
           K == {k \in m + 1 .. n + 1 : k = n + 1 \/ IsMedia(a, k)}
<1>1. m \in Nat \ {0} /\ n \in Nat /\ m <= n  BY TreeIs DEF Kids
<1> HIDE DEF n
<1>2. K \in SUBSET Nat /\ n + 1 \in K
  <2>1. \A k \in m + 1 .. n + 1 : k \in Nat  BY <1>1
  <2>2. n + 1 \in m + 1 .. n + 1  BY <1>1
  <2> QED  BY <2>1, <2>2
<1>3. PICK c \in K : \A k \in K : c <= k
  <2>1. K # {}  BY <1>2
  <2> HIDE DEF K
  <2> QED  BY <1>2, <2>1, HasLeast
<1>4. c \in m + 1 .. n + 1 /\ (c = n + 1 \/ IsMedia(a, c))  BY <1>3
<1>5. ASSUME NEW k \in m + 1 .. c - 1 PROVE ~IsMedia(a, k)
  <2>1. k \in m + 1 .. n + 1 /\ ~(c <= k)  BY <1>1, <1>4
  <2> QED  BY <1>3, <2>1
<1>6. Closes(a, m, c)  BY <1>4, <1>5 DEF Closes, n
<1> QED  BY <1>6

\* Every media element of a body, and where it is complete.
LEMMA MediaComplete ==
  ASSUME Tree, NEW q \in Media
  PROVE  \E a \in Paths : \E m, c : /\ Within(a) /\ Closes(a, m, c) /\ q = Append(a, m)
                                    /\ m \in Kids(a) /\ c \in Nat \ {0}
                                    /\ c <= At(a).kids + 1 /\ Complete(q) = Append(a, c)
<1>0. PICK a \in Paths : \E m \in Kids(a) : Within(a) /\ IsMedia(a, m) /\ q = Append(a, m)
  BY MediaAre
<1>1. PICK m \in Kids(a) : Within(a) /\ IsMedia(a, m) /\ q = Append(a, m)  BY <1>0
<1>2. PICK c : Closes(a, m, c)  BY <1>1, ClosesSomewhere
<1>3. Complete(Append(a, m)) = Append(a, c) /\ c \in Nat \ {0}  BY <1>2, CompleteIs
<1>4. c <= At(a).kids + 1
  <2>1. At(a).kids \in Nat /\ m \in Nat  BY TreeIs
  <2>2. c \in m + 1 .. At(a).kids + 1  BY <1>2 DEF Closes
  <2> QED  BY <2>1, <2>2
<1> QED  BY <1>1, <1>2, <1>3, <1>4

-----------------------------------------------------------------------------
(***************************************************************************)
(* What a step of the loops makes complete: at most what is complete at    *)
(* the element the step is past.                                           *)
(***************************************************************************)
\* p2 is the stop of the loops after p.
Passes(p, p2) ==
  \A q \in Media : Before(Complete(q), p2) <=> (Before(Complete(q), p) \/ Complete(q) = p)

LEMMA CompletePath ==
  ASSUME Tree, NEW q \in Media
  PROVE  Complete(q) \in Path /\ Len(Complete(q)) >= 2 /\ Name(Complete(q)[1]) = "body"
         /\ Complete(q)[1] \in Kids(<<>>)
<1>1. PICK a \in Paths : \E m, c : /\ Within(a) /\ Closes(a, m, c) /\ q = Append(a, m)
                                   /\ m \in Kids(a) /\ c \in Nat \ {0}
                                   /\ c <= At(a).kids + 1 /\ Complete(q) = Append(a, c)
  BY MediaComplete
<1>2. PICK c \in Nat \ {0} : Within(a) /\ Complete(q) = Append(a, c)  BY <1>1
<1>3. a \in Path /\ Len(a) \in Nat /\ Len(a) >= 1 /\ At(<<a[1]>>).name = "body"
  BY <1>2, TreeIs DEF Within
<1> DEFINE x == Complete(q)
<1>4. x \in Path /\ Len(x) = Len(a) + 1 /\ x[1] = a[1]
  <2>1. Append(a, c) \in Path /\ Len(Append(a, c)) = Len(a) + 1
        /\ \A k \in 1 .. Len(a) : Append(a, c)[k] = a[k]
    BY <1>3, Appended
  <2> QED  BY <1>2, <1>3, <2>1
<1>5. a[1] \in Kids(<<>>)
  <2>1. <<>> \in Path /\ Inside(a, <<>>) /\ Len(<<>>) + 1 = 1  BY <1>3, TreeIs DEF Inside
  <2> QED  BY <2>1, Ancestor
<1> HIDE DEF x
<1>6. Len(x) >= 2 /\ Name(x[1]) = "body"  BY <1>3, <1>4 DEF Name
<1> QED  BY <1>4, <1>5, <1>6 DEF x

LEMMA PassesEntering ==
  ASSUME Tree, NEW p \in Path
  PROVE  Passes(p, Append(p, 1))
<1> DEFINE r == Append(p, 1)
<1>1. r \in Path /\ Before(p, r)
  <2>1. 1 \in Nat \ {0}  OBVIOUS
  <2> QED  BY <2>1, Appended, ParentBefore
<1>2. \A x \in Path : Before(x, r) => (Before(x, p) \/ x = p)  BY BeforeFirst
<1> HIDE DEF r
<1>3. \A x \in Path : Before(x, p) => Before(x, r)  BY <1>1, BeforeTransitive
<1>4. \A q \in Media : Complete(q) \in Path  BY CompletePath
<1>5. Passes(p, r)  BY <1>1, <1>2, <1>3, <1>4, Zenon DEF Passes
<1> QED  BY <1>5 DEF r

LEMMA PassesHead ==
  ASSUME Tree, NEW n \in Kids(<<>>), Name(n) # "body"
  PROVE  Passes(<<n>>, <<n + 1>>)
<1> DEFINE p == <<n>>
           r == <<n + 1>>
<1>1. n \in Nat \ {0} /\ n + 1 \in Nat \ {0}
  <2>1. n \in Nat \ {0}  BY TreeIs
  <2> QED  BY <2>1
<1>2. /\ p \in Path /\ r \in Path /\ p = Append(<<>>, n) /\ r = Append(<<>>, n + 1)
      /\ <<>> \in Path /\ Len(p) = 1 /\ p[1] = n /\ Before(p, r)
  BY <1>1, Rooted, BeforeTop
<1>3. \A x \in Path : Before(x, r) => Before(x, p) \/ x = p \/ Inside(x, p)
  <2> SUFFICES ASSUME NEW x \in Path, Before(x, r) PROVE Before(x, p) \/ x = p \/ Inside(x, p)
    OBVIOUS
  <2>1. Before(x, Append(<<>>, n + 1))  BY <1>2
  <2>2. \/ Before(x, Append(<<>>, n)) \/ x = Append(<<>>, n) \/ Inside(x, Append(<<>>, n))
    BY <1>1, <1>2, <2>1, BeforeNext
  <2> QED  BY <1>2, <2>2
<1> HIDE DEF p, r
<1>4. ASSUME NEW q \in Media
      PROVE  Before(Complete(q), r) <=> (Before(Complete(q), p) \/ Complete(q) = p)
  <2>1. Complete(q) \in Path /\ Name(Complete(q)[1]) = "body"  BY CompletePath
  <2>2. ~Inside(Complete(q), p)
    <3>1. Inside(Complete(q), p) => Complete(q)[1] = n  BY <1>2 DEF Inside
    <3> QED  BY <2>1, <3>1
  <2>3. Before(Complete(q), p) => Before(Complete(q), r)  BY <1>2, <2>1, BeforeTransitive
  <2> QED  BY <1>2, <1>3, <2>1, <2>2, <2>3
<1>5. Passes(p, r)  BY <1>4, Zenon DEF Passes
<1> QED  BY <1>5 DEF p, r

LEMMA PassesSkipped ==
  ASSUME Tree, NEW a, Within(a), NEW n \in Kids(a), At(Append(a, n)).name \in Skipped
  PROVE  Passes(Append(a, n), Append(a, n + 1))
<1> DEFINE p == Append(a, n)
           r == Append(a, n + 1)
<1>1. a \in Path /\ n \in Nat \ {0} /\ n + 1 \in Nat \ {0} /\ Len(a) \in Nat /\ Len(a) >= 1
  <2>1. n \in Nat \ {0} /\ a \in Path /\ Len(a) \in Nat  BY TreeIs DEF Within
  <2> QED  BY <2>1 DEF Within
<1>2. p \in Path /\ r \in Path /\ Len(p) >= 2
  <2>1. p \in Path /\ r \in Path /\ Len(p) = Len(a) + 1  BY <1>1, Appended
  <2> HIDE DEF p, r
  <2> QED  BY <1>1, <2>1
<1>3. Before(p, r)
  <2>1. n < n + 1  BY <1>1
  <2> QED  BY <1>1, <2>1, BeforeSibling
<1>4. \A x \in Path : Before(x, r) => Before(x, p) \/ x = p \/ Inside(x, p)
  BY <1>1, BeforeNext
<1>5. At(p).name \in Skipped  OBVIOUS
<1> HIDE DEF p, r
<1>6. ASSUME NEW q \in Media
      PROVE  Before(Complete(q), r) <=> (Before(Complete(q), p) \/ Complete(q) = p)
  <2>1. Complete(q) \in Path  BY CompletePath
  <2>2. ~Inside(Complete(q), p)
    <3> SUFFICES ASSUME Inside(Complete(q), p) PROVE FALSE
      OBVIOUS
    <3>1. PICK d \in Paths, c \in Nat \ {0} : Within(d) /\ Complete(q) = Append(d, c)
      BY MediaComplete
    <3>2. d \in Path  BY TreeIs
    <3>3. d = p \/ Inside(d, p)  BY <1>2, <3>1, <3>2, InsideChild
    <3> QED  BY <1>2, <1>5, <3>1, <3>3, WithinPrefix
  <2>3. Before(Complete(q), p) => Before(Complete(q), r)
    BY <1>2, <1>3, <2>1, BeforeTransitive
  <2> QED  BY <1>3, <1>4, <2>1, <2>2, <2>3
<1>7. Passes(p, r)  BY <1>6, Zenon DEF Passes
<1> QED  BY <1>7 DEF p, r

LEMMA PassesLeaving ==
  ASSUME Tree, NEW b \in Path, NEW i \in Nat \ {0}, Append(b, i) \in Paths,
         NEW n, n = At(Append(b, i)).kids + 1
  PROVE  Passes(Append(Append(b, i), n), Append(b, i + 1))
<1> DEFINE a == Append(b, i)
           k == At(a).kids
           p == Append(a, n)
           r == Append(b, i + 1)
<1>1. /\ a \in Paths /\ a \in Path /\ k \in Nat /\ n = k + 1 /\ n \in Nat \ {0}
      /\ i + 1 \in Nat \ {0} /\ Len(a) = Len(b) + 1 /\ Len(b) \in Nat
  <2>1. a \in Path /\ k \in Nat  BY TreeIs
  <2>2. Len(a) = Len(b) + 1 /\ Len(b) \in Nat  BY Appended
  <2> QED  BY <2>1, <2>2
<1>2. p \in Path /\ r \in Path /\ Before(p, r)
  <2>1. p \in Path  BY <1>1, Appended
  <2>2. r \in Path  BY <1>1, Appended
  <2>3. Before(p, r)  BY <1>1, NextBehind
  <2> QED  BY <2>1, <2>2, <2>3
<1>3. ASSUME NEW q \in Media
      PROVE  Before(Complete(q), r) <=> (Before(Complete(q), p) \/ Complete(q) = p)
  <2>1. Complete(q) \in Path  BY CompletePath
  <2>2. PICK d \in Paths, c \in Nat \ {0} : Complete(q) = Append(d, c) /\ c <= At(d).kids + 1
    BY MediaComplete
  <2>3. d \in Path /\ Len(d) \in Nat  BY TreeIs
  <2>4. ~Inside(Complete(q), p)
    <3> SUFFICES ASSUME Inside(Complete(q), p) PROVE FALSE
      OBVIOUS
    <3>1. d = p \/ Inside(d, p)  BY <1>2, <2>2, <2>3, InsideChild
    <3>2. p \in Paths  BY <1>2, <3>1, Ancestor
    <3>3. Front(p) = a /\ Last(p) = n /\ p # <<>>  BY <1>1, FrontAppended, Appended
    <3>4. n \in Kids(a)  BY <3>2, <3>3, TreeIs
    <3> QED  BY <1>1, <3>4 DEF Kids
  <2>5. Inside(Complete(q), a) => Complete(q)[Len(b) + 2] <= k + 1
    <3> SUFFICES ASSUME Inside(Complete(q), a) PROVE Complete(q)[Len(a) + 1] <= k + 1
      BY <1>1
    <3> HIDE DEF a, k
    <3>1. d = a \/ Inside(d, a)  BY <1>1, <2>2, <2>3, InsideChild
    <3>2. /\ Complete(q)[Len(d) + 1] = c /\ \A l \in 1 .. Len(d) : Complete(q)[l] = d[l]
      BY <2>2, <2>3, Appended
    <3>3. CASE d = a  BY <2>2, <3>2, <3>3 DEF k
    <3>4. CASE Inside(d, a)
      <4>1. d[Len(a) + 1] \in Kids(a)  BY <1>1, <3>4, Ancestor
      <4>2. Len(a) + 1 \in 1 .. Len(d)  BY <1>1, <2>3, <3>4 DEF Inside
      <4>3. Complete(q)[Len(a) + 1] = d[Len(a) + 1]  BY <3>2, <4>2
      <4>4. k \in Nat /\ \A l \in Kids(a) : l <= k + 1  BY <1>1 DEF Kids, k
      <4> QED  BY <4>1, <4>3, <4>4
    <3> QED  BY <3>1, <3>3, <3>4
  <2>6. Before(Complete(q), r) => Before(Complete(q), p) \/ Complete(q) = p
    <3> SUFFICES ASSUME Before(Complete(q), r) PROVE Before(Complete(q), p) \/ Complete(q) = p
      OBVIOUS
    <3> DEFINE x == Complete(q)
    <3>1. x \in Path /\ Before(x, Append(b, i + 1))
          /\ (Inside(x, Append(b, i)) => x[Len(b) + 2] <= k + 1)
      BY <2>1, <2>5
    <3> HIDE DEF x, k
    <3>2. LET s == Append(Append(b, i), k + 1)
          IN  Before(x, s) \/ x = s \/ Inside(x, s)
      BY <1>1, <3>1, BeforeBehind
    <3>3. Before(x, p) \/ x = p \/ Inside(x, p)  BY <1>1, <3>2
    <3> QED  BY <2>4, <3>3 DEF x
  <2>7. Before(Complete(q), p) => Before(Complete(q), r)  BY <1>2, <2>1, BeforeTransitive
  <2> QED  BY <1>2, <2>6, <2>7
<1> HIDE DEF p, r
<1>4. Passes(p, r)  BY <1>3, Zenon DEF Passes
<1> QED  BY <1>4 DEF p, r, a

\* At one child of a at most one media element becomes complete.
LEMMA ClosesHere ==
  ASSUME Tree, NEW a \in Paths, NEW n \in Nat \ {0}, NEW q \in Media, Complete(q) = Append(a, n)
  PROVE  /\ Within(a)
         /\ n = At(a).kids + 1 \/ IsMedia(a, n)
         /\ \E m : Closes(a, m, n) /\ q = Append(a, m)
<1>1. PICK d \in Paths : \E m, c : /\ Within(d) /\ Closes(d, m, c) /\ q = Append(d, m)
                                   /\ m \in Kids(d) /\ c \in Nat \ {0}
                                   /\ c <= At(d).kids + 1 /\ Complete(q) = Append(d, c)
  BY MediaComplete
<1>2. PICK m, c : /\ Within(d) /\ Closes(d, m, c) /\ q = Append(d, m) /\ c \in Nat \ {0}
                  /\ Complete(q) = Append(d, c)
  BY <1>1
<1>3. a \in Path /\ d \in Path  BY TreeIs
<1>4. d = a /\ c = n  BY <1>2, <1>3, SameAppended
<1>5. c = At(d).kids + 1 \/ IsMedia(d, c)  BY <1>2 DEF Closes
<1> QED  BY <1>2, <1>4, <1>5

LEMMA ClosesOne ==
  ASSUME Tree, NEW a \in Paths, NEW n, NEW l, NEW m, Closes(a, l, n), Closes(a, m, n)
  PROVE  l = m
<1>1. /\ l \in Kids(a) /\ m \in Kids(a) /\ IsMedia(a, l) /\ IsMedia(a, m) /\ At(a).kids \in Nat
      /\ n \in l + 1 .. At(a).kids + 1 /\ n \in m + 1 .. At(a).kids + 1
      /\ \A k \in l + 1 .. n - 1 : ~IsMedia(a, k)
      /\ \A k \in m + 1 .. n - 1 : ~IsMedia(a, k)
  BY TreeIs DEF Closes
<1>2. l \in Nat /\ m \in Nat /\ n \in Nat /\ l < n /\ m < n  BY <1>1, TreeIs
<1>3. ~(l < m)
  <2>1. l < m => m \in l + 1 .. n - 1  BY <1>2
  <2> QED  BY <1>1, <2>1
<1>4. ~(m < l)
  <2>1. m < l => l \in m + 1 .. n - 1  BY <1>2
  <2> QED  BY <1>1, <2>1
<1> QED  BY <1>2, <1>3, <1>4

-----------------------------------------------------------------------------
(***************************************************************************)
(* The report of a media element.                                          *)
(***************************************************************************)
LEMMA FirstIsFirst ==
  ASSUME NEW S \in SUBSET Path, NEW t, IsFirst(t, S)
  PROVE  FirstOf(S) = t /\ t \in S
<1>1. t \in S /\ \A q \in S : t = q \/ Before(t, q)  BY DEF IsFirst
<1>2. ASSUME NEW p \in S, \A q \in S : p = q \/ Before(p, q) PROVE p = t
  <2>1. p \in Path /\ t \in Path  BY <1>1
  <2>2. CASE Before(p, t) /\ Before(t, p)
    <3>1. Before(p, p)  BY <2>1, <2>2, BeforeTransitive
    <3> QED  BY <2>1, <3>1, NotBeforeItself
  <2> QED  BY <1>1, <1>2, <2>2
<1>3. FirstOf(S) = CHOOSE p \in S : \A q \in S : p = q \/ Before(p, q)  BY <1>1 DEF FirstOf
<1> QED  BY <1>1, <1>2, <1>3

LEMMA TextsAre ==
  ASSUME Tree, NEW a \in Paths, NEW m, NEW c, Closes(a, m, c)
  PROVE  TextsOf(Append(a, m)) = ChildrenOf(a, Texts(a, m, c))
<1> DEFINE p == Append(a, m)
           n == At(a).kids
           B == {k \in m + 1 .. n : IsMedia(a, k)}
           T == Texts(a, m, c)
<1>1. /\ m \in Kids(a) /\ c \in m + 1 .. n + 1
      /\ \A k \in m + 1 .. c - 1 : ~IsMedia(a, k)
      /\ c = n + 1 \/ IsMedia(a, c)
  BY DEF Closes
<1>2. a \in Path /\ m \in Nat \ {0} /\ n \in Nat /\ Kids(a) \subseteq Nat \ {0} /\ Kids(a) = 1 .. n
  BY <1>1, TreeIs DEF Kids
<1>3. Siblings(p) = ChildrenOf(a, Kids(a))  BY <1>1, SiblingsAre
<1>4. MediaBehind(p) = ChildrenOf(a, B)  BY <1>1, MediaBehindIs
<1>5. \A k \in Kids(a) : Before(p, Append(a, k)) <=> m < k  BY <1>2, BeforeSibling
<1>6. \A k \in Kids(a) : \A j \in B : Before(Append(a, k), Append(a, j)) <=> k < j
  <2>1. \A j \in B : j \in Nat \ {0}  BY <1>2
  <2> QED  BY <1>2, <2>1, BeforeSibling
<1>7. TextsOf(p) = {q \in ChildrenOf(a, Kids(a)) :
                      /\ At(q).name = "textstream" /\ Before(p, q)
                      /\ \A b \in ChildrenOf(a, B) : Before(q, b)}
  BY <1>3, <1>4, Zenon DEF TextsOf
<1>8. ASSUME NEW k \in Kids(a), At(Append(a, k)).name = "textstream"
      PROVE  (m < k /\ \A j \in B : k < j) <=> k \in m + 1 .. c - 1
  <2>1. k \in Nat /\ k >= 1 /\ k <= n /\ c \in Nat  BY <1>1, <1>2
  <2>2. ASSUME k \in m + 1 .. c - 1, NEW j \in B PROVE k < j
    <3>1. j \notin m + 1 .. c - 1 /\ j \in m + 1 .. n  BY <1>1
    <3> QED  BY <1>2, <2>1, <2>2, <3>1
  <2>3. ASSUME m < k, \A j \in B : k < j PROVE k \in m + 1 .. c - 1
    <3>1. CASE c = n + 1  BY <1>2, <2>1, <2>3, <3>1
    <3>2. CASE c # n + 1
      <4>1. c \in B  BY <1>1, <1>2, <3>2
      <4>2. k < c  BY <2>3, <4>1
      <4> QED  BY <1>2, <2>1, <2>3, <4>2
    <3> QED  BY <3>1, <3>2
  <2>4. k \in m + 1 .. c - 1 => m < k  BY <1>2, <2>1
  <2> QED  BY <2>2, <2>3, <2>4
<1>9. T = {k \in Kids(a) : At(Append(a, k)).name = "textstream" /\ k \in m + 1 .. c - 1}
  <2>1. \A k \in m + 1 .. c - 1 : k \in Kids(a)  BY <1>1, <1>2
  <2> QED  BY <2>1 DEF Texts
<1> HIDE DEF B, T, p, n
<1>10. \A k \in Kids(a) : Append(a, k) \in TextsOf(p) <=> k \in T
  <2> SUFFICES ASSUME NEW k \in Kids(a) PROVE Append(a, k) \in TextsOf(p) <=> k \in T
    OBVIOUS
  <2>1. Append(a, k) \in ChildrenOf(a, Kids(a))  BY DEF ChildrenOf
  <2>2. Append(a, k) \in TextsOf(p) <=>
          /\ At(Append(a, k)).name = "textstream" /\ Before(p, Append(a, k))
          /\ \A b \in ChildrenOf(a, B) : Before(Append(a, k), b)
    BY <1>7, <2>1
  <2>3. (\A b \in ChildrenOf(a, B) : Before(Append(a, k), b)) <=> \A j \in B : k < j
    BY <1>6 DEF ChildrenOf
  <2> QED  BY <1>5, <1>8, <1>9, <2>2, <2>3
<1>11. TextsOf(p) \subseteq ChildrenOf(a, Kids(a)) /\ T \subseteq Kids(a)  BY <1>7, <1>9
<1>12. TextsOf(p) = ChildrenOf(a, T)  BY <1>10, <1>11 DEF ChildrenOf
<1> QED  BY <1>12 DEF p, T

LEMMA MediaReportIs ==
  ASSUME Tree, NEW a, Within(a), NEW m, NEW c, Closes(a, m, c)
  PROVE  LET p == Append(a, m)
         IN  MediaReport(p) = [uri |-> p,
                               title |-> Or(Value(p, "title"), FirstOf(HeadsBefore(a[1]))),
                               author |-> Value(p, "author"), size |-> NULL,
                               subtitle |-> TextIn(a, m, c)]
<1> DEFINE p == Append(a, m)
<1>1. a \in Paths /\ a \in Path /\ m \in Nat \ {0} /\ Len(a) \in Nat /\ Len(a) >= 1
  <2>1. a \in Paths /\ Len(a) >= 1 /\ m \in Kids(a)  BY DEF Within, Closes
  <2> QED  BY <2>1, TreeIs
<1>2. p[1] = a[1]  BY <1>1, Appended
<1>3. TextsOf(p) = ChildrenOf(a, Texts(a, m, c))  BY <1>1, TextsAre
<1>4. HeadTitles(p) = HeadsBefore(a[1])  BY <1>2 DEF HeadTitles, HeadsBefore
<1> HIDE DEF p
<1>5. MediaReport(p) =
        LET text == LastOf(TextsOf(p))
        IN  [uri |-> p, title |-> Or(Value(p, "title"), FirstOf(HeadTitles(p))),
             author |-> Value(p, "author"), size |-> NULL,
             subtitle |-> IF text = NULL THEN NULL ELSE Value(text, "src")]
  BY Zenon DEF MediaReport
<1>6. TextIn(a, m, c) = IF LastOf(TextsOf(p)) = NULL THEN NULL ELSE Value(LastOf(TextsOf(p)), "src")
  BY <1>3 DEF TextIn
<1>7. MediaReport(p) = [uri |-> p,
                        title |-> Or(Value(p, "title"), FirstOf(HeadsBefore(a[1]))),
                        author |-> Value(p, "author"), size |-> NULL,
                        subtitle |-> TextIn(a, m, c)]
  BY <1>4, <1>5, <1>6
<1> QED  BY <1>7 DEF p

LEMMA ReportedUri ==
  ASSUME NEW q
  PROVE  Report(MediaReport(q)).entry.uri = q
BY DEF Report, MediaReport

\* Nothing becomes complete that has an address.
LEMMA SentSame ==
  ASSUME NEW o, NEW p, NEW p2, Sent(o, p), Passes(p, p2),
         \A q \in Media : Complete(q) = p => ~Has(q, "src")
  PROVE  Sent(o, p2)
<1>1. Due(p2) = Due(p)
  <2>1. \A q \in Media : Has(q, "src") => (Before(Complete(q), p2) <=> Before(Complete(q), p))
    BY Zenon DEF Passes
  <2>2. \A q : q \in Due(p2) <=> q \in Due(p)  BY <2>1, Zenon DEF Due
  <2> QED  BY <2>2, Zenon
<1> QED  BY <1>1, Zenon DEF Sent

LEMMA SentMore ==
  ASSUME Tree, NEW o \in Seq(Said), NEW p, NEW p2, Sent(o, p), Passes(p, p2),
         NEW m \in Media, Complete(m) = p, Has(m, "src"),
         \A q \in Media : Complete(q) = p => q = m,
         Report(MediaReport(m)) \in Said, NEW o2, o2 = Append(o, Report(MediaReport(m)))
  PROVE  Sent(o2, p2)
<1> DEFINE R(q) == Report(MediaReport(q))
           l == Len(o) + 1
<1>1. \A q : R(q).entry.uri = q  BY ReportedUri
<1>2. /\ DOMAIN o = 1 .. Len(o) /\ DOMAIN o2 = 1 .. l /\ Len(o) \in Nat
      /\ o2[l] = R(m) /\ \A k \in 1 .. Len(o) : o2[k] = o[k]
  <2> DEFINE r == R(m)
  <2>1. r \in Said /\ o2 = Append(o, r)  OBVIOUS
  <2> HIDE DEF r
  <2>2. /\ DOMAIN o = 1 .. Len(o) /\ DOMAIN o2 = 1 .. l /\ Len(o) \in Nat
        /\ o2[l] = r /\ \A k \in 1 .. Len(o) : o2[k] = o[k]
    BY <2>1
  <2> QED  BY <2>2 DEF r
<1> HIDE DEF R, l
<1>3. /\ DOMAIN o2 = DOMAIN o \cup {l} /\ l \notin DOMAIN o
      /\ \A k \in DOMAIN o : k < l /\ o2[k] = o[k]
  BY <1>2 DEF l
<1>4. Due(p2) = Due(p) \cup {m}
  <2>1. \A q \in Media : Has(q, "src") =>
          (Before(Complete(q), p2) <=> (Before(Complete(q), p) \/ q = m))
    BY Zenon DEF Passes
  <2>2. \A q : q \in Due(p2) <=> (q \in Due(p) \/ q = m)  BY <2>1, Zenon DEF Due
  <2> QED  BY <2>2
<1>5. {o[k] : k \in DOMAIN o} = {R(q) : q \in Due(p)}  BY Zenon DEF Sent, R
<1>6. {o2[k] : k \in DOMAIN o2} = {R(q) : q \in Due(p2)}
  <2>1. {o2[k] : k \in DOMAIN o2} = {o[k] : k \in DOMAIN o} \cup {R(m)}  BY <1>2, <1>3
  <2>2. {R(q) : q \in Due(p2)} = {R(q) : q \in Due(p)} \cup {R(m)}  BY <1>4
  <2> QED  BY <1>5, <2>1, <2>2
<1>7. \A j, k \in DOMAIN o2 :
        j < k => Before(Complete(o2[j].entry.uri), Complete(o2[k].entry.uri))
  <2> SUFFICES ASSUME NEW j \in DOMAIN o2, NEW k \in DOMAIN o2, j < k
               PROVE  Before(Complete(o2[j].entry.uri), Complete(o2[k].entry.uri))
    OBVIOUS
  <2>1. j \in DOMAIN o /\ o2[j] = o[j]  BY <1>2, <1>3 DEF l
  <2>2. CASE k \in DOMAIN o
    <3>1. o2[k] = o[k]  BY <1>3, <2>2
    <3> QED  BY <2>1, <2>2, <3>1 DEF Sent
  <2>3. CASE k = l
    <3>1. Complete(o2[k].entry.uri) = p  BY <1>1, <1>2, <2>3
    <3>2. PICK q \in Due(p) : o[j] = R(q)  BY <1>5, <2>1
    <3>3. Before(Complete(q), p)  BY DEF Due
    <3>4. o2[j].entry.uri = q  BY <1>1, <2>1, <3>2
    <3> QED  BY <3>1, <3>3, <3>4
  <2> QED  BY <1>3, <2>2, <2>3
<1> QED  BY <1>6, <1>7, Zenon DEF Sent, R

Titled(e, t) == [e EXCEPT !.title = IF e.title # NULL THEN e.title ELSE t]

Closing(f) == \/ f.next = At(f.at).kids + 1
              \/ f.next \in Kids(f.at) /\ IsMedia(f.at, f.next)

SentBy(o, e, t) == IF e.uri = NULL THEN o ELSE Append(o, Report(Titled(e, t)))

LEMMA SendIs ==
  ASSUME NEW e, Send(e)
  PROVE  out' = SentBy(out, e, title)
BY DEF Send, Titled, SentBy

\* A loop sends the entry that has been waiting, when it comes to the next media
\* element or to its end.
LEMMA Sends ==
  ASSUME Tree, NEW f \in Frame, Within(f.at), Waiting(f), Closing(f),
         FirstOf(HeadsBefore(f.at[1])) \in Path, NEW p2, Passes(Append(f.at, f.next), p2),
         NEW o \in Seq(Said), Sent(o, Append(f.at, f.next))
  PROVE  Sent(SentBy(o, f.entry, FirstOf(HeadsBefore(f.at[1]))), p2)
<1> DEFINE t  == FirstOf(HeadsBefore(f.at[1]))
           p  == Append(f.at, f.next)
           o2 == SentBy(o, f.entry, t)
<1>1. o2 = IF f.entry.uri = NULL THEN o ELSE Append(o, Report(Titled(f.entry, t)))
  BY DEF SentBy
<1>2. f.next = At(f.at).kids + 1 \/ (f.next \in Kids(f.at) /\ IsMedia(f.at, f.next))
  BY DEF Closing
<1>3. t = FirstOf(HeadsBefore(f.at[1])) /\ p = Append(f.at, f.next)
      /\ t \in Path /\ Passes(p, p2) /\ Sent(o, p)
  OBVIOUS
<1> HIDE DEF t, p, o2
<1> SUFFICES Sent(o2, p2)
  BY DEF o2, t
<1> USE <1>1, <1>2, <1>3
<1> DEFINE a == f.at
           n == f.next
           e == Titled(f.entry, t)
<1>4. e = [f.entry EXCEPT !.title = IF f.entry.title # NULL THEN f.entry.title ELSE t]
  BY DEF Titled
<1> HIDE DEF e
<1>5. /\ a \in Paths /\ a \in Path /\ Len(a) \in Nat /\ Len(a) >= 1 /\ n \in Nat \ {0}
      /\ At(a).kids \in Nat /\ n <= At(a).kids + 1 /\ f.entry \in Entry
  <2>1. a \in Paths /\ Len(a) >= 1  BY DEF Within
  <2>2. n \in Nat \ {0} /\ f.entry \in Entry  BY DEF Frame
  <2>3. a \in Path /\ Len(a) \in Nat /\ At(a).kids \in Nat  BY <2>1, TreeIs
  <2>4. n <= At(a).kids + 1  BY <2>2, <2>3 DEF Kids
  <2> QED  BY <2>1, <2>2, <2>3, <2>4
<1>6. ASSUME NEW q \in Media, Complete(q) = p PROVE \E m : Closes(a, m, n) /\ q = Append(a, m)
  <2>1. Complete(q) = Append(a, n)  BY <1>6
  <2> QED  BY <1>5, <2>1, ClosesHere
<1>7. CASE (\A k \in 1 .. n - 1 : ~IsMedia(a, k)) /\ f.entry.uri = NULL
  <2>1. ASSUME NEW q \in Media, Complete(q) = p PROVE FALSE
    <3>1. PICK m : Closes(a, m, n)  BY <1>6, <2>1
    <3>2. m \in Kids(a) /\ IsMedia(a, m) /\ n \in m + 1 .. At(a).kids + 1  BY <3>1 DEF Closes
    <3>3. m \in Nat \ {0}  BY <1>5, <3>2, TreeIs
    <3>4. m \in 1 .. n - 1
      <4> HIDE DEF a, n
      <4>1. m + 1 <= n  BY <1>5, <3>2, <3>3
      <4> QED  BY <1>5, <3>3, <4>1
    <3> QED  BY <1>7, <3>2, <3>4
  <2>2. o2 = o  BY <1>7
  <2> QED  BY <2>1, <2>2, SentSame
<1>8. ASSUME NEW m \in 1 .. n - 1, Waits(a, m, n),
             f.entry = [uri |-> Value(Append(a, m), "src"), title |-> Value(Append(a, m), "title"),
                        author |-> Value(Append(a, m), "author"), size |-> NULL,
                        subtitle |-> TextIn(a, m, n)]
      PROVE  Sent(o2, p2)
  <2> DEFINE x == Append(a, m)
  <2>1. m \in Nat \ {0} /\ m \in Kids(a) /\ IsMedia(a, m)
    <3>1. m \in Nat \ {0} /\ m \in Kids(a)
      <4> HIDE DEF a, n
      <4>1. m \in Nat \ {0} /\ m <= n - 1 /\ m <= At(a).kids  BY <1>5
      <4> QED  BY <1>5, <4>1 DEF Kids
    <3> QED  BY <1>8, <3>1 DEF Waits
  <2>2. Closes(a, m, n)
    <3>1. n \in m + 1 .. At(a).kids + 1  BY <1>5, <2>1
    <3>2. n = At(a).kids + 1 \/ IsMedia(a, n)  OBVIOUS
    <3> QED  BY <1>8, <2>1, <3>1, <3>2 DEF Closes, Waits
  <2>3. x \in Media /\ x # NULL /\ Complete(x) = p
    <3>1. x \in Media  BY <1>5, <2>1, MediaIs
    <3>2. x # NULL  BY <1>5, <2>1, Appended DEF NULL
    <3>3. Complete(x) = p  BY <1>5, <2>2, CompleteIs
    <3> QED  BY <3>1, <3>2, <3>3
  <2>4. ASSUME NEW q \in Media, Complete(q) = p PROVE q = x
    <3>1. PICK k : Closes(a, k, n) /\ q = Append(a, k)  BY <1>6, <2>4
    <3> QED  BY <1>5, <2>2, <3>1, ClosesOne
  <2>5. Value(x, "src") = IF Has(x, "src") THEN x ELSE NULL  BY DEF Value, Has
  <2>6. MediaReport(x) = [uri |-> x, title |-> Or(Value(x, "title"), t),
                          author |-> Value(x, "author"), size |-> NULL,
                          subtitle |-> TextIn(a, m, n)]
    BY <2>2, MediaReportIs
  <2>7. CASE ~Has(x, "src")
    <3>1. f.entry.uri = NULL  BY <1>8, <2>5, <2>7
    <3>2. o2 = o  BY <3>1
    <3> QED  BY <2>4, <2>7, <3>2, SentSame
  <2>8. CASE Has(x, "src")
    <3>1. f.entry.uri = x /\ f.entry.title = Value(x, "title")  BY <1>8, <2>5, <2>8
    <3>2. e = MediaReport(x)
      <4> HIDE DEF x
      <4>1. f.entry = [uri |-> x, title |-> Value(x, "title"), author |-> Value(x, "author"),
                       size |-> NULL, subtitle |-> TextIn(a, m, n)]
        BY <1>8, <2>5, <2>8 DEF x
      <4>2. e = [f.entry EXCEPT !.title = Or(Value(x, "title"), t)]  BY <1>4, <3>1 DEF Or
      <4>3. e = [uri |-> x, title |-> Or(Value(x, "title"), t), author |-> Value(x, "author"),
                 size |-> NULL, subtitle |-> TextIn(a, m, n)]
        BY <4>1, <4>2
      <4> QED  BY <2>6, <4>3
    <3>3. e \in Entry
      <4>1. f.entry.title \in Path  BY <1>5 DEF Entry
      <4> QED  BY <1>4, <1>5, <4>1 DEF Entry
    <3>4. Report(MediaReport(x)) \in Said  BY <3>2, <3>3, EntryTypes
    <3>5. o2 = Append(o, Report(MediaReport(x)))  BY <2>3, <3>1, <3>2 DEF e
    <3> HIDE DEF x
    <3> QED  BY <2>3, <2>4, <2>8, <3>4, <3>5, SentMore
  <2> QED  BY <2>7, <2>8
<1> QED  BY <1>7, <1>8 DEF Waiting

-----------------------------------------------------------------------------
(***************************************************************************)
(* What a loop of a body has put together goes on being what its elements  *)
(* say.                                                                    *)
(***************************************************************************)
LEMMA WaitingInit ==
  ASSUME NEW p
  PROVE  Waiting(Call(p))
<1>1. Call(p).next = 1 /\ Call(p).entry.uri = NULL  BY DEF Call, NoEntry
<1>2. \A k \in 1 .. Call(p).next - 1 : FALSE  BY <1>1
<1> QED  BY <1>1, <1>2 DEF Waiting

MediaEntry(p) == [NoEntry EXCEPT !.uri = Value(p, "src"), !.title = Value(p, "title"),
                                 !.author = Value(p, "author")]

LEMMA WaitingMedia ==
  ASSUME NEW a, NEW n \in Nat \ {0}, IsMedia(a, n), NEW e, e = MediaEntry(Append(a, n)),
         NEW g, g = [at |-> a, next |-> n + 1, entry |-> e]
  PROVE  Waiting(g)
<1>1. g.at = a /\ g.next = n + 1 /\ g.entry = e /\ n \in 1 .. (n + 1) - 1  OBVIOUS
<1>2. \A k \in n + 1 .. (n + 1) - 1 : FALSE  OBVIOUS
<1>3. Waits(a, n, n + 1)  BY <1>1, <1>2 DEF Waits
<1>4. Texts(a, n, n + 1) = {}  BY <1>2 DEF Texts
<1>5. TextIn(a, n, n + 1) = NULL  BY <1>4, NoneIs DEF TextIn
<1>6. e = [uri |-> Value(Append(a, n), "src"), title |-> Value(Append(a, n), "title"),
           author |-> Value(Append(a, n), "author"), size |-> NULL,
           subtitle |-> TextIn(a, n, n + 1)]
  BY <1>5 DEF NoEntry, MediaEntry
<1> QED  BY <1>1, <1>3, <1>6 DEF Waiting

\* An element that is no media element.
LEMMA WaitingMore ==
  ASSUME NEW f \in Frame, f.at \in Path, Waiting(f), ~IsMedia(f.at, f.next),
         NEW e, e = IF At(Append(f.at, f.next)).name = "textstream"
                    THEN [f.entry EXCEPT !.subtitle = Value(Append(f.at, f.next), "src")]
                    ELSE f.entry,
         NEW g, g = [at |-> f.at, next |-> f.next + 1, entry |-> e]
  PROVE  Waiting(g)
<1> DEFINE a == f.at
           n == f.next
           x == Append(a, n)
<1>1. /\ g.at = a /\ g.next = n + 1 /\ g.entry = e /\ n \in Nat \ {0} /\ (n + 1) - 1 = n
      /\ f.entry \in Entry /\ a \in Path
  BY DEF Frame
<1>2. f.entry = [uri |-> f.entry.uri, title |-> f.entry.title, author |-> f.entry.author,
                 size |-> f.entry.size, subtitle |-> f.entry.subtitle]
  BY <1>1 DEF Entry
<1> HIDE DEF n, a
<1>3. e.uri = f.entry.uri  BY <1>2
<1>4. CASE (\A k \in 1 .. n - 1 : ~IsMedia(a, k)) /\ f.entry.uri = NULL
  <2>1. \A k \in 1 .. n : k \in 1 .. n - 1 \/ k = n  BY <1>1
  <2>2. \A k \in 1 .. n : ~IsMedia(a, k)  BY <1>4, <2>1 DEF a, n
  <2> QED  BY <1>1, <1>3, <1>4, <2>2 DEF Waiting
<1>5. ASSUME NEW m \in 1 .. n - 1, Waits(a, m, n),
             f.entry = [uri |-> Value(Append(a, m), "src"), title |-> Value(Append(a, m), "title"),
                        author |-> Value(Append(a, m), "author"), size |-> NULL,
                        subtitle |-> TextIn(a, m, n)]
      PROVE  Waiting(g)
  <2>1. m \in Nat \ {0} /\ m \in 1 .. n /\ m + 1 .. n = (m + 1 .. n - 1) \cup {n}
        /\ n \notin m + 1 .. n - 1
    BY <1>1
  <2>2. Waits(a, m, n + 1)
    <3>1. \A k \in m + 1 .. n : k \in m + 1 .. n - 1 \/ k = n  BY <2>1
    <3> QED  BY <1>1, <1>5, <2>1, <3>1 DEF Waits, a, n
  <2> DEFINE T == Texts(a, m, n)
             U == Texts(a, m, n + 1)
  <2>3. U = IF At(x).name = "textstream" THEN T \cup {n} ELSE T
    BY <1>1, <2>1 DEF Texts
  <2>4. TextIn(a, m, n + 1) = e.subtitle
    <3>1. CASE At(x).name = "textstream"
      <4>1. T \in SUBSET (1 .. n - 1)  BY <1>1, <2>1 DEF Texts
      <4> HIDE DEF T
      <4>2. LastOf(ChildrenOf(a, T \cup {n})) = x  BY <1>1, <4>1, LastNext
      <4>3. x # NULL  BY <1>1, Appended DEF NULL
      <4>4. TextIn(a, m, n + 1) = Value(x, "src")
        <5>1. LastOf(ChildrenOf(a, U)) = x  BY <2>3, <3>1, <4>2
        <5> QED  BY <4>3, <5>1 DEF TextIn
      <4>5. e = [f.entry EXCEPT !.subtitle = Value(x, "src")]  BY <3>1 DEF a, n
      <4>6. e.subtitle = Value(x, "src")  BY <1>2, <4>5
      <4> QED  BY <4>4, <4>6
    <3>2. CASE At(x).name # "textstream"
      <4>1. U = T  BY <2>3, <3>2
      <4>2. TextIn(a, m, n + 1) = TextIn(a, m, n)  BY <4>1 DEF TextIn
      <4>3. e = f.entry  BY <3>2 DEF a, n
      <4> QED  BY <1>5, <4>2, <4>3
    <3> QED  BY <3>1, <3>2
  <2>5. /\ e.uri = f.entry.uri /\ e.title = f.entry.title /\ e.author = f.entry.author
        /\ e.size = f.entry.size
        /\ e = [uri |-> e.uri, title |-> e.title, author |-> e.author, size |-> e.size,
                subtitle |-> e.subtitle]
    BY <1>2
  <2>6. e = [uri |-> Value(Append(a, m), "src"), title |-> Value(Append(a, m), "title"),
             author |-> Value(Append(a, m), "author"), size |-> NULL,
             subtitle |-> TextIn(a, m, n + 1)]
    BY <1>5, <2>4, <2>5
  <2> QED  BY <1>1, <2>1, <2>2, <2>6 DEF Waiting
<1> QED  BY <1>4, <1>5 DEF Waiting, a, n

-----------------------------------------------------------------------------
(***************************************************************************)
(* The title of the head.                                                  *)
(***************************************************************************)
LEMMA HeadsAre ==
  ASSUME Tree, NEW n \in Nat \ {0}
  PROVE  /\ HeadsBefore(n) \in SUBSET Path
         /\ \A q \in HeadsBefore(n) : q \in Path /\ Len(q) = 2 /\ q[1] \in Nat \ {0} /\ q[1] < n
         /\ Name(n) # "head" => HeadsBefore(n + 1) = HeadsBefore(n)
<1>1. \A q \in Paths : Len(q) = 2 => q \in Path /\ q[1] \in Nat \ {0}  BY TreeIs DEF Path
<1>2. Name(n) # "head" => HeadsBefore(n + 1) = HeadsBefore(n)
  <2>1. \A q \in Paths : (Len(q) = 2 /\ q[1] # n) => (q[1] < n + 1 <=> q[1] < n)  BY <1>1
  <2> QED  BY <2>1 DEF HeadsBefore, Name
<1> QED  BY <1>1, <1>2 DEF HeadsBefore

LEMMA TitleFirst ==
  ASSUME Tree, NEW n \in Nat \ {0}, NEW t, TitleIs(t, n)
  PROVE  FirstOf(HeadsBefore(n)) = t
<1>1. HeadsBefore(n) \in SUBSET Path  BY HeadsAre
<1>2. CASE HeadsBefore(n) = {} /\ t = NULL  BY <1>2 DEF FirstOf
<1>3. CASE IsFirst(t, HeadsBefore(n))  BY <1>1, <1>3, FirstIsFirst
<1> QED  BY <1>2, <1>3 DEF TitleIs

LEMMA TitleNext ==
  ASSUME Tree, NEW n \in Kids(<<>>), NEW t, TitleIs(t, n),
         NEW t2, t2 = IF t = NULL /\ Name(n) = "head" THEN HeadTitle(<<n>>) ELSE t
  PROVE  TitleIs(t2, n + 1)
<1> DEFINE a == <<n>>
           H == HeadsBefore(n)
           G == HeadsBefore(n + 1)
           metas == {i \in Kids(a) : /\ At(Append(a, i)).name = "title_meta"
                                     /\ Has(Append(a, i), "content")}
<1>1. /\ n \in Nat \ {0} /\ a \in Paths /\ a \in Path /\ Kids(a) \subseteq Nat \ {0}
      /\ At(a).kids \in Nat
  <2>1. n \in Nat \ {0} /\ 1 \in Nat \ {0}  BY TreeIs
  <2>2. a \in Paths /\ a \in Path  BY <2>1, ChildIs
  <2> QED  BY <2>1, <2>2, TreeIs
<1>2. /\ H \in SUBSET Path
      /\ \A q \in H : q \in Path /\ Len(q) = 2 /\ q[1] \in Nat \ {0} /\ q[1] < n
      /\ Name(n) # "head" => G = H
  BY <1>1, HeadsAre
<1>3. Name(n) = "head" => G = H \cup {Append(a, i) : i \in metas}
  <2> SUFFICES ASSUME Name(n) = "head" PROVE G = H \cup {Append(a, i) : i \in metas}
    OBVIOUS
  <2>1. ASSUME NEW i \in metas PROVE Append(a, i) \in G
    <3>1. i \in Kids(a) /\ i \in Nat \ {0}  BY <1>1
    <3>2. Append(a, i) \in Paths /\ Len(Append(a, i)) = 2 /\ Append(a, i)[1] = n
      BY <3>1, ChildIs
    <3>3. At(Append(a, i)).name = "title_meta" /\ Has(Append(a, i), "content")  OBVIOUS
    <3>4. n < n + 1  BY <1>1
    <3> QED  BY <3>2, <3>3, <3>4 DEF HeadsBefore, Name
  <2>2. ASSUME NEW q \in H PROVE q \in G
    <3>1. q[1] < n + 1  BY <1>1, <1>2
    <3> QED  BY <3>1 DEF HeadsBefore
  <2>3. ASSUME NEW q \in G PROVE q \in H \/ \E i \in metas : q = Append(a, i)
    <3>1. /\ q \in Paths /\ Len(q) = 2 /\ At(<<q[1]>>).name = "head" /\ q[1] < n + 1
          /\ At(q).name = "title_meta" /\ Has(q, "content")
      BY DEF HeadsBefore
    <3>2. q[1] \in Nat  BY <3>1, TreeIs DEF Path
    <3>3. CASE q[1] = n
      <4>1. q[2] \in Kids(a) /\ q = Append(a, q[2])  BY <3>1, <3>3, GrandchildIs
      <4> QED  BY <3>1, <4>1
    <3>4. CASE q[1] < n  BY <3>1, <3>4 DEF HeadsBefore
    <3> QED  BY <1>1, <3>1, <3>2, <3>3, <3>4
  <2> HIDE DEF G, H, metas
  <2> QED  BY <2>1, <2>2, <2>3
<1>4. HeadTitle(a) = IF metas = {} THEN NULL
                     ELSE Append(a, CHOOSE i \in metas : \A j \in metas : i <= j)
  BY DEF HeadTitle, Kids, Has
<1>5. metas \in SUBSET Kids(a)  OBVIOUS
<1> HIDE DEF metas, H, G
<1>6. t # NULL <=> ~(H = {} /\ t = NULL)
  <2>1. IsFirst(t, H) => t # NULL
    <3>1. IsFirst(t, H) => Len(t) = 2  BY <1>2 DEF IsFirst
    <3> QED  BY <3>1 DEF NULL
  <2> QED  BY <2>1 DEF TitleIs, H
<1>7. CASE Name(n) # "head"
  <2>1. t2 = t /\ G = H  BY <1>2, <1>7
  <2> QED  BY <2>1 DEF TitleIs, G, H
<1>8. CASE Name(n) = "head" /\ t # NULL
  <2>1. t2 = t /\ IsFirst(t, H)  BY <1>8 DEF TitleIs, H
  <2>2. t \in H /\ \A q \in H : t = q \/ Before(t, q)  BY <2>1 DEF IsFirst
  <2>3. ASSUME NEW i \in metas PROVE Before(t, Append(a, i))
    <3> DEFINE q == Append(a, i)
    <3>1. q \in Path /\ Len(q) = 2 /\ q[1] = n
      <4>1. i \in Nat \ {0}  BY <1>1, <1>5
      <4> QED  BY <4>1, ChildIs
    <3> HIDE DEF q
    <3>2. PartsAt(t, q, 1)  BY <1>2, <2>2, <3>1 DEF PartsAt
    <3>3. Before(t, q)  BY <1>2, <2>2, <3>1, <3>2, BeforeIs
    <3> QED  BY <3>3 DEF q
  <2>4. IsFirst(t, G)  BY <1>3, <1>8, <2>2, <2>3 DEF IsFirst
  <2> QED  BY <2>1, <2>4 DEF TitleIs, G
<1>9. CASE Name(n) = "head" /\ t = NULL
  <2>1. H = {} /\ t2 = HeadTitle(a)  BY <1>6, <1>9
  <2>2. G = {Append(a, i) : i \in metas}  BY <1>3, <1>9, <2>1
  <2>3. CASE metas = {}
    <3>1. G = {} /\ t2 = NULL  BY <1>4, <2>1, <2>2, <2>3
    <3> QED  BY <3>1 DEF TitleIs, G
  <2>4. CASE metas # {}
    <3> DEFINE least == CHOOSE i \in metas : \A j \in metas : i <= j
    <3>1. \E i \in metas : \A j \in metas : i <= j
      <4>1. metas \in SUBSET Nat  BY <1>1, <1>5
      <4> QED  BY <2>4, <4>1, HasLeast
    <3>2. least \in metas /\ \A j \in metas : least <= j  BY <3>1
    <3>3. t2 = Append(a, least)  BY <1>4, <2>1, <2>4
    <3> HIDE DEF least
    <3>4. \A i \in metas : i \in Nat \ {0}  BY <1>1, <1>5
    <3>5. \A j \in metas : j = least \/ Before(t2, Append(a, j))
      <4>1. \A j \in metas : Before(t2, Append(a, j)) <=> least < j
        BY <1>1, <3>2, <3>3, <3>4, BeforeSibling
      <4> QED  BY <3>2, <3>4, <4>1
    <3>6. IsFirst(t2, G)  BY <2>2, <3>2, <3>3, <3>5 DEF IsFirst
    <3> QED  BY <3>6 DEF TitleIs, G
  <2> QED  BY <2>3, <2>4
<1> QED  BY <1>7, <1>8, <1>9

-----------------------------------------------------------------------------
(***************************************************************************)
(* The steps of a SMIL.                                                    *)
(***************************************************************************)
LEMMA ShowingInit ==
  ASSUME Tree, NEW c, c = <<Call(<<>>)>>
  PROVE  Showing(c, NULL, "feed", <<>>, "error")
<1>1. Len(c) = 1 /\ c[1].next = 1 /\ c[1].at = <<>>  BY DEF Call
<1>2. NodeOf(c) = Append(<<>>, 1) /\ <<>> \in Path  BY <1>1, TreeIs DEF NodeOf
<1>3. HeadsBefore(1) = {}
  <2>1. 1 \in Nat \ {0}  OBVIOUS
  <2>2. \A q \in HeadsBefore(1) : q[1] \in Nat \ {0} /\ q[1] < 1  BY <2>1, HeadsAre
  <2>3. \A i \in Nat \ {0} : ~(i < 1)  OBVIOUS
  <2> QED  BY <2>2, <2>3
<1>4. Due(NodeOf(c)) = {}
  <2>1. ASSUME NEW q \in Media PROVE ~Before(Complete(q), Append(<<>>, 1))
    <3> DEFINE x == Complete(q)
    <3>1. x \in Path /\ Len(x) >= 2 /\ Len(x) \in Nat  BY CompletePath DEF Path
    <3> HIDE DEF x
    <3>2. ~Before(x, <<>>) /\ x # <<>>
      <4>1. Len(<<>>) = 0  OBVIOUS
      <4>2. ~Inside(<<>>, x)  BY <3>1, <4>1 DEF Inside
      <4>3. \A n \in Nat : ~PartsAt(x, <<>>, n)  BY <4>1 DEF PartsAt
      <4> QED  BY <1>2, <3>1, <4>1, <4>2, <4>3, BeforeIs
    <3>3. ~Before(x, Append(<<>>, 1))  BY <1>2, <3>1, <3>2, BeforeFirst
    <3> QED  BY <3>3 DEF x
  <2> QED  BY <1>2, <2>1, Zenon DEF Due
<1>5. Sent(<<>>, NodeOf(c))
  <2>1. DOMAIN <<>> = {}  OBVIOUS
  <2> QED  BY <1>4, <2>1 DEF Sent
<1>6. /\ \A n \in 2 .. Len(c) : FALSE
      /\ \A i \in 1 .. c[1].next - 1 : FALSE
  BY <1>1
<1>7. TitleIs(NULL, c[1].next)  BY <1>1, <1>3 DEF TitleIs
<1> QED  BY <1>5, <1>6, <1>7, Zenon DEF Showing

LEMMA ShowingNext ==
  ASSUME Basics, Next, Smil, Showing(calls, title, phase, out, retval)
  PROVE  Showing(calls', title', phase', out', retval')
<1>1. /\ Typed /\ Tree /\ Stacked(calls) /\ title \in Path /\ out \in Seq(Said)
  BY DEF Basics, Typed
<1>2. /\ Len(calls) \in Nat \ {0} /\ Len(calls) \in 1 .. Len(calls) /\ Top = calls[Len(calls)]
      /\ Top \in Frame /\ Top.at \in Paths /\ Top.at \in Path /\ Top.next \in Nat \ {0}
      /\ Top.entry \in Entry /\ node \in Path /\ node = NodeOf(calls)
      /\ node = Append(Top.at, Top.next)
      /\ ~AtEnd <=> Top.next \in Kids(Top.at)
      /\ AtEnd => Top.next = At(Top.at).kids + 1
  BY <1>1, NodeIs
<1>3. /\ phase \in {"feed", "done"}
      /\ \A k \in 2 .. Len(calls) : /\ Within(calls[k].at) /\ calls[k].at[1] = calls[1].next - 1
                                    /\ Waiting(calls[k])
      /\ TitleIs(title, calls[1].next)
      /\ Sent(out, node)
      /\ retval = "success" => \E i \in 1 .. calls[1].next - 1 : Name(i) = "body"
      /\ \A i \in 1 .. calls[1].next - 1 :
           (Name(i) = "body" /\ (Len(calls) = 1 \/ i < calls[1].next - 1)) => retval = "success"
  BY <1>2 DEF Showing
\* Inside a body.
<1>4. ASSUME InEntry
      PROVE  /\ Len(calls) > 1 /\ Len(calls) \in 2 .. Len(calls) /\ Within(Top.at) /\ Waiting(Top)
             /\ Top.at[1] = calls[1].next - 1 /\ calls[1].next - 1 \in Nat \ {0}
             /\ Name(calls[1].next - 1) = "body" /\ (calls[1].next - 1) + 1 = calls[1].next
             /\ title = FirstOf(HeadsBefore(Top.at[1]))
  <2> DEFINE n == calls[1].next - 1
             i == Top.at[1]
  <2>1. Len(calls) > 1 /\ Len(calls) \in 2 .. Len(calls)
    <3>1. Len(calls) > 1  BY <1>4 DEF InEntry
    <3>2. \A l \in Nat : l > 1 => l \in 2 .. l  OBVIOUS
    <3> QED  BY <1>2, <3>1, <3>2
  <2>2. Within(Top.at) /\ Waiting(Top) /\ i = n  BY <1>2, <1>3, <2>1
  <2>3. i \in Nat \ {0} /\ Name(i) = "body"  BY <1>2, <2>2 DEF Within, Path, Name
  <2>4. calls[1].next \in Nat \ {0}
    <3>1. 1 \in 1 .. Len(calls)  BY <1>2
    <3> QED  BY <1>1, <3>1, TopIs
  <2>5. n + 1 = calls[1].next  BY <2>4
  <2> HIDE DEF n, i
  <2>6. HeadsBefore(n + 1) = HeadsBefore(n)  BY <1>1, <2>2, <2>3, HeadsAre
  <2>7. title = FirstOf(HeadsBefore(n + 1))  BY <1>1, <1>3, <2>4, <2>5, TitleFirst
  <2> QED  BY <2>1, <2>2, <2>3, <2>5, <2>6, <2>7 DEF n, i
<1>5. ASSUME InEntry, Len(calls') > 1, calls'[1] = calls[1], title' = title, phase' = phase,
             retval' = retval, Sent(out', NodeOf(calls')),
             \A k \in 2 .. Len(calls') : /\ Within(calls'[k].at)
                                         /\ calls'[k].at[1] = calls[1].next - 1
                                         /\ Waiting(calls'[k])
      PROVE  Showing(calls', title', phase', out', retval')
  <2>1. Len(calls) # 1 /\ Len(calls') # 1
    <3>1. \A l : l = 1 => ~(l > 1)  OBVIOUS
    <3> QED  BY <1>4, <1>5, <3>1, Zenon
  <2>2. \A i \in 1 .. calls'[1].next - 1 :
          (Name(i) = "body" /\ (Len(calls') = 1 \/ i < calls'[1].next - 1)) => retval' = "success"
    BY <1>3, <1>5, <2>1
  <2> QED  BY <1>3, <1>5, <2>2 DEF Showing
\* The loop goes on with the next child of the same element.
<1>6. ASSUME InEntry, ~AtEnd, NEW e \in Entry, Collect(e), title' = title, retval' = retval,
             Waiting([at |-> Top.at, next |-> Top.next + 1, entry |-> e]),
             Sent(out', Append(Top.at, Top.next + 1))
      PROVE  Showing(calls', title', phase', out', retval')
  <2>1. /\ Len(calls') = Len(calls) /\ phase' = phase
        /\ \A k \in 1 .. Len(calls) - 1 : calls'[k] = calls[k]
        /\ calls'[Len(calls)] = [at |-> Top.at, next |-> Top.next + 1, entry |-> e]
    BY <1>1, <1>6, Collects
  <2>2. NodeOf(calls') = Append(Top.at, Top.next + 1)  BY <2>1 DEF NodeOf
  <2>3. Len(calls) > 1 /\ 1 \in 1 .. Len(calls) - 1  BY <1>2, <1>4, <1>6
  <2>4. ASSUME NEW k \in 2 .. Len(calls)
        PROVE  Within(calls'[k].at) /\ calls'[k].at[1] = calls[1].next - 1 /\ Waiting(calls'[k])
    <3>1. CASE k = Len(calls)  BY <1>4, <1>6, <2>1, <3>1
    <3>2. CASE k # Len(calls)
      <4>1. k \in 1 .. Len(calls) - 1  BY <1>2, <3>2
      <4> QED  BY <1>3, <2>1, <4>1
    <3> QED  BY <3>1, <3>2
  <2> QED  BY <1>5, <1>6, <2>1, <2>2, <2>3, <2>4
<1>7. CASE SmilHead
  <2> DEFINE n == calls[1].next
  <2>1. /\ InDocument /\ ~AtEnd /\ At(node).name # "body" /\ Collect(Top.entry)
        /\ title' = IF title = NULL /\ At(node).name = "head" THEN HeadTitle(node) ELSE title
        /\ out' = out /\ retval' = retval
    BY <1>7 DEF SmilHead, Others, Pass
  <2>2. /\ Len(calls) = 1 /\ Top = calls[1] /\ Top.at = <<>> /\ node = <<n>> /\ n \in Nat \ {0}
        /\ n \in Kids(<<>>)
    BY <1>1, <2>1, InDocumentIs
  <2>3. /\ Len(calls') = Len(calls) /\ phase' = phase
        /\ calls'[Len(calls)] = [at |-> Top.at, next |-> Top.next + 1, entry |-> Top.entry]
    BY <1>1, <1>2, <2>1, Collects
  <2>4. Len(calls') = 1 /\ calls'[1].next = n + 1 /\ calls'[1].at = <<>> /\ Name(n) # "body"
    BY <2>1, <2>2, <2>3 DEF Name
  <2> HIDE DEF n
  <2>5. NodeOf(calls') = <<n + 1>>
    <3>1. n + 1 \in Nat \ {0}  BY <2>2
    <3> QED  BY <2>4, <3>1, Rooted DEF NodeOf
  <2>6. Sent(out', NodeOf(calls'))
    <3>1. Passes(<<n>>, <<n + 1>>)  BY <1>1, <2>2, <2>4, PassesHead
    <3>2. \A q \in Media : Complete(q) # <<n>>
      <4>1. \A q \in Media : Len(Complete(q)) >= 2  BY <1>1, CompletePath
      <4>2. Len(<<n>>) = 1 /\ ~(1 >= 2)  OBVIOUS
      <4> QED  BY <4>1, <4>2, Zenon
    <3> QED  BY <1>3, <2>1, <2>2, <2>5, <3>1, <3>2, SentSame
  <2>7. TitleIs(title', n + 1)
    <3>1. title' = IF title = NULL /\ Name(n) = "head" THEN HeadTitle(<<n>>) ELSE title
      BY <2>1, <2>2 DEF Name
    <3> QED  BY <1>1, <1>3, <2>2, <3>1, TitleNext DEF n
  <2>8. (n + 1) - 1 = n /\ \A i \in 1 .. n : i \in 1 .. n - 1 \/ i = n  BY <2>2
  <2>9. retval' = "success" => \E i \in 1 .. n : Name(i) = "body"
    <3>1. \A i \in 1 .. n - 1 : i \in 1 .. n  BY <2>2
    <3> QED  BY <1>3, <2>1, <3>1 DEF n
  <2>10. \A i \in 1 .. n : Name(i) = "body" => retval' = "success"
    BY <1>3, <2>1, <2>2, <2>4, <2>8 DEF n
  <2>11. \A k \in 2 .. Len(calls') : FALSE  BY <2>4
  <2> QED  BY <1>3, <2>3, <2>4, <2>6, <2>7, <2>8, <2>9, <2>10, <2>11 DEF Showing
<1>8. CASE SmilBody
  <2> DEFINE n == calls[1].next
  <2>1. /\ InDocument /\ ~AtEnd /\ At(node).name = "body" /\ Enter
        /\ out' = out /\ retval' = retval /\ phase' = phase
    BY <1>8 DEF SmilBody, Named
  <2>2. /\ Len(calls) = 1 /\ Top = calls[1] /\ Top.at = <<>> /\ node = <<n>> /\ n \in Nat \ {0}
        /\ n \in Kids(<<>>)
    BY <1>1, <2>1, InDocumentIs
  <2>3. /\ Len(calls') = Len(calls) + 1 /\ title' = title
        /\ calls'[Len(calls)] = [at |-> Top.at, next |-> Top.next + 1, entry |-> Top.entry]
        /\ calls'[Len(calls) + 1] = Call(node)
    BY <1>1, <2>1, Enters
  <2>4. /\ Len(calls') = 2 /\ calls'[1].next = n + 1 /\ calls'[2] = Call(node)
        /\ calls'[2].at = node /\ Name(n) = "body" /\ calls'[2].next = 1
    BY <2>1, <2>2, <2>3 DEF Name, Call
  <2> HIDE DEF n
  <2>5. NodeOf(calls') = Append(node, 1)  BY <2>4 DEF NodeOf
  <2>6. Sent(out', NodeOf(calls'))
    <3>1. Passes(node, Append(node, 1))  BY <1>1, <1>2, PassesEntering
    <3>2. \A q \in Media : Complete(q) # node
      <4>1. \A q \in Media : Len(Complete(q)) >= 2  BY <1>1, CompletePath
      <4>2. Len(node) = 1 /\ ~(1 >= 2)  BY <2>2
      <4> QED  BY <4>1, <4>2, Zenon
    <3> QED  BY <1>3, <2>1, <2>5, <3>1, <3>2, SentSame
  <2>7. TitleIs(title', n + 1)
    <3>1. HeadsBefore(n + 1) = HeadsBefore(n)  BY <1>1, <2>2, <2>4, HeadsAre
    <3> QED  BY <1>3, <2>3, <3>1 DEF TitleIs, n
  <2>8. (n + 1) - 1 = n /\ \A i \in 1 .. n : i < n => i \in 1 .. n - 1  BY <2>2
  <2>9. retval' = "success" => \E i \in 1 .. n : Name(i) = "body"
    <3>1. n \in 1 .. n  BY <2>2
    <3> QED  BY <2>4, <3>1
  <2>10. \A i \in 1 .. n : (Name(i) = "body" /\ i < n) => retval' = "success"
    BY <1>3, <2>1, <2>2, <2>8 DEF n
  <2>11. /\ Within(calls'[2].at) /\ calls'[2].at[1] = n /\ Waiting(calls'[2])
    <3>1. node \in Paths /\ node \in Path /\ Len(node) = 1 /\ node[1] = n
      <4>1. 1 \in Nat \ {0}  OBVIOUS
      <4> QED  BY <1>1, <2>2, <4>1, ChildIs
    <3>2. \A k \in 2 .. Len(node) : FALSE  BY <3>1
    <3>3. Within(node)  BY <2>1, <2>2, <3>1, <3>2 DEF Within
    <3> QED  BY <2>4, <3>1, <3>3, WaitingInit
  <2>12. \A k \in 2 .. Len(calls') : k = 2  BY <2>4
  <2>13. Len(calls') # 1  BY <2>4
  <2> QED
    BY <1>3, <2>1, <2>4, <2>6, <2>7, <2>8, <2>9, <2>10, <2>11, <2>12, <2>13 DEF Showing
<1>9. CASE SmilMedia
  <2> DEFINE e == MediaEntry(node)
             a == Top.at
             n == Top.next
  <2>1. /\ InEntry /\ ~AtEnd /\ At(node).name \in MediaNames /\ Send(Top.entry) /\ Collect(e)
        /\ title' = title /\ retval' = retval
    BY <1>9 DEF SmilMedia, Named, MediaEntry
  <2>2. /\ Within(a) /\ Waiting(Top) /\ title = FirstOf(HeadsBefore(a[1])) /\ n \in Kids(a)
        /\ IsMedia(a, n) /\ node = Append(a, n) /\ n \in Nat \ {0}
    BY <1>2, <1>4, <2>1 DEF IsMedia
  <2>3. e \in Entry
    <3>1. NoEntry \in Entry /\ \A property : Value(node, property) \in Path
      BY <1>1, <1>2, EntryTypes
    <3> QED  BY <3>1 DEF Entry, NoEntry, MediaEntry
  <2>4. Waiting([at |-> a, next |-> n + 1, entry |-> e])
    <3>1. e = MediaEntry(Append(a, n))  BY <2>2
    <3> HIDE DEF e, a, n
    <3> QED  BY <2>2, <3>1, WaitingMedia, Zenon
  <2> HIDE DEF e
  <2>5. Sent(out', Append(a, n + 1))
    <3>1. Passes(node, Append(a, n + 1))
      <4>1. At(Append(a, n)).name \in Skipped  BY <2>1, <2>2 DEF Skipped
      <4> QED  BY <1>1, <2>2, <4>1, PassesSkipped
    <3>2. out' = SentBy(out, Top.entry, title)  BY <2>1, SendIs
    <3>3. Closing(Top)  BY <2>2 DEF Closing
    <3>4. /\ Tree /\ Top \in Frame /\ Within(Top.at) /\ Waiting(Top)
          /\ FirstOf(HeadsBefore(Top.at[1])) \in Path /\ title = FirstOf(HeadsBefore(Top.at[1]))
          /\ node = Append(Top.at, Top.next) /\ out \in Seq(Said)
      BY <1>1, <1>2, <2>2
    <3>5. Passes(Append(Top.at, Top.next), Append(a, n + 1)) /\ Sent(out, Append(Top.at, Top.next))
      BY <1>2, <1>3, <3>1
    <3> HIDE DEF a, n
    <3>6. Sent(SentBy(out, Top.entry, FirstOf(HeadsBefore(Top.at[1]))), Append(a, n + 1))
      BY <3>3, <3>4, <3>5, Sends
    <3> QED  BY <3>2, <3>4, <3>6
  <2> QED  BY <1>6, <2>1, <2>3, <2>4, <2>5
<1>10. CASE SmilTextStream
  <2> DEFINE e == [Top.entry EXCEPT !.subtitle = Value(node, "src")]
             a == Top.at
             n == Top.next
  <2>1. /\ InEntry /\ ~AtEnd /\ At(node).name = "textstream" /\ Collect(e)
        /\ title' = title /\ retval' = retval /\ out' = out
    BY <1>10 DEF SmilTextStream, Named
  <2>2. /\ Within(a) /\ Waiting(Top) /\ n \in Kids(a) /\ node = Append(a, n) /\ n \in Nat \ {0}
    BY <1>2, <1>4, <2>1
  <2>3. ~IsMedia(a, n)  BY <2>1, <2>2 DEF IsMedia, MediaNames
  <2>4. e \in Entry
    <3>1. \A property : Value(node, property) \in Path  BY <1>1, <1>2, EntryTypes
    <3> QED  BY <1>2, <3>1 DEF Entry
  <2>5. Waiting([at |-> a, next |-> n + 1, entry |-> e])
    <3>1. e = IF At(Append(a, n)).name = "textstream"
              THEN [Top.entry EXCEPT !.subtitle = Value(Append(a, n), "src")] ELSE Top.entry
      BY <2>1, <2>2
    <3> HIDE DEF e
    <3> QED  BY <1>2, <2>2, <2>3, <3>1, WaitingMore
  <2> HIDE DEF e
  <2>6. Sent(out', Append(a, n + 1))
    <3>1. At(Append(a, n)).name \in Skipped  BY <2>1, <2>2 DEF Skipped
    <3>2. Passes(node, Append(a, n + 1))  BY <1>1, <2>2, <3>1, PassesSkipped
    <3>3. ASSUME NEW q \in Media PROVE Complete(q) # node
      <4>1. n # At(a).kids + 1
        <5>1. At(a).kids \in Nat  BY <1>1, <1>2, TreeIs
        <5> QED  BY <2>2, <5>1 DEF Kids
      <4> QED  BY <1>1, <1>2, <2>2, <2>3, <4>1, ClosesHere
    <3> QED  BY <1>3, <2>1, <3>2, <3>3, SentSame
  <2> QED  BY <1>6, <2>1, <2>4, <2>5, <2>6
<1>11. CASE SmilNested
  <2> DEFINE a == Top.at
             n == Top.next
  <2>1. /\ InEntry /\ ~AtEnd /\ At(node).name \notin Skipped /\ Enter
        /\ retval' = retval /\ phase' = phase /\ out' = out
    BY <1>11 DEF SmilNested, Others, Skipped
  <2>2. /\ Within(a) /\ Waiting(Top) /\ n \in Kids(a) /\ node = Append(a, n) /\ n \in Nat \ {0}
        /\ a[1] = calls[1].next - 1 /\ Len(calls) > 1
    BY <1>2, <1>4, <2>1
  <2>3. ~IsMedia(a, n) /\ At(Append(a, n)).name # "textstream"
    BY <2>1, <2>2 DEF IsMedia, Skipped
  <2>4. Waiting([at |-> a, next |-> n + 1, entry |-> Top.entry])
    <3>1. Top.entry = IF At(Append(a, n)).name = "textstream"
                      THEN [Top.entry EXCEPT !.subtitle = Value(Append(a, n), "src")] ELSE Top.entry
      BY <2>3
    <3> QED  BY <1>2, <2>2, <2>3, <3>1, WaitingMore
  <2>5. /\ Len(calls') = Len(calls) + 1 /\ title' = title
        /\ \A k \in 1 .. Len(calls) - 1 : calls'[k] = calls[k]
        /\ calls'[Len(calls)] = [at |-> Top.at, next |-> Top.next + 1, entry |-> Top.entry]
        /\ calls'[Len(calls) + 1] = Call(node)
    BY <1>1, <2>1, Enters
  <2>6. Within(node) /\ node[1] = calls[1].next - 1
    BY <1>1, <2>1, <2>2, WithinNext
  <2>7. NodeOf(calls') = Append(node, 1)  BY <1>2, <2>5 DEF NodeOf, Call
  <2>8. Sent(out', NodeOf(calls'))
    <3>1. Passes(node, Append(node, 1))  BY <1>1, <1>2, PassesEntering
    <3>2. ASSUME NEW q \in Media PROVE Complete(q) # node
      <4>1. n # At(a).kids + 1
        <5>1. At(a).kids \in Nat  BY <1>1, <1>2, TreeIs
        <5> QED  BY <2>2, <5>1 DEF Kids
      <4> QED  BY <1>1, <1>2, <2>2, <2>3, <4>1, ClosesHere
    <3> QED  BY <1>3, <2>1, <2>7, <3>1, <3>2, SentSame
  <2>9. ASSUME NEW k \in 2 .. Len(calls')
        PROVE  Within(calls'[k].at) /\ calls'[k].at[1] = calls[1].next - 1 /\ Waiting(calls'[k])
    <3>1. CASE k = Len(calls) + 1
      <4>1. calls'[k] = Call(node) /\ calls'[k].at = node  BY <2>5, <3>1 DEF Call
      <4> QED  BY <2>6, <4>1, WaitingInit
    <3>2. CASE k = Len(calls)  BY <2>2, <2>4, <2>5, <3>2
    <3>3. CASE k # Len(calls) /\ k # Len(calls) + 1
      <4>1. k \in 1 .. Len(calls) - 1 /\ k \in 2 .. Len(calls)  BY <1>2, <2>5, <3>3
      <4> QED  BY <1>3, <2>5, <4>1
    <3> QED  BY <3>1, <3>2, <3>3
  <2>10. Len(calls') > 1 /\ calls'[1] = calls[1]
    <3>1. 1 \in 1 .. Len(calls) - 1  BY <1>2, <2>2
    <3> QED  BY <1>2, <2>5, <3>1
  <2> QED  BY <1>5, <2>1, <2>5, <2>8, <2>9, <2>10
<1>12. CASE SmilEntryEnd
  <2> DEFINE a == Top.at
             n == Top.next
             f == calls[Len(calls) - 1]
             b == f.at
             i == f.next - 1
             h == calls[1].next
  <2>1. /\ InEntry /\ AtEnd /\ Send(Top.entry) /\ retval' = "success" /\ Leave /\ phase' = phase
    BY <1>12 DEF SmilEntryEnd
  <2>2. /\ Within(a) /\ Waiting(Top) /\ title = FirstOf(HeadsBefore(a[1]))
        /\ n = At(a).kids + 1 /\ node = Append(a, n) /\ Len(calls) > 1
        /\ h - 1 \in Nat \ {0} /\ Name(h - 1) = "body"
    BY <1>2, <1>4, <2>1
  <2>3. /\ Len(calls') = Len(calls) - 1 /\ Len(calls') \in 1 .. Len(calls) /\ title' = title
        /\ \A k \in 1 .. Len(calls') : calls'[k] = calls[k]
    BY <1>1, <2>1, Leaves
  <2>4. /\ f \in Frame /\ b \in Path /\ i \in Nat \ {0} /\ a = Append(b, i) /\ f.next = i + 1
        /\ Len(calls) - 1 \in 1 .. Len(calls)
    <3>1. Len(calls) - 1 \in 1 .. Len(calls) - 1 /\ Len(calls) - 1 \in 1 .. Len(calls)
          /\ (Len(calls) - 1) + 1 = Len(calls)
      BY <1>2, <2>2
    <3>2. f \in Frame /\ b \in Path /\ b \in Paths /\ f.next \in Nat \ {0}  BY <1>1, <3>1, TopIs
    <3>3. i \in Kids(b) /\ a = Append(b, i)  BY <1>1, <1>2, <3>1 DEF Stacked
    <3>4. i \in Nat \ {0}  BY <1>1, <3>2, <3>3, TreeIs
    <3>5. f.next = i + 1  BY <3>2
    <3> QED  BY <3>1, <3>2, <3>3, <3>4, <3>5
  <2>5. NodeOf(calls') = Append(b, i + 1)
    <3>1. calls'[Len(calls')] = f
      <4>1. Len(calls') \in 1 .. Len(calls') /\ Len(calls') = Len(calls) - 1
        <5>1. \A l \in Nat \ {0} : l \in 1 .. l  OBVIOUS
        <5>2. Len(calls') \in Nat \ {0}  BY <1>2, <2>3
        <5> QED  BY <2>3, <5>1, <5>2
      <4> QED  BY <2>3, <4>1, Zenon
    <3> HIDE DEF f
    <3> QED  BY <2>4, <3>1 DEF NodeOf
  <2>6. Sent(out', NodeOf(calls'))
    <3> HIDE DEF b, i
    <3>1. Passes(node, Append(b, i + 1))
      <4>1. Append(b, i) \in Paths /\ n = At(Append(b, i)).kids + 1  BY <1>2, <2>2, <2>4
      <4>2. node = Append(Append(b, i), n)  BY <2>2, <2>4
      <4> HIDE DEF n
      <4> QED  BY <1>1, <2>4, <4>1, <4>2, PassesLeaving
    <3>2. out' = SentBy(out, Top.entry, title)  BY <2>1, SendIs
    <3>3. Closing(Top)  BY <2>2 DEF Closing
    <3>4. /\ Tree /\ Top \in Frame /\ Within(Top.at) /\ Waiting(Top)
          /\ FirstOf(HeadsBefore(Top.at[1])) \in Path /\ title = FirstOf(HeadsBefore(Top.at[1]))
          /\ node = Append(Top.at, Top.next) /\ out \in Seq(Said)
      BY <1>1, <1>2, <2>2
    <3>5. Passes(Append(Top.at, Top.next), Append(b, i + 1)) /\ Sent(out, Append(Top.at, Top.next))
      BY <1>2, <1>3, <3>1
    <3>6. Sent(SentBy(out, Top.entry, FirstOf(HeadsBefore(Top.at[1]))), Append(b, i + 1))
      BY <3>3, <3>4, <3>5, Sends
    <3>7. Sent(out', Append(b, i + 1))  BY <3>2, <3>4, <3>6
    <3> QED  BY <2>5, <3>7
  <2>7. calls'[1] = calls[1]
    <3>1. 1 \in 1 .. Len(calls')  BY <2>3
    <3> QED  BY <2>3, <3>1
  <2>8. \A k \in 2 .. Len(calls') : k \in 2 .. Len(calls) /\ calls'[k] = calls[k]
    <3>1. \A k \in 2 .. Len(calls') : k \in 2 .. Len(calls) /\ k \in 1 .. Len(calls')
      BY <1>2, <2>3
    <3> QED  BY <2>3, <3>1
  <2>9. h - 1 \in 1 .. h - 1
    <3>1. \A l \in Nat \ {0} : l \in 1 .. l  OBVIOUS
    <3> QED  BY <2>2, <3>1
  <2>10. retval' = "success" => \E j \in 1 .. calls'[1].next - 1 : Name(j) = "body"
    BY <2>2, <2>7, <2>9
  <2>11. TitleIs(title', calls'[1].next)  BY <1>3, <2>3, <2>7
  <2>12. \A k \in 2 .. Len(calls') : /\ Within(calls'[k].at)
                                     /\ calls'[k].at[1] = calls'[1].next - 1
                                     /\ Waiting(calls'[k])
    BY <1>3, <2>7, <2>8
  <2> QED  BY <1>3, <2>1, <2>6, <2>10, <2>11, <2>12, Zenon DEF Showing
<1>13. CASE SmilEnd
  <2>1. UNCHANGED <<calls, title, out, retval>> /\ phase' = "done"  BY <1>13 DEF SmilEnd
  <2>2. NodeOf(calls') = node  BY <1>2, <2>1 DEF NodeOf
  <2> QED  BY <1>3, <2>1, <2>2 DEF Showing
<1>14. ~Rss /\ ~Atom  BY DEF Smil, Rss, Atom
<1>15. ~(FeedElement \/ RssAnnounce \/ RssSkip \/ RssItem \/ AtomEntry \/ ItemElement \/ ItemEnd \/ FeedEnd)
  BY <1>14 DEF FeedElement, RssAnnounce, RssSkip, RssItem, AtomEntry, ItemElement, ItemEnd, FeedEnd
<1> QED  BY <1>7, <1>8, <1>9, <1>10, <1>11, <1>12, <1>13, <1>15 DEF Next

\* At the end of a SMIL every media element with an address has been reported.
LEMMA ShownWhole ==
  ASSUME Typed, Stacked(calls), AllPassed(calls), Showing(calls, title, phase, out, retval)
  PROVE  SmilWhole
<1> DEFINE n == At(<<>>).kids
           p == Append(<<>>, n + 1)
<1>1. /\ Tree /\ n \in Nat /\ Kids(<<>>) \subseteq Nat \ {0} /\ Kids(<<>>) = 1 .. n
      /\ Tops = {<<i>> : i \in Kids(<<>>)} /\ <<>> \in Path
  <2>1. Tree  BY DEF Typed
  <2>2. Tops = ChildrenOf(<<>>, Kids(<<>>)) /\ ChildrenOf(<<>>, Kids(<<>>)) = {<<i>> : i \in Kids(<<>>)}
    BY <2>1, TopsAre
  <2> QED  BY <2>1, <2>2, TreeIs DEF Kids
<1>2. Len(calls) = 1 /\ calls[1].next = n + 1 /\ calls[1].at = <<>> /\ NodeOf(calls) = p
  BY DEF AllPassed, Stacked, NodeOf
<1>3. p \in Path /\ Len(p) = 1 /\ p[1] = n + 1
  <2>1. n + 1 \in Nat \ {0}  BY <1>1
  <2> HIDE DEF n
  <2> QED  BY <2>1, Rooted
<1>4. (n + 1) - 1 = n /\ \A i \in 1 .. n : i < n + 1  BY <1>1
<1> HIDE DEF n, p
<1>5. Due(p) = {q \in Media : Has(q, "src")}
  <2>1. ASSUME NEW q \in Media PROVE Before(Complete(q), p)
    <3> DEFINE x == Complete(q)
    <3>1. x \in Path /\ Len(x) >= 2 /\ x[1] \in 1 .. n  BY <1>1, CompletePath
    <3> HIDE DEF x
    <3>2. x[1] < p[1]  BY <1>3, <1>4, <3>1
    <3>3. Len(x) \in Nat  BY <3>1 DEF Path
    <3>4. PartsAt(x, p, 1)  BY <1>3, <3>1, <3>2, <3>3 DEF PartsAt
    <3>5. Before(x, p)  BY <1>3, <3>1, <3>4, BeforeIs
    <3> QED  BY <3>5 DEF x
  <2> QED  BY <2>1, Zenon DEF Due
<1>6. Sent(out, p)  BY <1>2 DEF Showing
<1>7. /\ {out[k] : k \in DOMAIN out} = {Report(MediaReport(q)) : q \in {r \in Media : Has(r, "src")}}
      /\ \A j, k \in DOMAIN out :
           j < k => Before(Complete(out[j].entry.uri), Complete(out[k].entry.uri))
  BY <1>5, <1>6, Zenon DEF Sent
<1>8. retval = "success" <=> \E i \in 1 .. n : Name(i) = "body"
  <2>1. retval = "success" => \E i \in 1 .. n : Name(i) = "body"  BY <1>2, <1>4 DEF Showing
  <2>2. \A i \in 1 .. n : Name(i) = "body" => retval = "success"  BY <1>2, <1>4 DEF Showing
  <2> QED  BY <2>1, <2>2
<1>9. retval = "success" <=> \E q \in Tops : At(q).name = "body"
  BY <1>1, <1>8 DEF Name
<1> QED  BY <1>7, <1>9, Zenon DEF SmilWhole

-----------------------------------------------------------------------------
(***************************************************************************)
(* The invariant.                                                          *)
(***************************************************************************)
LEMMA IInvInit == Init => IInv
<1> SUFFICES ASSUME Init PROVE IInv
  OBVIOUS
<1>1. /\ Tree /\ calls = <<Call(<<>>)>> /\ title = NULL /\ feed = NoEntry
      /\ phase = "feed" /\ out = <<>> /\ retval = "error"
  BY DEF Init, Tree
<1>2. Typed
  <2>1. NULL \in Path /\ NoEntry \in Entry  BY <1>1, EntryTypes
  <2> QED  BY <1>1, <2>1 DEF Typed
<1>3. Stacked(calls)
  <2> DEFINE f == Call(<<>>)
  <2>1. /\ f.at = <<>> /\ f.next = 1 /\ f = [at |-> <<>>, next |-> 1, entry |-> NoEntry]
    BY DEF Call
  <2>2. <<>> \in Paths /\ <<>> \in Path /\ At(<<>>).kids \in Nat /\ NoEntry \in Entry
    BY <1>1, TreeIs, EntryTypes
  <2>3. f \in Frame  BY <2>1, <2>2 DEF Frame
  <2>4. 1 <= At(<<>>).kids + 1  BY <2>2
  <2> HIDE DEF f
  <2>5. /\ calls \in Seq(Frame) /\ Len(calls) = 1 /\ calls[1] = f
    BY <1>1, <2>3 DEF f
  <2>6. \A k \in 1 .. Len(calls) : calls[k] = f  BY <2>5
  <2>7. \A k \in 1 .. Len(calls) - 1 : FALSE  BY <2>5
  <2> QED  BY <2>1, <2>2, <2>4, <2>5, <2>6, <2>7 DEF Stacked
<1>4. Showing(calls, title, phase, out, retval)  BY <1>1, ShowingInit
<1>5. Rss \/ Atom => Announced(calls, feed, phase, out)  BY <1>1, AnnouncedInit
<1>6. Feeding(calls, phase, out)  BY <1>1, FeedingInit
<1> QED  BY <1>1, <1>2, <1>3, <1>4, <1>5, <1>6 DEF IInv

LEMMA IInvNext == IInv /\ [Next]_vars => IInv'
<1> SUFFICES ASSUME IInv, [Next]_vars PROVE IInv'
  OBVIOUS
<1>1. CASE Next
  <2>1. Basics  BY DEF IInv, Basics
  <2>2. UNCHANGED doc /\ Basics'  BY <1>1, <2>1, BasicsNext
  <2>3. (Smil' <=> Smil) /\ (Rss' <=> Rss) /\ (Atom' <=> Atom)  BY <2>2, SameElements
  <2>4. ASSUME Smil PROVE Showing(calls, title, phase, out, retval)'
    <3>1. Showing(calls, title, phase, out, retval)  BY <2>4 DEF IInv
    <3>2. Showing(calls', title', phase', out', retval')
      BY <1>1, <2>1, <2>4, <3>1, ShowingNext
    <3> QED  BY <2>2, <3>2, SameShowing
  <2>5. ASSUME Rss \/ Atom
        PROVE  Announced(calls, feed, phase, out)' /\ Feeding(calls, phase, out)'
    <3>1. Announced(calls, feed, phase, out) /\ Feeding(calls, phase, out)  BY <2>5 DEF IInv
    <3>2. Announced(calls', feed', phase', out')  BY <1>1, <2>1, <2>5, <3>1, AnnouncedNext
    <3>3. Feeding(calls', phase', out')  BY <1>1, <2>1, <2>5, <3>1, FeedingNext
    <3> QED  BY <2>2, <3>2, <3>3, SameAnnounced, SameFeeding
  <2>6. ASSUME ~(Smil \/ Rss \/ Atom) PROVE FALSE
    BY <1>1, <2>6 DEF Next, SmilHead, SmilBody, SmilMedia, SmilTextStream, SmilNested,
       SmilEntryEnd, SmilEnd, FeedElement, RssAnnounce, RssSkip, RssItem, AtomEntry,
       ItemElement, ItemEnd, FeedEnd
  <2> QED  BY <2>2, <2>3, <2>4, <2>5, <2>6 DEF IInv, Basics
<1>2. CASE UNCHANGED vars
  <2>1. UNCHANGED doc /\ UNCHANGED <<calls, title, feed, phase, out, retval>>  BY <1>2 DEF vars
  <2>2. (Smil' <=> Smil) /\ (Rss' <=> Rss) /\ (Atom' <=> Atom) /\ (Tree' <=> Tree)
    BY <2>1, SameElements
  <2>3. (Stacked(calls)' <=> Stacked(calls)) /\ (AllPassed(calls)' <=> AllPassed(calls))
    BY <2>1, SameStack
  <2>4. Showing(calls, title, phase, out, retval)' <=> Showing(calls, title, phase, out, retval)
    BY <2>1, SameShowing
  <2>5. Announced(calls, feed, phase, out)' <=> Announced(calls, feed, phase, out)
    BY <2>1, SameAnnounced
  <2>6. Feeding(calls, phase, out)' <=> Feeding(calls, phase, out)  BY <2>1, SameFeeding
  <2>7. Typed' <=> Typed  BY <2>1, <2>2 DEF Typed
  <2> QED  BY <2>1, <2>2, <2>3, <2>4, <2>5, <2>6, <2>7 DEF IInv
<1> QED  BY <1>1, <1>2

LEMMA IInvAnnounced == IInv => AnnouncedWhole
<1> SUFFICES ASSUME IInv, ~Smil PROVE AnnouncedWhole
  BY DEF AnnouncedWhole
<1>1. CASE Rss \/ Atom
  <2>1. Announced(calls, feed, phase, out)  BY <1>1 DEF IInv
  <2> QED  BY <2>1 DEF Announced, RightlySaid, AnnouncedWhole
<1>2. CASE ~(Rss \/ Atom)
  <2>1. out = <<>>  BY <1>2 DEF IInv
  <2>2. DOMAIN out = {}  BY <2>1
  <2> QED  BY <2>1, <2>2 DEF AnnouncedWhole
<1> QED  BY <1>1, <1>2

LEMMA IInvEntries == IInv => EntriesWhole
<1> SUFFICES ASSUME IInv, phase = "done" PROVE IF Smil THEN SmilWhole ELSE FeedWhole
  BY DEF EntriesWhole
<1>1. Typed /\ Stacked(calls) /\ AllPassed(calls)  BY DEF IInv
<1>2. CASE Smil
  <2>1. Showing(calls, title, phase, out, retval)  BY <1>2 DEF IInv
  <2> QED  BY <1>1, <1>2, <2>1, ShownWhole
<1>3. CASE ~Smil
  <2>1. Rss \/ Atom  BY <1>3 DEF IInv
  <2>2. Feeding(calls, phase, out)  BY <2>1 DEF IInv
  <2> QED  BY <1>1, <1>3, <2>2, FedWhole
<1> QED  BY <1>2, <1>3

-----------------------------------------------------------------------------
(* A feed is announced once, before its first entry, with the image and    *)
(* the author the whole of it or, for Atom, what is in front of its first  *)
(* entry gives, and it ends once, after its last entry, however long it is *)
(* and however often and in whatever order its elements come.              *)
THEOREM AnnouncedOnce == Spec => []AnnouncedWhole
<1>1. Init => IInv  BY IInvInit
<1>2. IInv /\ [Next]_vars => IInv'  BY IInvNext
<1>3. IInv => AnnouncedWhole  BY IInvAnnounced
<1> QED  BY <1>1, <1>2, <1>3, PTL DEF Spec

(* Every media element of a SMIL with an address is reported once, with    *)
(* its own title or that of the head in front of it and the last           *)
(* textstream before the next media element, in the order in which the     *)
(* elements are complete, and every item of a feed that names a location   *)
(* once, in order, with the last location it names and nothing of another  *)
(* item, for documents of any size and depth.                              *)
THEOREM EntriesComeWhole == Spec => []EntriesWhole
<1>1. Init => IInv  BY IInvInit
<1>2. IInv /\ [Next]_vars => IInv'  BY IInvNext
<1>3. IInv => EntriesWhole  BY IInvEntries
<1> QED  BY <1>1, <1>2, <1>3, PTL DEF Spec
=============================================================================
