---------------------------- MODULE TurnerProofs ----------------------------
(***************************************************************************)
(* Turner's timer: its list keeps the times of its nodes, and although a   *)
(* round drops at most one node, none waits longer than there are timers.  *)
(***************************************************************************)
EXTENDS TurnerTimer, FiniteSetTheorems, Recursion

NodeType == [seq : TimerSeqs, timeDiff : Int]
Lists == Seq(NodeType)

LEMMA ListFacts ==
    ASSUME NEW l \in Lists
    PROVE  /\ Len(l) \in Nat /\ DOMAIN l = 1..Len(l)
           /\ \A i \in 1..Len(l) :
                /\ l[i] \in NodeType /\ l[i].seq \in TimerSeqs /\ l[i].timeDiff \in Int
                /\ l[i] = Node(l[i].seq, l[i].timeDiff)
  <1>1. Len(l) \in Nat /\ DOMAIN l = 1..Len(l) /\ \A i \in 1..Len(l) : l[i] \in NodeType
    BY DEF Lists
  <1>2. ASSUME NEW x \in NodeType
        PROVE  x.seq \in TimerSeqs /\ x.timeDiff \in Int /\ x = Node(x.seq, x.timeDiff)
    BY DEF NodeType, Node
  <1>. QED BY <1>1, <1>2

-----------------------------------------------------------------------------
(* What the recursive function in Expiry computes.                         *)
Sums(d, l, n) == d = [j \in 0..n |-> IF j = 0 THEN 0 ELSE d[j - 1] + l[j].timeDiff]

LEMMA SumsAt ==
    ASSUME NEW d, NEW l, NEW n \in Nat, Sums(d, l, n), NEW j \in 0..n
    PROVE  d[j] = IF j = 0 THEN 0 ELSE d[j - 1] + l[j].timeDiff
  <1>1. [i \in 0..n |-> IF i = 0 THEN 0 ELSE d[i - 1] + l[i].timeDiff][j]
          = IF j = 0 THEN 0 ELSE d[j - 1] + l[j].timeDiff
    OBVIOUS
  <1>. QED BY <1>1, Zenon DEF Sums

LEMMA SumsExist ==
    ASSUME NEW l, NEW n \in Nat
    PROVE  \E d : Sums(d, l, n)
  <1>. DEFINE Good == {m \in Nat : \E d : Sums(d, l, m)}
  <1>1. 0 \in Good
    <2>1. Sums([j \in 0..0 |-> 0], l, 0)
      BY DEF Sums
    <2>. QED BY <2>1
  <1>2. ASSUME NEW m \in Nat, m \in Good PROVE m + 1 \in Good
    <2>1. PICK d : Sums(d, l, m)
      BY <1>2
    <2>. DEFINE h == [j \in 0..m + 1 |-> IF j <= m THEN d[j] ELSE d[m] + l[j].timeDiff]
    <2>2. ASSUME NEW j \in 0..m + 1
          PROVE  h[j] = IF j = 0 THEN 0 ELSE h[j - 1] + l[j].timeDiff
      <3>1. CASE j <= m
        <4>1. d[j] = IF j = 0 THEN 0 ELSE d[j - 1] + l[j].timeDiff
          BY <2>1, <3>1, SumsAt
        <4>2. j # 0 => h[j - 1] = d[j - 1]
          BY <3>1
        <4>. QED BY <3>1, <4>1, <4>2
      <3>2. CASE j = m + 1
        BY <3>2
      <3>. QED BY <3>1, <3>2
    <2>3. Sums(h, l, m + 1)
      <3>. HIDE DEF h
      <3>1. h = [j \in 0..m + 1 |-> h[j]]
        BY DEF h
      <3>. QED BY <2>2, <3>1 DEF Sums
    <2>. HIDE DEF h
    <2>. QED BY <2>3
  <1>3. Nat \subseteq Good
    <2>. HIDE DEF Good
    <2>. QED BY <1>1, <1>2, SetInduction
  <1>. QED BY <1>3

LEMMA SumsUnique ==
    ASSUME NEW d, NEW e, NEW l, NEW m \in Nat, NEW n \in Nat,
           Sums(d, l, m), Sums(e, l, n), m <= n
    PROVE  \A j \in 0..m : d[j] = e[j]
  <1>. DEFINE Good == {j \in Nat : j <= m => d[j] = e[j]}
  <1>1. 0 \in Good
    <2>1. d[0] = 0 /\ e[0] = 0
      BY SumsAt
    <2>. QED BY <2>1
  <1>2. ASSUME NEW j \in Nat, j \in Good PROVE j + 1 \in Good
    <2>1. SUFFICES ASSUME j + 1 <= m PROVE d[j + 1] = e[j + 1]
      OBVIOUS
    <2>2. j + 1 \in 0..m /\ j + 1 \in 0..n /\ (j + 1) - 1 = j /\ j + 1 # 0 /\ d[j] = e[j]
      BY <1>2, <2>1
    <2>3. /\ d[j + 1] = IF j + 1 = 0 THEN 0 ELSE d[(j + 1) - 1] + l[j + 1].timeDiff
          /\ e[j + 1] = IF j + 1 = 0 THEN 0 ELSE e[(j + 1) - 1] + l[j + 1].timeDiff
      BY <2>2, SumsAt
    <2>. QED BY <2>2, <2>3
  <1>3. Nat \subseteq Good
    <2>. HIDE DEF Good
    <2>. QED BY <1>1, <1>2, SetInduction
  <1>. QED BY <1>3

LEMMA ExpiryBy ==
    ASSUME NEW l, NEW n \in Nat, NEW d, Sums(d, l, n), NEW i \in 0..n
    PROVE  Expiry(l, i) = d[i]
  <1>1. \E s : Sums(s, l, i)
    BY SumsExist
  <1>2. PICK s : Sums(s, l, i) /\ Expiry(l, i) = s[i]
    BY <1>1, Zenon DEF Expiry, Sums
  <1>3. i \in Nat /\ i <= n /\ i \in 0..i
    OBVIOUS
  <1>. QED BY <1>2, <1>3, SumsUnique

LEMMA ExpiryFacts ==
    ASSUME NEW l \in Lists
    PROVE  /\ Expiry(l, 0) = 0
           /\ \A j \in 1..Len(l) : Expiry(l, j) = Expiry(l, j - 1) + l[j].timeDiff
           /\ \A j \in 0..Len(l) : Expiry(l, j) \in Int
  <1>0. Len(l) \in Nat /\ \A i \in 1..Len(l) : l[i].timeDiff \in Int
    BY ListFacts
  <1>1. PICK d : Sums(d, l, Len(l))
    BY <1>0, SumsExist
  <1>2. \A j \in 0..Len(l) : Expiry(l, j) = d[j]
    BY <1>0, <1>1, ExpiryBy
  <1>3. \A j \in 0..Len(l) : d[j] = IF j = 0 THEN 0 ELSE d[j - 1] + l[j].timeDiff
    BY <1>0, <1>1, SumsAt
  <1>4. Expiry(l, 0) = 0
    BY <1>0, <1>2, <1>3
  <1>5. ASSUME NEW j \in 1..Len(l) PROVE Expiry(l, j) = Expiry(l, j - 1) + l[j].timeDiff
    <2>1. j \in 0..Len(l) /\ j - 1 \in 0..Len(l) /\ j # 0
      BY <1>0
    <2>. QED BY <1>2, <1>3, <2>1, Zenon
  <1>. DEFINE Good == {j \in Nat : j <= Len(l) => Expiry(l, j) \in Int}
  <1>6. 0 \in Good
    BY <1>4
  <1>7. ASSUME NEW j \in Nat, j \in Good PROVE j + 1 \in Good
    <2>1. SUFFICES ASSUME j + 1 <= Len(l) PROVE Expiry(l, j + 1) \in Int
      OBVIOUS
    <2>2. j + 1 \in 1..Len(l) /\ (j + 1) - 1 = j /\ Expiry(l, j) \in Int
      BY <1>0, <1>7, <2>1
    <2>3. Expiry(l, j + 1) = Expiry(l, j) + l[j + 1].timeDiff
      BY <1>5, <2>2, Zenon
    <2>. QED BY <1>0, <2>2, <2>3
  <1>8. Nat \subseteq Good
    <2>. HIDE DEF Good
    <2>. QED BY <1>6, <1>7, SetInduction
  <1>. QED BY <1>0, <1>4, <1>5, <1>8

LEMMA ExpiryUnique ==
    ASSUME NEW l \in Lists, NEW d, d[0] = 0,
           \A j \in 1..Len(l) : d[j] = d[j - 1] + l[j].timeDiff
    PROVE  \A j \in 0..Len(l) : Expiry(l, j) = d[j]
  <1>0. Len(l) \in Nat
    BY ListFacts
  <1>. DEFINE Good == {j \in Nat : j <= Len(l) => Expiry(l, j) = d[j]}
  <1>1. 0 \in Good
    BY ExpiryFacts
  <1>2. ASSUME NEW j \in Nat, j \in Good PROVE j + 1 \in Good
    <2>1. SUFFICES ASSUME j + 1 <= Len(l) PROVE Expiry(l, j + 1) = d[j + 1]
      OBVIOUS
    <2>2. j + 1 \in 1..Len(l) /\ j <= Len(l) /\ (j + 1) - 1 = j
      BY <1>0, <2>1
    <2>3. /\ Expiry(l, j + 1) = Expiry(l, j) + l[j + 1].timeDiff
          /\ d[j + 1] = d[j] + l[j + 1].timeDiff
      BY <2>2, ExpiryFacts, Zenon
    <2>. QED BY <1>2, <2>2, <2>3
  <1>3. Nat \subseteq Good
    <2>. HIDE DEF Good
    <2>. QED BY <1>1, <1>2, SetInduction
  <1>. QED BY <1>0, <1>3

(* The nodes from the second on are in order. *)
Ordered(l) == \A i \in 2..Len(l) : l[i].timeDiff >= 0

LEMMA OrderedBy ==
    ASSUME NEW l \in Lists
    PROVE  Ordered(l) <=> \A i \in 2..Len(l) : Expiry(l, i - 1) <= Expiry(l, i)
  <1>1. ASSUME NEW i \in 2..Len(l)
        PROVE  l[i].timeDiff >= 0 <=> Expiry(l, i - 1) <= Expiry(l, i)
    <2>1. /\ i \in 1..Len(l) /\ i - 1 \in 0..Len(l)
      BY ListFacts
    <2>2. Expiry(l, i) = Expiry(l, i - 1) + l[i].timeDiff
      BY <2>1, ExpiryFacts, Zenon
    <2>3. Expiry(l, i - 1) \in Int /\ l[i].timeDiff \in Int
      BY <2>1, ListFacts, ExpiryFacts
    <2>. QED BY <2>2, <2>3
  <1>. QED BY <1>1 DEF Ordered

LEMMA LaterExpiresLater ==
    ASSUME NEW l \in Lists, Ordered(l), NEW i \in 1..Len(l), NEW j \in i..Len(l)
    PROVE  Expiry(l, i) <= Expiry(l, j)
  <1>0. Len(l) \in Nat /\ \A k \in 0..Len(l) : Expiry(l, k) \in Int
    BY ListFacts, ExpiryFacts
  <1>. DEFINE Good == {n \in Nat : i + n <= Len(l) => Expiry(l, i) <= Expiry(l, i + n)}
  <1>1. 0 \in Good
    BY <1>0
  <1>2. ASSUME NEW n \in Nat, n \in Good PROVE n + 1 \in Good
    <2>1. SUFFICES ASSUME i + (n + 1) <= Len(l)
                   PROVE  Expiry(l, i) <= Expiry(l, i + (n + 1))
      OBVIOUS
    <2>2. /\ i + (n + 1) \in 2..Len(l) /\ i + n <= Len(l) /\ i + n \in 0..Len(l)
          /\ (i + (n + 1)) - 1 = i + n /\ i \in 0..Len(l) /\ i + (n + 1) \in 0..Len(l)
      BY <1>0, <2>1
    <2>3. Expiry(l, i + n) <= Expiry(l, i + (n + 1))
      BY <2>2, OrderedBy, Zenon
    <2>. QED BY <1>0, <1>2, <2>2, <2>3
  <1>3. Nat \subseteq Good
    <2>. HIDE DEF Good
    <2>. QED BY <1>1, <1>2, SetInduction
  <1>4. j - i \in Nat /\ i + (j - i) = j /\ j <= Len(l)
    BY <1>0
  <1>. QED BY <1>3, <1>4
-----------------------------------------------------------------------------
(* The operations on the list, and what they do to the expiries.           *)
Shifted(l, p, d) == IF p \in DOMAIN l THEN [l EXCEPT ![p].timeDiff = @ + d] ELSE l

LEMMA ShiftedFacts ==
    ASSUME NEW l \in Lists, NEW p \in Nat, NEW d \in Int
    PROVE  /\ Shifted(l, p, d) \in Lists
           /\ Len(Shifted(l, p, d)) = Len(l)
           /\ \A i \in 1..Len(l) :
                /\ Shifted(l, p, d)[i].seq = l[i].seq
                /\ Shifted(l, p, d)[i].timeDiff = l[i].timeDiff + IF i = p THEN d ELSE 0
  <1>. DEFINE n == Len(l)
  <1>0. /\ n \in Nat /\ DOMAIN l = 1..n
        /\ \A i \in 1..n : /\ l[i] \in NodeType /\ l[i].timeDiff \in Int
                           /\ l[i].seq \in TimerSeqs
                           /\ l[i] = Node(l[i].seq, l[i].timeDiff)
    BY ListFacts
  <1>1. CASE p \notin 1..n
    <2>1. Shifted(l, p, d) = l
      BY <1>0, <1>1 DEF Shifted
    <2>. QED BY <1>0, <1>1, <2>1
  <1>2. CASE p \in 1..n
    <2>. DEFINE new == Node(l[p].seq, l[p].timeDiff + d)
    <2>2. [l[p] EXCEPT !.timeDiff = @ + d] = new
      <3>1. l[p] = [seq |-> l[p].seq, timeDiff |-> l[p].timeDiff]
        BY <1>0, <1>2 DEF Node
      <3>. QED BY <3>1 DEF Node
    <2>3. Shifted(l, p, d) = [l EXCEPT ![p] = new]
      BY <1>0, <1>2, <2>2 DEF Shifted
    <2>4. new \in NodeType /\ new.seq = l[p].seq /\ new.timeDiff = l[p].timeDiff + d
      BY <1>0, <1>2 DEF Node, NodeType
    <2>. HIDE DEF new
    <2>5. /\ [l EXCEPT ![p] = new] \in Lists
          /\ Len([l EXCEPT ![p] = new]) = n
          /\ \A i \in 1..n : [l EXCEPT ![p] = new][i] = IF i = p THEN new ELSE l[i]
      BY <1>0, <1>2, <2>4, ExceptSeq DEF Lists
    <2>. QED BY <1>0, <2>3, <2>4, <2>5
  <1>. QED BY <1>1, <1>2

(* addNode(): the new node comes after those that are overdue, or first.   *)
LEMMA PlaceFacts ==
    ASSUME NEW l \in Lists, NEW t \in Int
    PROVE  LET p == Place(l, t) IN
             /\ p \in 1..Len(l) + 1
             /\ p <= Len(l) => t <= Expiry(l, p)
             /\ p # 1 => Expiry(l, p - 1) <= t
  <1>. DEFINE n == Len(l)
              Later == {p \in 2..n + 1 : p <= n => t <= Expiry(l, p)}
  <1>0. n \in Nat /\ \A i \in 0..n : Expiry(l, i) \in Int
    BY ListFacts, ExpiryFacts
  <1>1. n > 0 => Expiry(l, 1) = l[1].timeDiff
    <2>1. n > 0 => 1 \in 1..n /\ 1 - 1 = 0 /\ l[1].timeDiff \in Int
      BY <1>0, ListFacts
    <2>2. n > 0 => Expiry(l, 1) = Expiry(l, 0) + l[1].timeDiff
      BY <2>1, ExpiryFacts, Zenon
    <2>. QED BY <2>1, <2>2, ExpiryFacts
  <1>2. CASE l = <<>> \/ l[1].timeDiff > t
    <2>1. Place(l, t) = 1
      BY <1>2 DEF Place
    <2>2. l = <<>> => n = 0
      OBVIOUS
    <2>3. n > 0 => t <= Expiry(l, 1)
      BY <1>0, <1>1, <1>2, <2>2
    <2>. QED BY <1>0, <2>1, <2>3
  <1>3. CASE ~ (l = <<>> \/ l[1].timeDiff > t)
    <2>1. n > 0 /\ Expiry(l, 1) <= t
      <3>1. n > 0
        BY <1>0, <1>3, EmptySeq DEF Lists
      <3>2. l[1].timeDiff \in Int
        BY <1>0, <3>1, ListFacts
      <3>. QED BY <1>1, <1>3, <3>1, <3>2
    <2>2. n + 1 \in Later /\ Later \subseteq Nat
      BY <1>0, <2>1
    <2>3. PICK m \in Later : \A q \in Later : m <= q
      <3>1. PICK m \in Later : \A q \in Later : ~ (<<q, m>> \in OpToRel(<, Nat))
        <4>. HIDE DEF Later
        <4>. QED BY <2>2, NatLessThanWellFounded, WFMin
      <3>2. \A q \in Later : ~ (q < m)
        BY <2>2, <3>1, Zenon DEF OpToRel
      <3>. QED BY <2>2, <3>2
    <2>4. \A q \in 2..m - 1 : Expiry(l, q) < t
      BY <1>0, <2>3
    <2>5. /\ Place(l, t) \in 2..n + 1
          /\ Place(l, t) <= n => t <= Expiry(l, Place(l, t))
          /\ \A q \in 2..Place(l, t) - 1 : Expiry(l, q) < t
      <3>1. m \in 2..n + 1 /\ (m <= n => t <= Expiry(l, m))
        BY <2>3
      <3>. QED BY <1>3, <2>4, <3>1, Zenon DEF Place
    <2>6. Expiry(l, Place(l, t) - 1) <= t
      <3>1. CASE Place(l, t) = 2
        BY <2>1, <3>1
      <3>2. CASE Place(l, t) # 2
        <4>1. Place(l, t) - 1 \in 2..Place(l, t) - 1 /\ Place(l, t) - 1 \in 0..n
          BY <1>0, <2>5, <3>2
        <4>. QED BY <1>0, <2>5, <4>1
      <3>. QED BY <3>1, <3>2
    <2>. QED BY <1>0, <2>5, <2>6
  <1>. QED BY <1>2, <1>3

(* List new is l with the timer of k, to end in t seconds, put in place p. *)
Inserts(new, l, k, t, p) ==
    /\ new \in Lists /\ Len(new) = Len(l) + 1
    /\ \A i \in 1..Len(l) + 1 :
         /\ new[i].seq = IF i < p THEN l[i].seq ELSE IF i = p THEN k ELSE l[i - 1].seq
         /\ Expiry(new, i) = IF i < p THEN Expiry(l, i)
                             ELSE IF i = p THEN t ELSE Expiry(l, i - 1)

(* addNode() puts a timer in its place and moves no other.                 *)
LEMMA AddedExpiries ==
    ASSUME NEW l \in Lists, NEW k \in TimerSeqs, NEW t \in Int
    PROVE  Inserts(Added(l, k, t), l, k, t, Place(l, t))
  <1>. DEFINE new == Added(l, k, t)
              n == Len(l)
              p == Place(l, t)
              r == t - Expiry(l, p - 1)
              mid == Shifted(l, p, -r)
  <1>0. /\ n \in Nat /\ DOMAIN l = 1..n
        /\ \A i \in 1..n : l[i].timeDiff \in Int /\ l[i].seq \in TimerSeqs
        /\ \A i \in 0..n : Expiry(l, i) \in Int
        /\ \A i \in 1..n : Expiry(l, i) = Expiry(l, i - 1) + l[i].timeDiff
        /\ Expiry(l, 0) = 0
    BY ListFacts, ExpiryFacts
  <1>1. p \in 1..n + 1 /\ p - 1 \in 0..n /\ p \in Nat
    <2>1. p \in 1..n + 1
      BY PlaceFacts
    <2>. HIDE DEF p
    <2>. QED BY <1>0, <2>1
  <1>. HIDE DEF p
  <1>2. r \in Int /\ -r \in Int
    <2>1. Expiry(l, p - 1) \in Int
      BY <1>0, <1>1
    <2>. QED BY <2>1
  <1>4. /\ mid \in Lists /\ Len(mid) = n
        /\ \A i \in 1..n : /\ mid[i].seq = l[i].seq
                           /\ mid[i].timeDiff = l[i].timeDiff + IF i = p THEN -r ELSE 0
    <2>. HIDE DEF r
    <2>. QED BY <1>1, <1>2, ShiftedFacts
  <1>5. Node(k, r) \in NodeType /\ Node(k, r).seq = k /\ Node(k, r).timeDiff = r
    BY <1>2 DEF Node, NodeType
  <1>6. new = InsertAt(mid, p, Node(k, r))
    <2>1. new = InsertAt(IF p \in DOMAIN l THEN [l EXCEPT ![p].timeDiff = @ - r] ELSE l,
                         p, Node(k, r))
      BY DEF Added, p
    <2>2. (IF p \in DOMAIN l THEN [l EXCEPT ![p].timeDiff = @ - r] ELSE l) = mid
      <3>1. CASE p \in DOMAIN l
        <4>1. l[p].timeDiff - r = l[p].timeDiff + (-r)
          BY <1>0, <1>2, <3>1
        <4>. HIDE DEF r
        <4>. QED BY <3>1, <4>1 DEF Shifted
      <3>2. CASE p \notin DOMAIN l
        BY <3>2 DEF Shifted
      <3>. QED BY <3>1, <3>2
    <2>. QED BY <2>1, <2>2, Zenon
  <1>. HIDE DEF mid, new
  <1>7. /\ new \in Lists /\ Len(new) = n + 1
        /\ \A i \in 1..n + 1 :
             new[i] = IF i < p THEN mid[i] ELSE IF i = p THEN Node(k, r) ELSE mid[i - 1]
    <2>. HIDE DEF r
    <2>1. mid \in Seq(NodeType) /\ p \in 1..Len(mid) + 1
      BY <1>1, <1>4 DEF Lists
    <2>2. /\ InsertAt(mid, p, Node(k, r)) \in Seq(NodeType)
          /\ Len(InsertAt(mid, p, Node(k, r))) = Len(mid) + 1
          /\ \A i \in 1..Len(mid) + 1 :
                InsertAt(mid, p, Node(k, r))[i] =
                  IF i < p THEN mid[i] ELSE IF i = p THEN Node(k, r) ELSE mid[i - 1]
      BY <1>5, <2>1, InsertAtFacts
    <2>. QED BY <1>4, <1>6, <2>2, Zenon DEF Lists
  <1>8. \A i \in 1..n + 1 :
          /\ new[i].seq = IF i < p THEN l[i].seq ELSE IF i = p THEN k ELSE l[i - 1].seq
          /\ new[i].timeDiff = IF i < p THEN l[i].timeDiff
                               ELSE IF i = p THEN r
                               ELSE l[i - 1].timeDiff + IF i = p + 1 THEN -r ELSE 0
    <2>1. ASSUME NEW i \in 1..n + 1
          PROVE  /\ new[i].seq = IF i < p THEN l[i].seq
                                 ELSE IF i = p THEN k ELSE l[i - 1].seq
                 /\ new[i].timeDiff = IF i < p THEN l[i].timeDiff
                                      ELSE IF i = p THEN r
                                      ELSE l[i - 1].timeDiff + IF i = p + 1 THEN -r ELSE 0
      <3>. HIDE DEF r
      <3>1. CASE i < p
        <4>1. i \in 1..n /\ i # p
          BY <1>0, <1>1, <3>1
        <4>. QED BY <1>0, <1>4, <1>7, <3>1, <4>1
      <3>2. CASE i = p
        BY <1>5, <1>7, <3>2
      <3>3. CASE i > p
        <4>1. i - 1 \in 1..n /\ (i - 1 = p <=> i = p + 1) /\ i # p /\ ~ (i < p)
          BY <1>0, <1>1, <3>3
        <4>. QED BY <1>4, <1>7, <4>1
      <3>. QED BY <1>1, <3>1, <3>2, <3>3
    <2>. QED BY <2>1
  <1>. DEFINE d == [i \in 0..n + 1 |-> IF i < p THEN Expiry(l, i)
                                       ELSE IF i = p THEN t ELSE Expiry(l, i - 1)]
  <1>9. d[0] = 0
    BY <1>0, <1>1
  <1>10. ASSUME NEW i \in 1..n + 1 PROVE d[i] = d[i - 1] + new[i].timeDiff
    <2>1. CASE i < p
      <3>1. i \in 1..n /\ i - 1 < p /\ i - 1 \in 0..n + 1
        BY <1>0, <1>1, <2>1
      <3>2. new[i].timeDiff = l[i].timeDiff
        BY <1>8, <2>1
      <3>. QED BY <1>0, <2>1, <3>1, <3>2
    <2>2. CASE i = p
      <3>1. i - 1 < p /\ i - 1 \in 0..n + 1 /\ d[i - 1] = Expiry(l, p - 1)
        BY <1>0, <1>1, <2>2
      <3>2. new[i].timeDiff = r
        <4>. HIDE DEF r
        <4>. QED BY <1>8, <2>2
      <3>. QED BY <1>0, <1>1, <2>2, <3>1, <3>2
    <2>3. CASE i = p + 1
      <3>1. d[i - 1] = t /\ d[i] = Expiry(l, p) /\ p \in 1..n
        BY <1>0, <1>1, <2>3
      <3>2. new[i].timeDiff = l[p].timeDiff + (-r)
        <4>1. i - 1 = p /\ ~ (i < p) /\ i # p
          BY <1>1, <2>3
        <4>. HIDE DEF r
        <4>. QED BY <1>8, <2>3, <4>1
      <3>3. Expiry(l, p) = Expiry(l, p - 1) + l[p].timeDiff
        BY <1>0, <3>1
      <3>4. Expiry(l, p - 1) \in Int /\ l[p].timeDiff \in Int
        BY <1>0, <1>1, <3>1
      <3>. HIDE DEF d
      <3>. QED BY <3>1, <3>2, <3>3, <3>4
    <2>4. CASE i > p + 1
      <3>1. /\ i - 1 \in 1..n /\ i - 1 > p /\ i > p
            /\ d[i] = Expiry(l, i - 1) /\ d[i - 1] = Expiry(l, (i - 1) - 1)
        BY <1>0, <1>1, <2>4
      <3>2. new[i].timeDiff = l[i - 1].timeDiff
        <4>1. ~ (i < p) /\ i # p /\ i # p + 1 /\ l[i - 1].timeDiff \in Int
          BY <1>0, <1>1, <2>4, <3>1
        <4>. HIDE DEF r, d
        <4>. QED BY <1>8, <4>1
      <3>. QED BY <1>0, <3>1, <3>2
    <2>. QED BY <1>1, <2>1, <2>2, <2>3, <2>4
  <1>11. \A i \in 0..n + 1 : Expiry(new, i) = d[i]
    <2>. HIDE DEF d, n
    <2>. QED BY <1>7, <1>9, <1>10, ExpiryUnique
  <1>12. \A i \in 1..n + 1 :
           /\ new[i].seq = IF i < p THEN l[i].seq ELSE IF i = p THEN k ELSE l[i - 1].seq
           /\ Expiry(new, i) = IF i < p THEN Expiry(l, i)
                               ELSE IF i = p THEN t ELSE Expiry(l, i - 1)
    <2>. HIDE DEF r
    <2>. QED BY <1>0, <1>8, <1>11
  <1>13. Inserts(new, l, k, t, p)
    BY <1>7, <1>12, Zenon DEF Inserts, n
  <1>. QED BY <1>13, Zenon DEF new, p

Distinct(l) == \A i, j \in DOMAIN l : l[i].seq = l[j].seq => i = j

(* deleteNode() takes a node out and moves no other.                       *)
LEMMA DeletedExpiries ==
    ASSUME NEW l \in Lists, Distinct(l), NEW p \in 1..Len(l)
    PROVE  LET new == Deleted(l, l[p].seq) IN
             /\ new \in Lists /\ Len(new) = Len(l) - 1
             /\ \A i \in 1..Len(l) - 1 :
                  /\ new[i].seq = IF i < p THEN l[i].seq ELSE l[i + 1].seq
                  /\ Expiry(new, i) = IF i < p THEN Expiry(l, i) ELSE Expiry(l, i + 1)
  <1>. DEFINE new == Deleted(l, l[p].seq)
              n == Len(l)
              mid == Shifted(l, p + 1, l[p].timeDiff)
  <1>0. /\ n \in Nat /\ p \in Nat
        /\ \A i \in 1..n : l[i].timeDiff \in Int /\ l[i].seq \in TimerSeqs
        /\ \A i \in 0..n : Expiry(l, i) \in Int
        /\ \A i \in 1..n : Expiry(l, i) = Expiry(l, i - 1) + l[i].timeDiff
        /\ Expiry(l, 0) = 0
    <2>1. Len(l) \in Nat /\ \A i \in 1..Len(l) : l[i].timeDiff \in Int /\ l[i].seq \in TimerSeqs
      BY ListFacts, Zenon
    <2>2. /\ Expiry(l, 0) = 0
          /\ \A i \in 1..Len(l) : Expiry(l, i) = Expiry(l, i - 1) + l[i].timeDiff
          /\ \A i \in 0..Len(l) : Expiry(l, i) \in Int
      BY ExpiryFacts, Zenon
    <2>3. p \in Nat
      BY <2>1
    <2>. QED BY <2>1, <2>2, <2>3, Zenon DEF n
  <1>1. /\ mid \in Lists /\ Len(mid) = n
        /\ \A i \in 1..n :
             /\ mid[i].seq = l[i].seq
             /\ mid[i].timeDiff = l[i].timeDiff + IF i = p + 1 THEN l[p].timeDiff ELSE 0
    <2>1. p + 1 \in Nat /\ l[p].timeDiff \in Int
      BY <1>0
    <2>. QED BY <2>1, ShiftedFacts
  <1>2. new = RemoveAt(mid, p)
    <2>1. (CHOOSE j \in DOMAIN l : l[j].seq = l[p].seq) = p
      BY <1>0 DEF Distinct
    <2>2. p < n => p + 1 \in DOMAIN l
      BY <1>0
    <2>3. ~ (p < n) => p + 1 \notin DOMAIN l
      BY <1>0
    <2>4. mid = IF p < n THEN [l EXCEPT ![p + 1].timeDiff = @ + l[p].timeDiff] ELSE l
      BY <2>2, <2>3, Zenon DEF Shifted
    <2>. DEFINE place == CHOOSE j \in DOMAIN l : l[j].seq = l[p].seq
    <2>5. new = RemoveAt(IF place < Len(l)
                         THEN [l EXCEPT ![place + 1].timeDiff = @ + l[place].timeDiff] ELSE l, place)
      BY DEF Deleted
    <2>6. place = p
      BY <2>1
    <2>. HIDE DEF place, new, mid
    <2>7. ASSUME NEW q, q = p
          PROVE  RemoveAt(IF q < Len(l)
                          THEN [l EXCEPT ![q + 1].timeDiff = @ + l[q].timeDiff] ELSE l, q)
                   = RemoveAt(mid, p)
      BY <2>4, <2>7, Zenon
    <2>. QED BY <2>5, <2>6, <2>7
  <1>. HIDE DEF mid, new
  <1>3. /\ new \in Lists /\ Len(new) = n - 1
        /\ \A i \in 1..n - 1 : new[i] = IF i < p THEN mid[i] ELSE mid[i + 1]
    <2>1. mid \in Seq(NodeType) /\ p \in 1..Len(mid)
      BY <1>1 DEF Lists
    <2>2. /\ RemoveAt(mid, p) \in Seq(NodeType)
          /\ Len(RemoveAt(mid, p)) = Len(mid) - 1
          /\ \A i \in 1..Len(mid) - 1 :
                RemoveAt(mid, p)[i] = IF i < p THEN mid[i] ELSE mid[i + 1]
      BY <2>1, RemoveAtFacts
    <2>. QED BY <1>1, <1>2, <2>2, Zenon DEF Lists
  <1>4. ASSUME NEW i \in 1..n - 1
        PROVE  /\ new[i].seq = IF i < p THEN l[i].seq ELSE l[i + 1].seq
               /\ new[i].timeDiff = IF i < p THEN l[i].timeDiff
                                  ELSE l[i + 1].timeDiff + IF i = p THEN l[p].timeDiff ELSE 0
    <2>1. CASE i < p
      <3>1. i \in 1..n /\ i # p + 1
        BY <1>0, <2>1
      <3>2. /\ new[i] = mid[i] /\ mid[i].seq = l[i].seq
            /\ mid[i].timeDiff = l[i].timeDiff + 0 /\ l[i].timeDiff \in Int
        BY <1>0, <1>1, <1>3, <2>1, <3>1, Zenon
      <3>. QED BY <2>1, <3>2
    <2>2. CASE ~ (i < p)
      <3>1. i + 1 \in 1..n /\ (i + 1 = p + 1 <=> i = p)
        BY <1>0, <2>2
      <3>. QED BY <1>1, <1>3, <2>2, <3>1
    <2>. QED BY <2>1, <2>2
  <1>. DEFINE d == [i \in 0..n - 1 |-> IF i < p THEN Expiry(l, i) ELSE Expiry(l, i + 1)]
  <1>5. d[0] = 0
    BY <1>0
  <1>6. ASSUME NEW i \in 1..n - 1 PROVE d[i] = d[i - 1] + new[i].timeDiff
    <2>1. CASE i < p
      <3>1. i \in 1..n /\ i - 1 < p /\ i - 1 \in 0..n - 1
        BY <1>0, <2>1
      <3>2. d[i] = Expiry(l, i) /\ d[i - 1] = Expiry(l, i - 1)
        BY <2>1, <3>1
      <3>3. new[i].timeDiff = l[i].timeDiff
        BY <1>4, <2>1
      <3>. HIDE DEF d
      <3>. QED BY <1>0, <3>1, <3>2, <3>3
    <2>2. CASE i = p
      <3>1. /\ d[i] = Expiry(l, p + 1) /\ d[i - 1] = Expiry(l, p - 1)
            /\ p + 1 \in 1..n /\ (p + 1) - 1 = p /\ p - 1 \in 0..n
        BY <1>0, <2>2
      <3>2. new[i].timeDiff = l[p + 1].timeDiff + l[p].timeDiff
        BY <1>4, <2>2
      <3>3. Expiry(l, p + 1) = Expiry(l, p) + l[p + 1].timeDiff
        BY <1>0, <3>1
      <3>4. Expiry(l, p) = Expiry(l, p - 1) + l[p].timeDiff
        BY <1>0
      <3>5. /\ Expiry(l, p - 1) \in Int /\ l[p].timeDiff \in Int
            /\ l[p + 1].timeDiff \in Int
        BY <1>0, <3>1
      <3>. HIDE DEF d
      <3>. QED BY <3>1, <3>2, <3>3, <3>4, <3>5
    <2>3. CASE i > p
      <3>1. /\ d[i] = Expiry(l, i + 1) /\ d[i - 1] = Expiry(l, i)
            /\ i + 1 \in 1..n /\ (i + 1) - 1 = i /\ i \in 0..n
        BY <1>0, <2>3
      <3>2. new[i].timeDiff = l[i + 1].timeDiff
        BY <1>0, <1>4, <2>3, <3>1
      <3>. QED BY <1>0, <3>1, <3>2
    <2>. QED BY <1>0, <2>1, <2>2, <2>3
  <1>7. \A i \in 0..n - 1 : Expiry(new, i) = d[i]
    <2>. HIDE DEF d
    <2>. QED BY <1>3, <1>5, <1>6, ExpiryUnique
  <1>. QED BY <1>0, <1>3, <1>4, <1>7 DEF new

-----------------------------------------------------------------------------
(***************************************************************************)
(* The strengthening.  l is a list, left the clock's times and s the       *)
(* seconds since the last round.  An overdue node may have to wait for a   *)
(* round for each node in front of it, and those are only nodes that were  *)
(* overdue before it: the i-th node is overdue by at most MaxSlow seconds  *)
(* for each timer that is not among the first i.                           *)
(***************************************************************************)
Slack(i) == MaxSlow * (Cardinality(TimerSeqs) - i)

Kept(l, left, s) ==
    /\ l \in Lists /\ Distinct(l) /\ Ordered(l)
    /\ \A i \in 1..Len(l) : /\ left[l[i].seq] - (Expiry(l, i) - s) \in 0..MaxSlow
                            /\ Expiry(l, i) > 0 \/ Expiry(l, i) >= -Slack(i)

RequestType == [start : BOOLEAN, seq : TimerSeqs, time : Nat]
Positive(r) == r.start => r.time \in Seconds

TurnerInv ==
    /\ packs \in Seq(RequestType) /\ \A i \in 1..Len(packs) : Positive(packs[i])
    /\ since \in 0..MaxSlow /\ clockLeft \in [TimerSeqs -> Int]
    /\ Kept(list, clockLeft, since)
    /\ \A k \in TimerSeqs \ Timed : clockLeft[k] = 0

LEMMA Constants ==
    /\ MaxSlow \in Nat \ {0} /\ Cardinality(TimerSeqs) \in Nat
    /\ \A t \in Seconds : t \in Nat \ {0}
  BY TurnerAssumption, FS_CardinalityType DEF TurnerAssumption

LEMMA SlackFacts ==
    ASSUME NEW i \in 0..Cardinality(TimerSeqs)
    PROVE  /\ Slack(i) \in Nat
           /\ i # 0 => Slack(i - 1) = Slack(i) + MaxSlow
  <1>1. \A m, d \in Nat : m * d \in Nat /\ m * (d + 1) = m * d + m
    OBVIOUS
  <1>2. /\ Cardinality(TimerSeqs) - i \in Nat /\ MaxSlow \in Nat
        /\ i # 0 => Cardinality(TimerSeqs) - (i - 1) = (Cardinality(TimerSeqs) - i) + 1
    BY Constants
  <1>. QED BY <1>1, <1>2, Zenon DEF Slack

LEMMA NotTooLong ==
    ASSUME NEW l \in Lists, Distinct(l)
    PROVE  Len(l) <= Cardinality(TimerSeqs)
  <1>. DEFINE f == [i \in 1..Len(l) |-> l[i].seq]
  <1>0. Len(l) \in Nat /\ Cardinality(TimerSeqs) \in Nat /\ IsFiniteSet(TimerSeqs)
    BY ListFacts, Constants, TurnerAssumption DEF TurnerAssumption
  <1>1. IsFiniteSet(1..Len(l)) /\ Cardinality(1..Len(l)) = Len(l)
    <2>1. IsFiniteSet(1..Len(l)) /\ Cardinality(1..Len(l)) = IF 1 > Len(l) THEN 0 ELSE Len(l)-1+1
      <3>1. 1 \in Int /\ Len(l) \in Int
        BY <1>0
      <3>. QED BY <3>1, FS_Interval, Zenon
    <2>. QED BY <1>0, <2>1
  <1>2. f \in [1..Len(l) -> TimerSeqs]
    BY ListFacts
  <1>3. SUFFICES ASSUME Cardinality(TimerSeqs) < Len(l) PROVE FALSE
    BY <1>0
  <1>4. PICK x, y \in 1..Len(l) : x # y /\ f[x] = f[y]
    <2>. HIDE DEF f
    <2>. QED BY <1>0, <1>1, <1>2, <1>3, FS_PigeonHole
  <1>. QED BY <1>4, ListFacts DEF Distinct

(* A list is kept by its keys and their expiries. *)
LEMMA KeptBy ==
    ASSUME NEW l, NEW left, NEW s, Kept(l, left, s)
    PROVE  /\ l \in Lists /\ Distinct(l) /\ Ordered(l)
           /\ Len(l) \in Nat /\ Len(l) <= Cardinality(TimerSeqs)
           /\ Len(l) \in 0..Cardinality(TimerSeqs) /\ DOMAIN l = 1..Len(l)
           /\ Expiry(l, 0) = 0
           /\ \A i \in 1..Len(l) :
                /\ Expiry(l, i) \in Int /\ l[i].seq \in TimerSeqs
                /\ left[l[i].seq] - (Expiry(l, i) - s) \in 0..MaxSlow
                /\ Expiry(l, i) > 0 \/ Expiry(l, i) >= -Slack(i)
                /\ i # 1 => Expiry(l, i - 1) <= Expiry(l, i)
                /\ \A j \in 1..Len(l) : l[i].seq = l[j].seq => i = j
  <1>1. /\ l \in Lists /\ Distinct(l) /\ Ordered(l)
        /\ \A i \in 1..Len(l) : /\ left[l[i].seq] - (Expiry(l, i) - s) \in 0..MaxSlow
                                /\ Expiry(l, i) > 0 \/ Expiry(l, i) >= -Slack(i)
    BY DEF Kept
  <1>2. Len(l) \in Nat /\ DOMAIN l = 1..Len(l)
    BY <1>1, ListFacts
  <1>3. Len(l) \in 0..Cardinality(TimerSeqs) /\ Len(l) <= Cardinality(TimerSeqs)
    BY <1>1, <1>2, NotTooLong, Constants
  <1>4. /\ Expiry(l, 0) = 0
        /\ \A i \in 1..Len(l) : Expiry(l, i) \in Int /\ l[i].seq \in TimerSeqs
    BY <1>1, <1>2, ListFacts, ExpiryFacts
  <1>5. ASSUME NEW i \in 1..Len(l), i # 1 PROVE Expiry(l, i - 1) <= Expiry(l, i)
    <2>1. i \in 2..Len(l)
      BY <1>2, <1>5
    <2>. QED BY <1>1, <2>1, OrderedBy
  <1>6. \A i, j \in 1..Len(l) : l[i].seq = l[j].seq => i = j
    BY <1>1, <1>2, Zenon DEF Distinct
  <1>7. ASSUME NEW i \in 1..Len(l)
        PROVE  /\ Expiry(l, i) \in Int /\ l[i].seq \in TimerSeqs
               /\ left[l[i].seq] - (Expiry(l, i) - s) \in 0..MaxSlow
               /\ Expiry(l, i) > 0 \/ Expiry(l, i) >= -Slack(i)
               /\ i # 1 => Expiry(l, i - 1) <= Expiry(l, i)
               /\ \A j \in 1..Len(l) : l[i].seq = l[j].seq => i = j
    <2>1. Expiry(l, i) \in Int /\ l[i].seq \in TimerSeqs
      BY <1>4
    <2>2. left[l[i].seq] - (Expiry(l, i) - s) \in 0..MaxSlow
      BY <1>1
    <2>3. Expiry(l, i) > 0 \/ Expiry(l, i) >= -Slack(i)
      BY <1>1, Zenon
    <2>4. i # 1 => Expiry(l, i - 1) <= Expiry(l, i)
      BY <1>5
    <2>5. \A j \in 1..Len(l) : l[i].seq = l[j].seq => i = j
      BY <1>6
    <2>. QED BY <2>1, <2>2, <2>3, <2>4, <2>5
  <1>. QED BY <1>1, <1>2, <1>3, <1>4, <1>7

LEMMA KeptIf ==
    ASSUME NEW l \in Lists, NEW left, NEW s,
           \A i, j \in 1..Len(l) : l[i].seq = l[j].seq => i = j,
           \A i \in 1..Len(l) :
                /\ left[l[i].seq] - (Expiry(l, i) - s) \in 0..MaxSlow
                /\ Expiry(l, i) > 0 \/ Expiry(l, i) >= -Slack(i)
                /\ i # 1 => Expiry(l, i - 1) <= Expiry(l, i)
    PROVE  Kept(l, left, s)
  <1>1. Distinct(l)
    BY ListFacts DEF Distinct
  <1>2. Ordered(l)
    <2>1. \A i \in 2..Len(l) : i \in 1..Len(l) /\ i # 1
      BY ListFacts
    <2>. QED BY <2>1, OrderedBy
  <1>. QED BY <1>1, <1>2 DEF Kept

LEMMA KeptAlike ==
    ASSUME NEW l, NEW left, NEW other, NEW s, Kept(l, left, s),
           \A i \in 1..Len(l) : other[l[i].seq] = left[l[i].seq]
    PROVE  Kept(l, other, s)
  BY DEF Kept

LEMMA AddedKept ==
    ASSUME NEW l, NEW left, NEW s \in 0..MaxSlow, Kept(l, left, s),
           NEW k \in TimerSeqs, \A i \in 1..Len(l) : l[i].seq # k,
           NEW t \in Nat \ {0}, NEW other, other[k] = t,
           \A i \in 1..Len(l) : other[l[i].seq] = left[l[i].seq]
    PROVE  Kept(Added(l, k, t), other, s)
  <1>. DEFINE new == Added(l, k, t)
              n == Len(l)
              p == Place(l, t)
  <1>0. /\ l \in Lists /\ n \in Nat /\ n <= Cardinality(TimerSeqs)
        /\ Expiry(l, 0) = 0
        /\ \A i \in 1..n :
             /\ Expiry(l, i) \in Int
             /\ left[l[i].seq] - (Expiry(l, i) - s) \in 0..MaxSlow
             /\ Expiry(l, i) > 0 \/ Expiry(l, i) >= -Slack(i)
             /\ i # 1 => Expiry(l, i - 1) <= Expiry(l, i)
             /\ \A j \in 1..n : l[i].seq = l[j].seq => i = j
    BY KeptBy, Zenon
  <1>1. /\ p \in 1..n + 1
        /\ p <= n => t <= Expiry(l, p)
        /\ p # 1 => Expiry(l, p - 1) <= t
    <2>1. l \in Lists /\ t \in Int
      BY <1>0
    <2>. QED BY <2>1, PlaceFacts, Zenon
  <1>2. /\ new \in Lists /\ Len(new) = n + 1
        /\ \A i \in 1..n + 1 :
             /\ new[i].seq = IF i < p THEN l[i].seq ELSE IF i = p THEN k ELSE l[i - 1].seq
             /\ Expiry(new, i) = IF i < p THEN Expiry(l, i)
                                 ELSE IF i = p THEN t ELSE Expiry(l, i - 1)
    <2>1. l \in Lists /\ t \in Int
      BY <1>0
    <2>2. Inserts(Added(l, k, t), l, k, t, Place(l, t))
      BY <2>1, AddedExpiries, Zenon
    <2>. QED BY <2>2, Zenon DEF Inserts, new, p, n
  <1>. HIDE DEF p, new, n
  <1>3. \A i \in 1..n : i >= p => Expiry(l, i) >= t
    <2>1. SUFFICES ASSUME NEW i \in 1..n, i >= p PROVE Expiry(l, i) >= t
      OBVIOUS
    <2>2. p \in 1..n /\ i \in p..n
      BY <1>0, <1>1, <2>1
    <2>3. Expiry(l, p) <= Expiry(l, i)
      BY <2>2, KeptBy, LaterExpiresLater DEF n
    <2>. QED BY <1>0, <1>1, <2>2, <2>3
  <1>4. ASSUME NEW i \in 1..n + 1, NEW j \in 1..n + 1, new[i].seq = new[j].seq
        PROVE  i = j
    <2>1. \A m \in 1..n + 1 : /\ m < p => m \in 1..n
                              /\ m > p => m - 1 \in 1..n
      BY <1>0, <1>1
    <2>2. \A m \in 1..n : l[m].seq # k
      BY DEF n
    <2>3. \A m, q \in 1..n : l[m].seq = l[q].seq => m = q
      BY <1>0
    <2>4. /\ i < p \/ i = p \/ i > p
          /\ j < p \/ j = p \/ j > p
      BY <1>0, <1>1
    <2>5. \A m \in 1..n + 1 : /\ m < p => new[m].seq = l[m].seq
                              /\ m = p => new[m].seq = k
                              /\ m > p => new[m].seq = l[m - 1].seq
      <3>1. \A m \in 1..n + 1 : (m = p => ~ (m < p)) /\ (m > p => ~ (m < p) /\ m # p)
        BY <1>0, <1>1
      <3>. QED BY <1>2, <3>1, Zenon
    <2>6. ASSUME NEW m \in 1..n + 1, NEW q \in 1..n + 1, new[m].seq = new[q].seq, m = p
          PROVE  q = p
      <3>1. new[q].seq = k
        BY <2>5, <2>6
      <3>2. ~ (q < p)
        BY <2>1, <2>2, <2>5, <3>1
      <3>3. ~ (q > p)
        BY <2>1, <2>2, <2>5, <3>1
      <3>. QED BY <1>0, <1>1, <3>2, <3>3
    <2>7. CASE i < p /\ j < p
      BY <1>4, <2>1, <2>3, <2>5, <2>7
    <2>8. CASE i > p /\ j > p
      <3>1. i - 1 = j - 1
        <4>1. /\ i - 1 \in 1..n /\ j - 1 \in 1..n
              /\ l[i - 1].seq = l[j - 1].seq
          BY <1>4, <2>1, <2>5, <2>8
        <4>. QED BY <2>3, <4>1, Zenon
      <3>. QED BY <3>1
    <2>9. ASSUME NEW m \in 1..n + 1, NEW q \in 1..n + 1, m < p, q > p,
                 new[m].seq = new[q].seq
          PROVE  FALSE
      <3>1. /\ m \in 1..n /\ q - 1 \in 1..n
            /\ l[m].seq = l[q - 1].seq
        BY <2>1, <2>5, <2>9
      <3>2. m = q - 1
        BY <2>3, <3>1, Zenon
      <3>. QED BY <1>0, <1>1, <2>9, <3>2
    <2>. QED BY <1>4, <2>4, <2>6, <2>7, <2>8, <2>9
  <1>5. ASSUME NEW i \in 1..n + 1
        PROVE  /\ other[new[i].seq] - (Expiry(new, i) - s) \in 0..MaxSlow
               /\ Expiry(new, i) > 0 \/ Expiry(new, i) >= -Slack(i)
               /\ i # 1 => Expiry(new, i - 1) <= Expiry(new, i)
    <2>0. \A m \in 1..n : other[l[m].seq] = left[l[m].seq]
      BY DEF n
    <2>1. CASE i < p
      <3>1. i \in 1..n /\ (i # 1 => i - 1 \in 1..n + 1 /\ i - 1 < p)
        <4>1. n \in Nat /\ p \in 1..n + 1
          BY <1>0, <1>1
        <4>. QED BY <2>1, <4>1
      <3>2. new[i].seq = l[i].seq /\ Expiry(new, i) = Expiry(l, i)
        BY <1>2, <2>1
      <3>3. i # 1 => Expiry(new, i - 1) = Expiry(l, i - 1)
        BY <1>2, <3>1
      <3>. QED BY <1>0, <2>0, <3>1, <3>2, <3>3
    <2>2. CASE i = p
      <3>1. new[i].seq = k /\ Expiry(new, i) = t
        BY <1>2, <2>2
      <3>2. i # 1 => Expiry(new, i - 1) = Expiry(l, i - 1)
        <4>1. i # 1 => i - 1 \in 1..n + 1 /\ i - 1 < p
          BY <1>0, <1>1, <2>2
        <4>. QED BY <1>2, <4>1
      <3>3. t - (t - s) = s
        BY Constants
      <3>. QED BY <1>1, <2>2, <3>1, <3>2, <3>3
    <2>3. CASE i > p
      <3>1. i - 1 \in 1..n /\ i - 1 >= p /\ ~ (i < p) /\ i # p /\ i - 1 \in 1..n + 1
        BY <1>0, <1>1, <2>3
      <3>2. new[i].seq = l[i - 1].seq /\ Expiry(new, i) = Expiry(l, i - 1)
        BY <1>2, <3>1
      <3>3. Expiry(l, i - 1) >= t
        BY <1>3, <3>1
      <3>4. Expiry(new, i - 1) <= Expiry(new, i)
        <4>1. CASE i - 1 = p
          BY <1>2, <3>1, <3>2, <3>3, <4>1
        <4>2. CASE i - 1 > p
          <5>1. ~ (i - 1 < p) /\ i - 1 # p /\ i - 1 # 1
            BY <1>1, <4>2
          <5>2. Expiry(new, i - 1) = Expiry(l, (i - 1) - 1)
            BY <1>2, <3>1, <5>1
          <5>. QED BY <1>0, <3>1, <3>2, <5>1, <5>2
        <4>. QED BY <1>1, <3>1, <4>1, <4>2
      <3>5. other[new[i].seq] - (Expiry(new, i) - s) \in 0..MaxSlow
        BY <1>0, <2>0, <3>1, <3>2
      <3>6. Expiry(new, i) > 0
        BY <1>0, <3>1, <3>2, <3>3
      <3>. QED BY <3>4, <3>5, <3>6
    <2>. QED BY <1>1, <2>1, <2>2, <2>3
  <1>. QED BY <1>2, <1>4, <1>5, KeptIf DEF new

LEMMA DeletedKept ==
    ASSUME NEW l, NEW left, NEW s \in 0..MaxSlow, Kept(l, left, s), NEW p \in 1..Len(l)
    PROVE  LET new == Deleted(l, l[p].seq) IN
             /\ Kept(new, left, s)
             /\ \A i \in 1..Len(new) : \E j \in 1..Len(l) : j # p /\ new[i].seq = l[j].seq
             /\ \A j \in 1..Len(l) : j # p => \E i \in 1..Len(new) : new[i].seq = l[j].seq
  <1>. DEFINE new == Deleted(l, l[p].seq)
              n == Len(l)
              at(i) == IF i < p THEN i ELSE i + 1
  <1>0. /\ l \in Lists /\ Distinct(l) /\ n \in Nat /\ n <= Cardinality(TimerSeqs)
        /\ p \in Nat /\ 1 <= p /\ p <= n
        /\ Expiry(l, 0) = 0
        /\ \A i \in 1..n :
             /\ Expiry(l, i) \in Int
             /\ left[l[i].seq] - (Expiry(l, i) - s) \in 0..MaxSlow
             /\ Expiry(l, i) > 0 \/ Expiry(l, i) >= -Slack(i)
             /\ i # 1 => Expiry(l, i - 1) <= Expiry(l, i)
             /\ \A j \in 1..n : l[i].seq = l[j].seq => i = j
    BY KeptBy
  <1>2. /\ new \in Lists /\ Len(new) = n - 1
        /\ \A i \in 1..n - 1 :
             /\ new[i].seq = l[at(i)].seq
             /\ Expiry(new, i) = Expiry(l, at(i))
    <2>1. /\ new \in Lists /\ Len(new) = n - 1
          /\ \A i \in 1..n - 1 :
               /\ new[i].seq = IF i < p THEN l[i].seq ELSE l[i + 1].seq
               /\ Expiry(new, i) = IF i < p THEN Expiry(l, i) ELSE Expiry(l, i + 1)
      BY <1>0, DeletedExpiries
    <2>. HIDE DEF new
    <2>. QED BY <2>1
  <1>. HIDE DEF new
  <1>3. /\ \A i \in 1..n - 1 : at(i) \in 1..n /\ at(i) # p
        /\ \A i, j \in 1..n - 1 : at(i) = at(j) => i = j
        /\ \A j \in 1..n : j # p => \E i \in 1..n - 1 : at(i) = j
    <2>1. ASSUME NEW j \in 1..n, j # p PROVE \E i \in 1..n - 1 : at(i) = j
      <3>1. CASE j < p
        <4>1. j \in 1..n - 1 /\ at(j) = j
          BY <1>0, <3>1
        <4>. QED BY <4>1
      <3>2. CASE j > p
        <4>1. j - 1 \in 1..n - 1 /\ at(j - 1) = j
          BY <1>0, <3>2
        <4>. QED BY <4>1
      <3>. QED BY <1>0, <2>1, <3>1, <3>2
    <2>. QED BY <1>0, <2>1
  <1>4. ASSUME NEW i \in 1..n - 1
        PROVE  /\ left[new[i].seq] - (Expiry(new, i) - s) \in 0..MaxSlow
               /\ Expiry(new, i) > 0 \/ Expiry(new, i) >= -Slack(i)
               /\ i # 1 => Expiry(new, i - 1) <= Expiry(new, i)
    <2>1. Slack(i) \in Nat /\ Slack(at(i)) \in Nat /\ Slack(at(i)) <= Slack(i)
      <3>1. /\ i \in 0..Cardinality(TimerSeqs) /\ i + 1 \in 0..Cardinality(TimerSeqs)
            /\ (i + 1) - 1 = i
        <4>1. n \in Nat /\ n <= Cardinality(TimerSeqs) /\ Cardinality(TimerSeqs) \in Nat
          BY <1>0, Constants
        <4>. QED BY <4>1
      <3>2. Slack(i) \in Nat /\ Slack(i + 1) \in Nat
        BY <3>1, SlackFacts
      <3>3. Slack(i) = Slack(i + 1) + MaxSlow
        BY <1>0, <3>1, SlackFacts
      <3>. QED BY <3>2, <3>3, Constants
    <2>2. i # 1 => Expiry(new, i - 1) <= Expiry(new, i)
      <3>1. SUFFICES ASSUME i # 1 PROVE Expiry(l, at(i - 1)) <= Expiry(l, at(i))
        <4>1. i # 1 => i - 1 \in 1..n - 1
          BY <1>0
        <4>. QED BY <1>2, <4>1
      <3>2. at(i - 1) \in 1..n /\ at(i) \in at(i - 1)..n
        <4>1. i - 1 \in 1..n - 1 /\ i \in 1..n - 1
          BY <1>0, <3>1
        <4>2. at(i - 1) \in 1..n /\ at(i) \in 1..n
          <5>. HIDE DEF at
          <5>. QED BY <1>3, <4>1
        <4>3. at(i - 1) <= at(i)
          <5>1. i \in Nat /\ p \in Nat
            BY <1>0, <4>1
          <5>. QED BY <5>1
        <4>. HIDE DEF at
        <4>. QED BY <4>2, <4>3
      <3>. HIDE DEF at
      <3>. QED BY <1>0, <3>2, LaterExpiresLater, KeptBy
    <2>3. /\ left[new[i].seq] - (Expiry(new, i) - s) \in 0..MaxSlow
          /\ Expiry(new, i) > 0 \/ Expiry(new, i) >= -Slack(at(i))
          /\ Expiry(new, i) \in Int
      <3>1. at(i) \in 1..n
        BY <1>3
      <3>. HIDE DEF at
      <3>. QED BY <1>0, <1>2, <3>1
    <2>. HIDE DEF at
    <2>. QED BY <2>1, <2>2, <2>3
  <1>5. \A i, j \in 1..n - 1 : new[i].seq = new[j].seq => i = j
    <2>. HIDE DEF at
    <2>1. ASSUME NEW i \in 1..n - 1, NEW j \in 1..n - 1, new[i].seq = new[j].seq
          PROVE  i = j
      <3>1. at(i) \in 1..n /\ at(j) \in 1..n /\ l[at(i)].seq = l[at(j)].seq
        BY <1>2, <1>3, <2>1
      <3>2. at(i) = at(j)
        BY <1>0, <3>1, Zenon
      <3>. QED BY <1>3, <3>2, Zenon
    <2>. QED BY <2>1
  <1>6. Kept(new, left, s)
    BY <1>2, <1>4, <1>5, KeptIf
  <1>. HIDE DEF at
  <1>7. \A i \in 1..Len(new) : \E j \in 1..Len(l) : j # p /\ new[i].seq = l[j].seq
    BY <1>2, <1>3, Zenon
  <1>8. \A j \in 1..Len(l) : j # p => \E i \in 1..Len(new) : new[i].seq = l[j].seq
    BY <1>2, <1>3, Zenon
  <1>. QED BY <1>6, <1>7, <1>8 DEF new
-----------------------------------------------------------------------------
(* updateNodes() takes the seconds since the last round from every expiry. *)
LEMMA PassedExpiries ==
    ASSUME NEW l \in Lists, since \in Nat
    PROVE  /\ Passed(l) \in Lists /\ Len(Passed(l)) = Len(l)
           /\ \A i \in 1..Len(l) : /\ Passed(l)[i].seq = l[i].seq
                                   /\ Expiry(Passed(l), i) = Expiry(l, i) - since
  <1>. DEFINE new == Passed(l)
              n == Len(l)
  <1>0. /\ n \in Nat /\ DOMAIN l = 1..n
        /\ \A i \in 1..n : l[i].timeDiff \in Int
        /\ \A i \in 0..n : Expiry(l, i) \in Int
        /\ \A i \in 1..n : Expiry(l, i) = Expiry(l, i - 1) + l[i].timeDiff
        /\ Expiry(l, 0) = 0
    BY ListFacts, ExpiryFacts
  <1>1. new = Shifted(l, 1, -since)
    <2>1. CASE l = <<>>
      <3>1. 1 \notin DOMAIN l
        BY <2>1
      <3>. QED BY <2>1, <3>1, Zenon DEF Passed, Shifted
    <2>2. CASE l # <<>>
      <3>1. n > 0
        BY <1>0, <2>2, EmptySeq DEF Lists
      <3>2. 1 \in DOMAIN l
        BY <1>0, <3>1
      <3>3. l[1].timeDiff - since = l[1].timeDiff + (-since)
        BY <1>0, <3>1
      <3>. QED BY <2>2, <3>2, <3>3 DEF Passed, Shifted
    <2>. QED BY <2>1, <2>2
  <1>2. /\ new \in Lists /\ Len(new) = n
        /\ \A i \in 1..n : /\ new[i].seq = l[i].seq
                           /\ new[i].timeDiff = l[i].timeDiff + IF i = 1 THEN -since ELSE 0
    <2>1. 1 \in Nat /\ -since \in Int
      OBVIOUS
    <2>. HIDE DEF new
    <2>. QED BY <1>1, <2>1, ShiftedFacts
  <1>. HIDE DEF new
  <1>. DEFINE d == [i \in 0..n |-> IF i = 0 THEN 0 ELSE Expiry(l, i) - since]
  <1>3. d[0] = 0
    BY <1>0
  <1>4. ASSUME NEW i \in 1..n PROVE d[i] = d[i - 1] + new[i].timeDiff
    <2>1. /\ new[i].timeDiff = l[i].timeDiff + IF i = 1 THEN -since ELSE 0
          /\ Expiry(l, i) = Expiry(l, i - 1) + l[i].timeDiff
          /\ Expiry(l, i - 1) \in Int /\ l[i].timeDiff \in Int
          /\ i - 1 \in 0..n
      BY <1>0, <1>2
    <2>2. /\ d[i] = Expiry(l, i) - since
          /\ d[i - 1] = IF i = 1 THEN 0 ELSE Expiry(l, i - 1) - since
      BY <1>0, <2>1
    <2>3. i = 1 => Expiry(l, i - 1) = 0
      BY <1>0
    <2>. HIDE DEF d
    <2>. QED BY <2>1, <2>2, <2>3
  <1>5. \A i \in 0..n : Expiry(new, i) = d[i]
    <2>. HIDE DEF d
    <2>. QED BY <1>2, <1>3, <1>4, ExpiryUnique
  <1>. QED BY <1>0, <1>2, <1>5 DEF new

LEMMA UpdatedKept ==
    ASSUME NEW l, NEW left, since \in 0..MaxSlow, Kept(l, left, since),
           \A k \in TimerSeqs : left[k] \in Int
    PROVE  Kept(Updated(l), left, 0)
  <1>. DEFINE mid == Passed(l)
              new == Updated(l)
              n == Len(l)
  <1>0. /\ l \in Lists /\ n \in Nat /\ n <= Cardinality(TimerSeqs) /\ Distinct(l)
        /\ since \in Nat /\ since <= MaxSlow /\ MaxSlow \in Nat /\ Cardinality(TimerSeqs) \in Nat
        /\ \A i \in 1..n :
             /\ Expiry(l, i) \in Int /\ l[i].seq \in TimerSeqs
             /\ left[l[i].seq] - (Expiry(l, i) - since) \in 0..MaxSlow
             /\ Expiry(l, i) > 0 \/ Expiry(l, i) >= -Slack(i)
             /\ i # 1 => Expiry(l, i - 1) <= Expiry(l, i)
             /\ \A j \in 1..n : l[i].seq = l[j].seq => i = j
    BY KeptBy, Constants
  <1>1. /\ mid \in Lists /\ Len(mid) = n
        /\ \A i \in 1..n : /\ mid[i].seq = l[i].seq
                           /\ Expiry(mid, i) = Expiry(l, i) - since
    BY <1>0, PassedExpiries
  <1>2. ASSUME NEW i \in 1..n
        PROVE  /\ left[l[i].seq] - (Expiry(mid, i) - 0) \in 0..MaxSlow
               /\ i # 1 => Expiry(mid, i - 1) <= Expiry(mid, i)
    <2>1. /\ left[l[i].seq] - (Expiry(l, i) - since) \in 0..MaxSlow
          /\ left[l[i].seq] \in Int /\ Expiry(l, i) \in Int
          /\ Expiry(mid, i) = Expiry(l, i) - since
      BY <1>0, <1>1
    <2>2. ASSUME i # 1 PROVE Expiry(mid, i - 1) <= Expiry(mid, i)
      <3>1. i - 1 \in 1..n
        BY <1>0, <2>2
      <3>2. /\ Expiry(l, i - 1) <= Expiry(l, i) /\ Expiry(l, i - 1) \in Int
            /\ Expiry(mid, i - 1) = Expiry(l, i - 1) - since
        BY <1>0, <1>1, <2>2, <3>1
      <3>. HIDE DEF mid
      <3>. QED BY <1>0, <2>1, <3>2
    <2>. HIDE DEF mid
    <2>. QED BY <1>0, <2>1, <2>2
  <1>3. l = <<>> <=> n = 0
    BY <1>0, EmptySeq DEF Lists
  <1>. HIDE DEF mid, new
  <1>4. CASE l = <<>>
    <2>1. new = l
      BY <1>4 DEF new, Updated, Passed
    <2>. QED BY <1>0, <1>3, <1>4, <2>1, KeptIf DEF new
  <1>5. CASE l # <<>> /\ ~ (mid[1].timeDiff <= 0)
    <2>1. new = mid
      BY <1>5 DEF new, Updated, mid
    <2>2. 1 \in 1..n /\ Expiry(mid, 1) > 0
      <3>1. 1 \in 1..n /\ 1 - 1 = 0
        BY <1>0, <1>3, <1>5
      <3>2. /\ Expiry(mid, 1) = Expiry(mid, 1 - 1) + mid[1].timeDiff
            /\ mid[1].timeDiff \in Int /\ Expiry(mid, 0) = 0
        BY <1>1, <3>1, ListFacts, ExpiryFacts
      <3>. QED BY <1>5, <3>1, <3>2
    <2>3. Ordered(mid)
      <3>1. \A i \in 2..n : i \in 1..n /\ i # 1
        BY <1>0
      <3>. QED BY <1>1, <1>2, <3>1, OrderedBy
    <2>4. ASSUME NEW i \in 1..n PROVE Expiry(mid, i) > 0
      <3>1. i \in 1..Len(mid) /\ 1 \in 1..Len(mid) /\ i \in 1..Len(mid)
        BY <1>1, <2>2
      <3>2. Expiry(mid, 1) <= Expiry(mid, i)
        BY <1>1, <2>3, <3>1, LaterExpiresLater
      <3>3. Expiry(mid, 1) \in Int /\ Expiry(mid, i) \in Int
        BY <1>0, <1>1, <2>2
      <3>. QED BY <2>2, <3>2, <3>3
    <2>5. \A i, j \in 1..n : mid[i].seq = mid[j].seq => i = j
      BY <1>0, <1>1
    <2>6. Kept(mid, left, 0)
      BY <1>1, <1>2, <2>4, <2>5, KeptIf
    <2>. QED BY <2>1, <2>6 DEF new
  <1>6. CASE l # <<>> /\ mid[1].timeDiff <= 0
    <2>1. 1 \in 1..n /\ mid[1].seq = l[1].seq
      BY <1>0, <1>1, <1>3, <1>6
    <2>2. new = Deleted(mid, mid[1].seq)
      BY <1>6, <2>1 DEF new, Updated, mid
    <2>3. Distinct(mid)
      BY <1>0, <1>1, ListFacts DEF Distinct
    <2>4. /\ new \in Lists /\ Len(new) = n - 1
          /\ \A i \in 1..n - 1 :
               /\ new[i].seq = IF i < 1 THEN mid[i].seq ELSE mid[i + 1].seq
               /\ Expiry(new, i) = IF i < 1 THEN Expiry(mid, i) ELSE Expiry(mid, i + 1)
      <3>1. 1 \in 1..Len(mid) /\ mid \in Lists
        BY <1>1, <2>1
      <3>2. /\ Deleted(mid, mid[1].seq) \in Lists /\ Len(Deleted(mid, mid[1].seq)) = Len(mid) - 1
            /\ \A i \in 1..Len(mid) - 1 :
                 /\ Deleted(mid, mid[1].seq)[i].seq = IF i < 1 THEN mid[i].seq ELSE mid[i + 1].seq
                 /\ Expiry(Deleted(mid, mid[1].seq), i) =
                      IF i < 1 THEN Expiry(mid, i) ELSE Expiry(mid, i + 1)
        BY <2>3, <3>1, DeletedExpiries
      <3>. QED BY <1>1, <2>2, <3>2, Zenon
    <2>5. ASSUME NEW i \in 1..n - 1
          PROVE  /\ i + 1 \in 1..n /\ (i + 1) - 1 = i
                 /\ new[i].seq = l[i + 1].seq
                 /\ Expiry(new, i) = Expiry(mid, i + 1)
      BY <1>0, <1>1, <2>4
    <2>6. ASSUME NEW i \in 1..n - 1
          PROVE  /\ left[new[i].seq] - (Expiry(new, i) - 0) \in 0..MaxSlow
                 /\ Expiry(new, i) > 0 \/ Expiry(new, i) >= -Slack(i)
                 /\ i # 1 => Expiry(new, i - 1) <= Expiry(new, i)
      <3>1. left[new[i].seq] - (Expiry(new, i) - 0) \in 0..MaxSlow
        BY <1>2, <2>5
      <3>2. Expiry(new, i) > 0 \/ Expiry(new, i) >= -Slack(i)
        <4>1. i + 1 \in 0..Cardinality(TimerSeqs) /\ i + 1 # 0
          BY <1>0, <2>5
        <4>2. Slack(i + 1) \in Nat /\ Slack(i) = Slack(i + 1) + MaxSlow
          BY <2>5, <4>1, SlackFacts
        <4>3. /\ Expiry(new, i) = Expiry(l, i + 1) - since /\ Expiry(l, i + 1) \in Int
              /\ Expiry(l, i + 1) > 0 \/ Expiry(l, i + 1) >= -Slack(i + 1)
          BY <1>0, <1>1, <2>5
        <4>. QED BY <1>0, <4>2, <4>3
      <3>3. ASSUME i # 1 PROVE Expiry(new, i - 1) <= Expiry(new, i)
        <4>1. i - 1 \in 1..n - 1 /\ (i - 1) + 1 = i /\ i + 1 # 1
          BY <1>0, <3>3
        <4>2. Expiry(new, i - 1) = Expiry(mid, i)
          BY <2>5, <4>1
        <4>. QED BY <1>2, <2>5, <4>1, <4>2
      <3>. QED BY <3>1, <3>2, <3>3
    <2>7. ASSUME NEW i \in 1..n - 1, NEW j \in 1..n - 1, new[i].seq = new[j].seq
          PROVE  i = j
      <3>1. i + 1 = j + 1
        <4>1. /\ i + 1 \in 1..n /\ j + 1 \in 1..n
              /\ l[i + 1].seq = l[j + 1].seq
          BY <2>5, <2>7, Zenon
        <4>. QED BY <1>0, <4>1, Zenon
      <3>. QED BY <3>1
    <2>. QED BY <2>4, <2>6, <2>7, KeptIf DEF new
  <1>. QED BY <1>4, <1>5, <1>6

-----------------------------------------------------------------------------
LEMMA RoundInv ==
    ASSUME NEW l, NEW left \in [TimerSeqs -> Int], since \in 0..MaxSlow,
           Kept(l, left, since), UpdateNodes(l, left),
           packs' \in Seq(RequestType), \A i \in 1..Len(packs') : Positive(packs'[i])
    PROVE  TurnerInv'
  <1>1. /\ list' = Updated(l) /\ since' = 0
        /\ clockLeft' = [k \in TimerSeqs |-> IF k \in Timed' THEN left[k] ELSE 0]
    BY DEF UpdateNodes
  <1>2. Kept(list', left, since')
    BY <1>1, UpdatedKept
  <1>3. \A i \in 1..Len(list') : list'[i].seq \in TimerSeqs /\ list'[i].seq \in Timed'
    BY <1>2, KeptBy DEF Timed
  <1>4. Kept(list', clockLeft', since')
    <2>1. \A i \in 1..Len(list') : clockLeft'[list'[i].seq] = left[list'[i].seq]
      BY <1>1, <1>3
    <2>. QED BY <1>2, <2>1, KeptAlike
  <1>5. since' \in 0..MaxSlow
    BY <1>1, Constants
  <1>6. clockLeft' \in [TimerSeqs -> Int]
    BY <1>1
  <1>7. \A k \in TimerSeqs \ Timed' : clockLeft'[k] = 0
    BY <1>1
  <1>. QED BY <1>4, <1>5, <1>6, <1>7, Zenon DEF TurnerInv, Kept, Lists, NodeType, Distinct, Ordered

LEMMA TurnerInitInv == ASSUME TurnerInit PROVE TurnerInv
  <1>1. packs = <<>> /\ list = <<>> /\ since = 0 /\ clockLeft = [k \in TimerSeqs |-> 0]
    BY DEF TurnerInit
  <1>2. <<>> \in Seq(RequestType) /\ <<>> \in Lists /\ Len(<<>>) = 0
    BY DEF Lists
  <1>3. Kept(list, clockLeft, since)
    BY <1>1, <1>2, KeptIf
  <1>. QED BY <1>1, <1>2, <1>3, Constants DEF TurnerInv

LEMMA DriverInv == ASSUME TurnerInv, Driver PROVE TurnerInv'
  <1>1. PICK r : packs' = Append(packs, r) /\ r \in RequestType /\ Positive(r)
    <2>1. ASSUME NEW k \in TimerSeqs, NEW t \in Seconds,
                 packs' = Append(packs, [start |-> TRUE, seq |-> k, time |-> t])
          PROVE  \E r : packs' = Append(packs, r) /\ r \in RequestType /\ Positive(r)
      <3>1. [start |-> TRUE, seq |-> k, time |-> t] \in RequestType
        BY Constants DEF RequestType
      <3>2. Positive([start |-> TRUE, seq |-> k, time |-> t])
        BY DEF Positive
      <3>. QED BY <2>1, <3>1, <3>2
    <2>2. ASSUME NEW k \in TimerSeqs,
                 packs' = Append(packs, [start |-> FALSE, seq |-> k, time |-> 0])
          PROVE  \E r : packs' = Append(packs, r) /\ r \in RequestType /\ Positive(r)
      <3>1. [start |-> FALSE, seq |-> k, time |-> 0] \in RequestType
        BY DEF RequestType
      <3>2. Positive([start |-> FALSE, seq |-> k, time |-> 0])
        BY DEF Positive
      <3>. QED BY <2>2, <3>1, <3>2
    <2>. QED BY <2>1, <2>2 DEF Driver
  <1>2. packs \in Seq(RequestType) /\ \A i \in 1..Len(packs) : Positive(packs[i])
    BY DEF TurnerInv
  <1>3. packs' \in Seq(RequestType)
    BY <1>1, <1>2
  <1>4. \A i \in 1..Len(packs') : Positive(packs'[i])
    <2>1. /\ Len(packs') = Len(packs) + 1 /\ Len(packs) \in Nat
          /\ \A i \in 1..Len(packs) + 1 : packs'[i] = IF i <= Len(packs) THEN packs[i] ELSE r
      BY <1>1, <1>2
    <2>2. ASSUME NEW i \in 1..Len(packs) + 1 PROVE Positive(packs'[i])
      <3>1. i <= Len(packs) => i \in 1..Len(packs)
        BY <2>1
      <3>2. packs'[i] = IF i <= Len(packs) THEN packs[i] ELSE r
        BY <2>1
      <3>. QED BY <1>1, <1>2, <3>1, <3>2, Zenon
    <2>. QED BY <2>1, <2>2
  <1>5. UNCHANGED <<list, since, clockLeft>>
    BY DEF Driver
  <1>6. Kept(list, clockLeft, since)'
    BY <1>5 DEF TurnerInv, Kept, Ordered, Distinct
  <1>. QED BY <1>3, <1>4, <1>5, <1>6 DEF TurnerInv, Timed

LEMMA NotOverdue ==
    ASSUME TurnerInv, NEW i \in 1..Len(list)
    PROVE  clockLeft[list[i].seq] >= -(MaxSlow * (Cardinality(TimerSeqs) - 1)) - since
  <1>1. /\ since \in 0..MaxSlow /\ clockLeft[list[i].seq] \in Int
        /\ Expiry(list, i) \in Int
        /\ clockLeft[list[i].seq] - (Expiry(list, i) - since) \in 0..MaxSlow
        /\ Expiry(list, i) > 0 \/ Expiry(list, i) >= -Slack(i)
        /\ i \in 1..Cardinality(TimerSeqs)
    <2>1. Kept(list, clockLeft, since) /\ since \in 0..MaxSlow /\ clockLeft \in [TimerSeqs -> Int]
      BY DEF TurnerInv
    <2>2. /\ Len(list) \in 0..Cardinality(TimerSeqs)
          /\ Expiry(list, i) \in Int /\ list[i].seq \in TimerSeqs
          /\ clockLeft[list[i].seq] - (Expiry(list, i) - since) \in 0..MaxSlow
          /\ Expiry(list, i) > 0 \/ Expiry(list, i) >= -Slack(i)
      BY <2>1, KeptBy
    <2>3. i \in 1..Cardinality(TimerSeqs)
      BY <2>2, Constants
    <2>. QED BY <2>1, <2>2, <2>3
  <1>. DEFINE Short == {j \in Nat : j + 1 \in 0..Cardinality(TimerSeqs) => Slack(j + 1) <= Slack(1)}
  <1>2. 0 \in Short
    BY SlackFacts
  <1>3. ASSUME NEW j \in Nat, j \in Short PROVE j + 1 \in Short
    <2>1. SUFFICES ASSUME (j + 1) + 1 \in 0..Cardinality(TimerSeqs)
                   PROVE  Slack((j + 1) + 1) <= Slack(1)
      OBVIOUS
    <2>2. j + 1 \in 0..Cardinality(TimerSeqs) /\ 1 \in 0..Cardinality(TimerSeqs)
          /\ ((j + 1) + 1) - 1 = j + 1 /\ (j + 1) + 1 # 0
      BY <2>1, Constants
    <2>3. Slack(j + 1) = Slack((j + 1) + 1) + MaxSlow
      BY <2>1, <2>2, SlackFacts
    <2>4. Slack((j + 1) + 1) \in Nat /\ Slack(1) \in Nat /\ Slack(j + 1) \in Nat
      BY <2>1, <2>2, SlackFacts
    <2>. QED BY <1>3, <2>2, <2>3, <2>4, Constants
  <1>4. Nat \subseteq Short
    <2>. HIDE DEF Short
    <2>. QED BY <1>2, <1>3, SetInduction
  <1>5. i - 1 \in Nat /\ (i - 1) + 1 = i /\ i \in 0..Cardinality(TimerSeqs)
        /\ 1 \in 0..Cardinality(TimerSeqs)
    BY <1>1, Constants
  <1>6. Slack(i) <= Slack(1) /\ Slack(i) \in Nat /\ Slack(1) \in Nat
    BY <1>4, <1>5, SlackFacts
  <1>7. clockLeft[list[i].seq] >= -Slack(1) - since
    <2>1. /\ clockLeft[list[i].seq] \in Int /\ Expiry(list, i) \in Int /\ since \in Int
          /\ Slack(i) \in Int /\ Slack(1) \in Int /\ 0 <= Slack(1)
          /\ clockLeft[list[i].seq] - (Expiry(list, i) - since) >= 0
      BY <1>1, <1>6, Constants
    <2>2. \A c, e, s, a, b \in Int :
             c - (e - s) >= 0 /\ (e > 0 \/ e >= -a) /\ a <= b /\ 0 <= b => c >= -b - s
      OBVIOUS
    <2>. QED BY <1>1, <1>6, <2>1, <2>2, Zenon
  <1>. QED BY <1>7 DEF Slack

LEMMA TimedIsClose ==
    ASSUME TurnerInv
    PROVE  /\ \A k \in TimerSeqs : clockLeft[k] >= -(MaxSlow * Cardinality(TimerSeqs))
           /\ since < MaxSlow => \A k \in Timed : ~Overdue(k) /\ clockLeft[k] - 1 \in Int
  <1>. DEFINE N == Cardinality(TimerSeqs)
              rest == MaxSlow * (N - 1)
  <1>1. /\ N \in Nat /\ MaxSlow \in Nat /\ since \in 0..MaxSlow
        /\ MaxSlow * N = rest + MaxSlow /\ MaxSlow * N \in Nat /\ rest \in Int
    <2>1. N \in Nat /\ MaxSlow \in Nat /\ since \in 0..MaxSlow
      BY Constants DEF TurnerInv
    <2>2. \A m, d \in Nat : m * d = m * (d - 1) + m /\ m * d \in Nat /\ m * (d - 1) \in Int
      OBVIOUS
    <2>. QED BY <2>1, <2>2
  <1>2. ASSUME NEW k \in TimerSeqs PROVE clockLeft[k] \in Int
    BY DEF TurnerInv
  <1>3. ASSUME NEW k \in Timed PROVE k \in TimerSeqs /\ clockLeft[k] >= -rest - since
    <2>1. PICK i \in 1..Len(list) : k = list[i].seq
      BY KeptBy DEF Timed, TurnerInv
    <2>. QED BY <2>1, NotOverdue, KeptBy DEF TurnerInv
  <1>. HIDE DEF rest
  <1>4. ASSUME NEW k \in TimerSeqs PROVE clockLeft[k] >= -(MaxSlow * N)
    <2>1. CASE k \in Timed
      BY <1>1, <1>2, <1>3, <2>1
    <2>2. CASE k \notin Timed
      <3>1. clockLeft[k] = 0
        BY <2>2 DEF TurnerInv
      <3>. QED BY <1>1, <3>1
    <2>. QED BY <2>1, <2>2
  <1>5. ASSUME NEW k \in Timed PROVE ~Overdue(k) /\ clockLeft[k] - 1 \in Int
    <2>1. k \in TimerSeqs /\ clockLeft[k] \in Int /\ clockLeft[k] >= -(MaxSlow * N)
      BY <1>2, <1>3, <1>4
    <2>. QED BY <1>1, <2>1 DEF Overdue
  <1>. QED BY <1>4, <1>5

LEMMA SecondInv == ASSUME TurnerInv, Second PROVE TurnerInv'
  <1>1. /\ since \in 0..MaxSlow /\ since < MaxSlow /\ since' = since + 1
        /\ UNCHANGED <<packs, list>> /\ clockLeft \in [TimerSeqs -> Int]
        /\ clockLeft' = [k \in TimerSeqs |->
                           clockLeft[k] - IF k \in Timed /\ ~Overdue(k) THEN 1 ELSE 0]
    BY DEF TurnerInv, Second
  <1>2. since' \in 0..MaxSlow
    BY <1>1, Constants
  <1>3. clockLeft' \in [TimerSeqs -> Int]
    BY <1>1
  <1>4. ASSUME NEW k \in Timed PROVE k \in TimerSeqs /\ clockLeft'[k] = clockLeft[k] - 1
    <2>1. k \in TimerSeqs
      BY KeptBy DEF TurnerInv, Timed
    <2>2. ~Overdue(k)
      BY <1>1, TimedIsClose
    <2>. QED BY <1>1, <2>1, <2>2
  <1>5. \A k \in TimerSeqs \ Timed' : clockLeft'[k] = 0
    <2>1. Timed' = Timed
      BY <1>1 DEF Timed
    <2>2. ASSUME NEW k \in TimerSeqs \ Timed PROVE clockLeft'[k] = 0
      <3>1. clockLeft[k] = 0
        BY DEF TurnerInv
      <3>. QED BY <1>1, <3>1
    <2>. QED BY <2>1, <2>2
  <1>6. Kept(list, clockLeft', since')
    <2>1. /\ list \in Lists /\ Distinct(list) /\ Ordered(list) /\ DOMAIN list = 1..Len(list)
          /\ \A i \in 1..Len(list) :
               /\ Expiry(list, i) \in Int /\ list[i].seq \in TimerSeqs
               /\ clockLeft[list[i].seq] - (Expiry(list, i) - since) \in 0..MaxSlow
               /\ Expiry(list, i) > 0 \/ Expiry(list, i) >= -Slack(i)
      BY KeptBy DEF TurnerInv
    <2>2. ASSUME NEW i \in 1..Len(list)
          PROVE  clockLeft'[list[i].seq] - (Expiry(list, i) - since') \in 0..MaxSlow
      <3>1. clockLeft'[list[i].seq] = clockLeft[list[i].seq] - 1
        BY <1>4, <2>1 DEF Timed
      <3>2. /\ clockLeft[list[i].seq] \in Int /\ Expiry(list, i) \in Int /\ since \in Int
            /\ clockLeft[list[i].seq] - (Expiry(list, i) - since) \in 0..MaxSlow
        BY <1>1, <2>1
      <3>. QED BY <1>1, <3>1, <3>2
    <2>. QED BY <2>1, <2>2 DEF Kept
  <1>7. Kept(list, clockLeft, since)'
    BY <1>1, <1>6 DEF Kept, Ordered, Distinct
  <1>8. packs' \in Seq(RequestType) /\ \A i \in 1..Len(packs') : Positive(packs'[i])
    BY <1>1 DEF TurnerInv
  <1>. QED BY <1>2, <1>3, <1>5, <1>7, <1>8, Zenon DEF TurnerInv

LEMMA LoopInv == ASSUME TurnerInv, Loop PROVE TurnerInv'
  <1>1. /\ packs \in Seq(RequestType) /\ \A i \in 1..Len(packs) : Positive(packs[i])
        /\ since \in 0..MaxSlow /\ clockLeft \in [TimerSeqs -> Int]
        /\ Kept(list, clockLeft, since)
    BY DEF TurnerInv
  <1>2. CASE TimedOut
    <2>1. UpdateNodes(list, clockLeft) /\ packs' = packs
      BY <1>2 DEF TimedOut
    <2>. QED BY <1>1, <2>1, RoundInv
  <1>3. ASSUME packs # <<>>, packs' = Tail(packs)
        PROVE  /\ Head(packs) \in RequestType /\ Positive(Head(packs))
               /\ packs' \in Seq(RequestType) /\ \A i \in 1..Len(packs') : Positive(packs'[i])
    <2>1. /\ Head(packs) = packs[1] /\ 1 \in 1..Len(packs) /\ packs[1] \in RequestType
          /\ Tail(packs) \in Seq(RequestType) /\ Len(Tail(packs)) = Len(packs) - 1
          /\ \A i \in 1..Len(packs) - 1 : Tail(packs)[i] = packs[i + 1] /\ i + 1 \in 1..Len(packs)
      BY <1>1, <1>3
    <2>. QED BY <1>1, <1>3, <2>1
  <1>4. ASSUME CrashNow, packs # <<>>, packs' = Tail(packs) PROVE TurnerInv'
    <2>1. UNCHANGED <<list, since, clockLeft>>
      BY <1>4 DEF CrashNow
    <2>2. Kept(list, clockLeft, since)'
      BY <1>1, <2>1 DEF Kept, Ordered, Distinct
    <2>. QED BY <1>3, <1>4, <2>1, <2>2 DEF TurnerInv, Timed
  <1>5. ASSUME UpdateNodes(list, clockLeft), packs # <<>>, packs' = Tail(packs) PROVE TurnerInv'
    BY <1>1, <1>3, <1>5, RoundInv
  <1>6. CASE StartTimer
    <2>. DEFINE k == Head(packs).seq
                t == Head(packs).time
    <2>1. packs # <<>> /\ packs' = Tail(packs) /\ Head(packs).start = TRUE
      BY <1>6 DEF StartTimer, Request
    <2>2. k \in TimerSeqs /\ t \in Seconds /\ t \in Nat \ {0}
      BY <1>3, <2>1, Constants DEF RequestType, Positive
    <2>3. ASSUME k \notin Timed, UpdateNodes(Added(list, k, t), [clockLeft EXCEPT ![k] = t])
          PROVE  TurnerInv'
      <3>. DEFINE left == [clockLeft EXCEPT ![k] = t]
      <3>1. \A i \in 1..Len(list) : list[i].seq # k /\ list[i].seq \in TimerSeqs
        BY <1>1, <2>3, KeptBy DEF Timed
      <3>2. left \in [TimerSeqs -> Int] /\ left[k] = t
        BY <1>1, <2>2
      <3>3. \A i \in 1..Len(list) : left[list[i].seq] = clockLeft[list[i].seq]
        BY <1>1, <3>1
      <3>. HIDE DEF left, k, t
      <3>4. Kept(Added(list, k, t), left, since)
        BY <1>1, <2>2, <3>1, <3>2, <3>3, AddedKept
      <3>5. UpdateNodes(Added(list, k, t), left)
        BY <2>3 DEF left
      <3>. QED BY <1>1, <1>3, <2>1, <3>2, <3>4, <3>5, RoundInv
    <2>4. \/ k \in Timed /\ UpdateNodes(list, clockLeft)
          \/ CrashNow
          \/ k \notin Timed /\ UpdateNodes(Added(list, k, t), [clockLeft EXCEPT ![k] = t])
      BY <1>6 DEF StartTimer
    <2>. QED BY <1>4, <1>5, <2>1, <2>3, <2>4
  <1>7. CASE EndTimer
    <2>. DEFINE k == Head(packs).seq
    <2>1. packs # <<>> /\ packs' = Tail(packs)
      BY <1>7 DEF EndTimer, Request
    <2>2. ASSUME k \in Timed, UpdateNodes(Deleted(list, k), clockLeft)
          PROVE  TurnerInv'
      <3>1. PICK p \in 1..Len(list) : k = list[p].seq
        BY <1>1, <2>2, KeptBy DEF Timed
      <3>2. Kept(Deleted(list, list[p].seq), clockLeft, since)
        BY <1>1, DeletedKept
      <3>3. UpdateNodes(Deleted(list, list[p].seq), clockLeft)
        BY <2>2, <3>1
      <3>. QED BY <1>1, <1>3, <2>1, <3>2, <3>3, RoundInv
    <2>3. \/ CrashNow
          \/ k \in Timed /\ UpdateNodes(Deleted(list, k), clockLeft)
          \/ UpdateNodes(list, clockLeft)
      BY <1>7 DEF EndTimer
    <2>. QED BY <1>4, <1>5, <2>1, <2>2, <2>3
  <1>. QED BY <1>2, <1>6, <1>7 DEF Loop

LEMMA TurnerStep == TurnerInv /\ [TurnerNext]_turnerVars => TurnerInv'
  <1>. SUFFICES ASSUME TurnerInv, [TurnerNext]_turnerVars PROVE TurnerInv'
    OBVIOUS
  <1>1. CASE UNCHANGED turnerVars
    <2>1. UNCHANGED <<packs, list, since, clockLeft>>
      BY <1>1 DEF turnerVars
    <2>2. Kept(list, clockLeft, since)'
      BY <2>1 DEF TurnerInv, Kept, Ordered, Distinct
    <2>. QED BY <2>1, <2>2 DEF TurnerInv, Timed
  <1>. QED BY <1>1, DriverInv, SecondInv, LoopInv DEF TurnerNext

(***************************************************************************)
(* The list keeps the times of its nodes, in order, for any number of      *)
(* timers: by the list each ends at its own time, or earlier by less than  *)
(* the time since the last round.                                          *)
(***************************************************************************)
THEOREM TimesAreKept == TurnerSpec => []TimesKept
  <1>1. TurnerInit => TurnerInv
    BY TurnerInitInv
  <1>2. TurnerInv => TimesKept
    <2>1. SUFFICES ASSUME TurnerInv PROVE TimesKept
      OBVIOUS
    <2>2. Kept(list, clockLeft, since)
      BY <2>1 DEF TurnerInv
    <2>3. /\ Ordered(list) /\ DOMAIN list = 1..Len(list)
          /\ \A i \in 1..Len(list) :
               clockLeft[list[i].seq] - (Expiry(list, i) - since) \in 0..MaxSlow
      BY <2>2, KeptBy
    <2>. QED BY <2>3 DEF TimesKept, Ordered
  <1>. QED BY <1>1, <1>2, TurnerStep, PTL DEF TurnerSpec

(***************************************************************************)
(* Although a round drops one node, however many are due, no timer waits   *)
(* after its time for more rounds than there are timers.                   *)
(***************************************************************************)
THEOREM NoneIsForgotten == TurnerSpec => []NeverOverdue
  <1>1. TurnerInit => TurnerInv
    BY TurnerInitInv
  <1>2. TurnerInv => NeverOverdue
    <2>1. ASSUME TurnerInv, NEW k \in TimerSeqs PROVE ~Overdue(k)
      <3>1. /\ clockLeft[k] >= -(MaxSlow * Cardinality(TimerSeqs)) /\ clockLeft[k] \in Int
            /\ MaxSlow * Cardinality(TimerSeqs) \in Int
        BY <2>1, TimedIsClose, Constants DEF TurnerInv
      <3>. QED BY <3>1 DEF Overdue
    <2>. QED BY <2>1 DEF NeverOverdue
  <1>. QED BY <1>1, <1>2, TurnerStep, PTL DEF TurnerSpec
=============================================================================
