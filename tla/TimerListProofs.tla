--------------------------- MODULE TimerListProofs ---------------------------
(***************************************************************************)
(* The delta list of the timer process: its deltas add up, no timer is     *)
(* reported early or later than select() may oversleep, and it implements  *)
(* the service tcpd takes it for.                                          *)
(***************************************************************************)
EXTENDS TimerList, Recursion

NodeType == [key : Keys, remain : Nat]
Lists == Seq(NodeType)

LEMMA ListFacts ==
    ASSUME NEW list \in Lists
    PROVE  /\ Len(list) \in Nat /\ DOMAIN list = 1..Len(list)
           /\ \A i \in 1..Len(list) :
                /\ list[i] \in NodeType
                /\ list[i].key \in Keys /\ list[i].remain \in Nat
                /\ list[i] = Node(list[i].key, list[i].remain)
           /\ list = [i \in 1..Len(list) |-> list[i]]
  <1>1. /\ Len(list) \in Nat /\ DOMAIN list = 1..Len(list)
        /\ \A i \in 1..Len(list) : list[i] \in NodeType
        /\ list = [i \in 1..Len(list) |-> list[i]]
    BY DEF Lists
  <1>2. \A n \in NodeType : /\ n.key \in Keys /\ n.remain \in Nat
                           /\ n = Node(n.key, n.remain)
    BY DEF NodeType, Node
  <1>. QED BY <1>1, <1>2

-----------------------------------------------------------------------------
(* What Delay sums up: its recursive function, and that it is the only one *)
(* with these values.                                                      *)
Sums(d, list) ==
    d = [j \in 0..Len(list) |-> IF j = 0 THEN 0 ELSE d[j - 1] + list[j].remain]

LEMMA SumsExist ==
    ASSUME NEW list \in Lists
    PROVE  \E d : Sums(d, list)
  <1>. DEFINE upTo(d, m) == d = [j \in 0..m |-> IF j = 0 THEN 0 ELSE d[j - 1] + list[j].remain]
              Good == {m \in Nat : \E d : upTo(d, m)}
  <1>1. 0 \in Good
    <2>1. upTo([j \in 0..0 |-> 0], 0)
      OBVIOUS
    <2>. QED BY <2>1
  <1>2. ASSUME NEW m \in Nat, m \in Good PROVE m + 1 \in Good
    <2>1. PICK d : upTo(d, m)
      BY <1>2
    <2>. DEFINE h == [j \in 0..m + 1 |-> IF j <= m THEN d[j] ELSE d[m] + list[j].remain]
    <2>2. ASSUME NEW j \in 0..m + 1
          PROVE  h[j] = IF j = 0 THEN 0 ELSE h[j - 1] + list[j].remain
      <3>1. CASE j <= m
        <4>1. j \in 0..m
          BY <3>1
        <4>2. [i \in 0..m |-> IF i = 0 THEN 0 ELSE d[i - 1] + list[i].remain][j]
              = IF j = 0 THEN 0 ELSE d[j - 1] + list[j].remain
          BY <4>1
        <4>3. d[j] = IF j = 0 THEN 0 ELSE d[j - 1] + list[j].remain
          BY <2>1, <4>2, Zenon
        <4>4. j # 0 => h[j - 1] = d[j - 1]
          BY <3>1
        <4>. QED BY <3>1, <4>3, <4>4
      <3>2. CASE j = m + 1
        BY <3>2
      <3>. QED BY <3>1, <3>2
    <2>3. upTo(h, m + 1)
      <3>. HIDE DEF h
      <3>1. h = [j \in 0..m + 1 |-> h[j]]
        BY DEF h
      <3>. QED BY <2>2, <3>1
    <2>. HIDE DEF h, upTo
    <2>. QED BY <2>3
  <1>. HIDE DEF Good
  <1>3. Len(list) \in Good
    BY <1>1, <1>2, SetInduction, ListFacts
  <1>. QED BY <1>3 DEF Good, Sums

LEMMA DelayBy ==
    ASSUME NEW list \in Lists
    PROVE  \E d : Sums(d, list) /\ \A i : Delay(list, i) = d[i]
  <1>1. \E d : Sums(d, list)
    BY SumsExist
  <1>. QED BY <1>1, Zenon DEF Delay, Sums

LEMMA DelayFacts ==
    ASSUME NEW list \in Lists
    PROVE  /\ Delay(list, 0) = 0
           /\ \A j \in 1..Len(list) :
                Delay(list, j) = Delay(list, j - 1) + list[j].remain
           /\ \A j \in 0..Len(list) : Delay(list, j) \in Nat
  <1>0. Len(list) \in Nat /\ \A i \in 1..Len(list) : list[i].remain \in Nat
    BY ListFacts
  <1>1. PICK d : Sums(d, list) /\ \A i : Delay(list, i) = d[i]
    BY DelayBy
  <1>2. ASSUME NEW j \in 0..Len(list)
        PROVE  Delay(list, j) = IF j = 0 THEN 0 ELSE Delay(list, j - 1) + list[j].remain
    <2>1. [i \in 0..Len(list) |-> IF i = 0 THEN 0 ELSE d[i - 1] + list[i].remain][j]
            = IF j = 0 THEN 0 ELSE d[j - 1] + list[j].remain
      OBVIOUS
    <2>2. d[j] = IF j = 0 THEN 0 ELSE d[j - 1] + list[j].remain
      BY <1>1, <2>1, Zenon DEF Sums
    <2>. QED BY <1>1, <2>2
  <1>. DEFINE Good == {j \in Nat : j <= Len(list) => Delay(list, j) \in Nat}
  <1>3. 0 \in Good
    BY <1>0, <1>2
  <1>4. ASSUME NEW j \in Nat, j \in Good PROVE j + 1 \in Good
    <2>1. SUFFICES ASSUME j + 1 <= Len(list) PROVE Delay(list, j + 1) \in Nat
      OBVIOUS
    <2>2. /\ j + 1 \in 0..Len(list) /\ j + 1 \in 1..Len(list) /\ j + 1 # 0
          /\ j <= Len(list) /\ (j + 1) - 1 = j
      BY <1>0, <2>1
    <2>3. Delay(list, j + 1) = Delay(list, j) + list[j + 1].remain
      BY <1>2, <2>2, Zenon
    <2>. QED BY <1>0, <1>4, <2>2, <2>3
  <1>5. Nat \subseteq Good
    <2>. HIDE DEF Good
    <2>. QED BY <1>3, <1>4, SetInduction
  <1>. QED BY <1>0, <1>2, <1>5

(* The deltas determine the delays. *)
LEMMA DelayUnique ==
    ASSUME NEW list \in Lists, NEW d, d[0] = 0,
           \A j \in 1..Len(list) : d[j] = d[j - 1] + list[j].remain
    PROVE  \A j \in 0..Len(list) : Delay(list, j) = d[j]
  <1>0. Len(list) \in Nat
    BY ListFacts
  <1>. DEFINE Good == {j \in Nat : j <= Len(list) => Delay(list, j) = d[j]}
  <1>1. 0 \in Good
    BY DelayFacts
  <1>2. ASSUME NEW j \in Nat, j \in Good PROVE j + 1 \in Good
    <2>1. SUFFICES ASSUME j + 1 <= Len(list) PROVE Delay(list, j + 1) = d[j + 1]
      OBVIOUS
    <2>2. j + 1 \in 1..Len(list) /\ j <= Len(list) /\ (j + 1) - 1 = j
      BY <1>0, <2>1
    <2>3. /\ Delay(list, j + 1) = Delay(list, j) + list[j + 1].remain
          /\ d[j + 1] = d[j] + list[j + 1].remain
      BY <2>2, DelayFacts, Zenon
    <2>. QED BY <1>2, <2>2, <2>3
  <1>3. Nat \subseteq Good
    <2>. HIDE DEF Good
    <2>. QED BY <1>1, <1>2, SetInduction
  <1>. QED BY <1>0, <1>3

LEMMA DelayMonotone ==
    ASSUME NEW list \in Lists, NEW i \in 0..Len(list), NEW j \in i..Len(list)
    PROVE  Delay(list, i) <= Delay(list, j)
  <1>0. Len(list) \in Nat /\ \A k \in 1..Len(list) : list[k].remain \in Nat
    BY ListFacts
  <1>. DEFINE Good == {n \in Nat : i + n <= Len(list) => Delay(list, i) <= Delay(list, i + n)}
  <1>1. 0 \in Good
    BY DelayFacts
  <1>2. ASSUME NEW n \in Nat, n \in Good PROVE n + 1 \in Good
    <2>1. SUFFICES ASSUME i + (n + 1) <= Len(list)
                   PROVE  Delay(list, i) <= Delay(list, i + (n + 1))
      OBVIOUS
    <2>2. /\ i + (n + 1) \in 1..Len(list) /\ i + n <= Len(list) /\ i + n \in 0..Len(list)
          /\ (i + (n + 1)) - 1 = i + n
      BY <1>0, <2>1
    <2>3. Delay(list, i + (n + 1)) = Delay(list, i + n) + list[i + (n + 1)].remain
      BY <2>2, DelayFacts, Zenon
    <2>4. Delay(list, i) \in Nat /\ Delay(list, i + n) \in Nat
      BY <2>2, DelayFacts
    <2>. QED BY <1>0, <1>2, <2>2, <2>3, <2>4
  <1>3. Nat \subseteq Good
    <2>. HIDE DEF Good
    <2>. QED BY <1>1, <1>2, SetInduction
  <1>4. j - i \in Nat /\ i + (j - i) = j /\ j <= Len(list)
    BY <1>0
  <1>. QED BY <1>3, <1>4

-----------------------------------------------------------------------------
(* The operations on the list, and what they do to the delays.             *)
(* UpdateTimerList takes e seconds from every delay.                       *)
Less(n, e) == IF n > e THEN n - e ELSE 0

LeftOver(list, e) ==
    [i \in DOMAIN list |->
        list[i].remain - IF Delay(list, i - 1) < e THEN e - Delay(list, i - 1) ELSE 0]

LEMMA ElapsedIs ==
    ASSUME NEW list \in Lists, NEW e \in Nat
    PROVE  Elapsed(list, e) =
             [i \in DOMAIN list |->
                 Node(list[i].key, IF LeftOver(list, e)[i] > 0 THEN LeftOver(list, e)[i] ELSE 0)]
  <1>. DEFINE Recurs(f) ==
                f = [i \in DOMAIN list |->
                        list[i].remain - IF i = 1 THEN e ELSE Carry(f[i - 1])]
              g == LeftOver(list, e)
              n == Len(list)
  <1>0. /\ n \in Nat /\ DOMAIN list = 1..n
        /\ \A i \in 1..n : list[i].remain \in Nat
        /\ \A i \in 0..n : Delay(list, i) \in Nat
    BY ListFacts, DelayFacts
  <1>1. ASSUME NEW i \in 1..n
        PROVE  g[i] = list[i].remain - IF i = 1 THEN e ELSE Carry(g[i - 1])
    <2>1. g[i] = list[i].remain - IF Delay(list, i - 1) < e THEN e - Delay(list, i - 1) ELSE 0
      BY <1>0 DEF LeftOver
    <2>2. CASE i = 1
      <3>1. Delay(list, i - 1) = 0
        BY <2>2, DelayFacts
      <3>. QED BY <2>1, <2>2, <3>1
    <2>3. CASE i # 1
      <3>1. i - 1 \in 1..n /\ (i - 1) - 1 \in 0..n /\ i - 1 \in 0..n
        BY <1>0, <2>3
      <3>2. g[i - 1] = list[i - 1].remain - IF Delay(list, (i - 1) - 1) < e
                                            THEN e - Delay(list, (i - 1) - 1) ELSE 0
        BY <1>0, <3>1 DEF LeftOver
      <3>3. Delay(list, i - 1) = Delay(list, (i - 1) - 1) + list[i - 1].remain
        BY <3>1, DelayFacts, Zenon
      <3>4. Carry(g[i - 1]) = IF Delay(list, i - 1) < e THEN e - Delay(list, i - 1) ELSE 0
        <4>1. \A d, r \in Nat :
                Carry(r - IF d < e THEN e - d ELSE 0) = IF d + r < e THEN e - (d + r) ELSE 0
          BY DEF Carry
        <4>2. Delay(list, (i - 1) - 1) \in Nat /\ list[i - 1].remain \in Nat
          BY <1>0, <3>1
        <4>. HIDE DEF g
        <4>. QED BY <3>2, <3>3, <4>1, <4>2, ZenonT(40)
      <3>. QED BY <2>1, <2>3, <3>4
    <2>. QED BY <2>2, <2>3
  <1>2. Recurs(g)
    <2>1. g = [i \in DOMAIN list |-> g[i]]
      BY DEF LeftOver
    <2>. HIDE DEF g
    <2>. QED BY <1>0, <1>1, <2>1
  <1>3. PICK f : /\ Recurs(f)
                 /\ Elapsed(list, e) =
                      [i \in DOMAIN list |-> Node(list[i].key, IF f[i] > 0 THEN f[i] ELSE 0)]
    BY <1>2, Zenon DEF Elapsed
  <1>4. ASSUME NEW i \in 1..n
        PROVE  f[i] = list[i].remain - IF i = 1 THEN e ELSE Carry(f[i - 1])
    <2>1. [j \in DOMAIN list |->
              list[j].remain - IF j = 1 THEN e ELSE Carry(f[j - 1])][i]
            = list[i].remain - IF i = 1 THEN e ELSE Carry(f[i - 1])
      BY <1>0
    <2>. QED BY <1>3, <2>1, Zenon
  <1>. HIDE DEF g
  <1>. DEFINE Good == {i \in Nat : i \in 1..n => f[i] = g[i]}
  <1>5. 0 \in Good
    OBVIOUS
  <1>6. ASSUME NEW i \in Nat, i \in Good PROVE i + 1 \in Good
    <2>1. SUFFICES ASSUME i + 1 \in 1..n PROVE f[i + 1] = g[i + 1]
      OBVIOUS
    <2>2. /\ f[i + 1] = list[i + 1].remain - IF i + 1 = 1 THEN e ELSE Carry(f[(i + 1) - 1])
          /\ g[i + 1] = list[i + 1].remain - IF i + 1 = 1 THEN e ELSE Carry(g[(i + 1) - 1])
      BY <1>1, <1>4, <2>1
    <2>3. i + 1 # 1 => f[(i + 1) - 1] = g[(i + 1) - 1]
      <3>1. (i + 1) - 1 = i /\ (i + 1 # 1 => i \in 1..n)
        BY <1>0, <2>1
      <3>. QED BY <1>6, <3>1
    <2>. QED BY <2>2, <2>3, Zenon
  <1>7. \A i \in 1..n : f[i] = g[i]
    <2>1. Nat \subseteq Good
      <3>. HIDE DEF Good
      <3>. QED BY <1>5, <1>6, SetInduction
    <2>. QED BY <1>0, <2>1
  <1>. QED BY <1>0, <1>3, <1>7 DEF g

LEMMA ElapsedDelays ==
    ASSUME NEW list \in Lists, NEW e \in Nat
    PROVE  /\ Elapsed(list, e) \in Lists /\ Len(Elapsed(list, e)) = Len(list)
           /\ \A i \in 1..Len(list) : Elapsed(list, e)[i].key = list[i].key
           /\ \A i \in 0..Len(list) : Delay(Elapsed(list, e), i) = Less(Delay(list, i), e)
  <1>. DEFINE new == Elapsed(list, e)
              n == Len(list)
              left == LeftOver(list, e)
              rest(i) == IF left[i] > 0 THEN left[i] ELSE 0
  <1>0. /\ n \in Nat /\ DOMAIN list = 1..n
        /\ \A i \in 1..n : list[i].remain \in Nat /\ list[i].key \in Keys
        /\ \A i \in 0..n : Delay(list, i) \in Nat
    BY ListFacts, DelayFacts
  <1>1. ASSUME NEW i \in 1..n
        PROVE  /\ left[i] = list[i].remain - IF Delay(list, i - 1) < e
                                             THEN e - Delay(list, i - 1) ELSE 0
               /\ rest(i) \in Nat
               /\ Less(Delay(list, i), e) = Less(Delay(list, i - 1), e) + rest(i)
    <2>1. left[i] = list[i].remain - IF Delay(list, i - 1) < e
                                     THEN e - Delay(list, i - 1) ELSE 0
      BY <1>0 DEF LeftOver
    <2>2. /\ Delay(list, i - 1) \in Nat /\ list[i].remain \in Nat
          /\ Delay(list, i) = Delay(list, i - 1) + list[i].remain
      BY <1>0, DelayFacts
    <2>3. \A d, r \in Nat :
            LET l == r - IF d < e THEN e - d ELSE 0
                k == IF l > 0 THEN l ELSE 0 IN
              k \in Nat /\ Less(d + r, e) = Less(d, e) + k
      BY DEF Less
    <2>. HIDE DEF left
    <2>. QED BY <2>1, <2>2, <2>3
  <1>. HIDE DEF left
  <1>2. new = [i \in 1..n |-> Node(list[i].key, rest(i))]
    BY <1>0, ElapsedIs DEF left
  <1>3. \A i \in 1..n : Node(list[i].key, rest(i)) \in NodeType
    BY <1>0, <1>1 DEF Node, NodeType
  <1>4. new \in Lists /\ Len(new) = n
    <2>. HIDE DEF new, rest, n
    <2>. QED BY <1>0, <1>2, <1>3 DEF Lists
  <1>5. \A i \in 1..n : new[i].key = list[i].key /\ new[i].remain = rest(i)
    <2>. HIDE DEF new, rest
    <2>. QED BY <1>2 DEF Node
  <1>. DEFINE d == [i \in 0..n |-> Less(Delay(list, i), e)]
  <1>6. d[0] = 0
    BY <1>0, DelayFacts DEF Less
  <1>7. \A i \in 1..n : d[i] = d[i - 1] + new[i].remain
    <2>. HIDE DEF new, rest
    <2>. QED BY <1>0, <1>1, <1>5
  <1>8. \A i \in 0..n : Delay(new, i) = d[i]
    <2>. HIDE DEF d, new
    <2>. QED BY <1>4, <1>6, <1>7, DelayUnique
  <1>. QED BY <1>4, <1>5, <1>8

LEMMA PositionFacts ==
    ASSUME NEW list \in Lists, NEW s \in Nat
    PROVE  LET p == Position(list, s) IN
             /\ p \in 1..Len(list) + 1
             /\ p <= Len(list) => s < Delay(list, p)
             /\ Delay(list, p - 1) <= s
  <1>. DEFINE n == Len(list)
              Later == {p \in 1..n + 1 : p <= n => s < Delay(list, p)}
  <1>0. n \in Nat /\ \A i \in 0..n : Delay(list, i) \in Nat
    BY ListFacts, DelayFacts
  <1>1. n + 1 \in Later /\ Later \subseteq Nat
    BY <1>0
  <1>2. PICK m \in Later : \A t \in Later : m <= t
    <2>1. PICK m \in Later : \A t \in Later : ~ (<<t, m>> \in OpToRel(<, Nat))
      <3>. HIDE DEF Later
      <3>. QED BY <1>1, NatLessThanWellFounded, WFMin
    <2>2. \A t \in Later : ~ (t < m)
      BY <1>1, <2>1, Zenon DEF OpToRel
    <2>. QED BY <1>1, <2>2
  <1>3. \A q \in 1..m - 1 : Delay(list, q) <= s
    BY <1>0, <1>2
  <1>4. /\ Position(list, s) \in 1..n + 1
        /\ Position(list, s) <= n => s < Delay(list, Position(list, s))
        /\ \A q \in 1..Position(list, s) - 1 : Delay(list, q) <= s
    <2>1. m \in 1..n + 1 /\ (m <= n => s < Delay(list, m))
      BY <1>2
    <2>. QED BY <1>3, <2>1, Zenon DEF Position
  <1>5. Delay(list, Position(list, s) - 1) <= s
    <2>1. CASE Position(list, s) = 1
      BY <2>1, DelayFacts
    <2>2. CASE Position(list, s) # 1
      BY <1>0, <1>4, <2>2
    <2>. QED BY <2>1, <2>2
  <1>. QED BY <1>4, <1>5

LEMMA ShiftedFacts ==
    ASSUME NEW list \in Lists, NEW p \in 1..Len(list) + 1, NEW d \in Int,
           p <= Len(list) => list[p].remain + d \in Nat
    PROVE  /\ Shifted(list, p, d) \in Lists
           /\ Len(Shifted(list, p, d)) = Len(list)
           /\ \A i \in 1..Len(list) :
                /\ Shifted(list, p, d)[i].key = list[i].key
                /\ Shifted(list, p, d)[i].remain = list[i].remain + IF i = p THEN d ELSE 0
  <1>. DEFINE n == Len(list)
  <1>0. /\ n \in Nat /\ DOMAIN list = 1..n
        /\ \A i \in 1..n : /\ list[i] \in NodeType /\ list[i].remain \in Nat
                           /\ list[i].key \in Keys
                           /\ list[i] = Node(list[i].key, list[i].remain)
    BY ListFacts
  <1>1. CASE p = n + 1
    <2>1. Shifted(list, p, d) = list
      BY <1>0, <1>1 DEF Shifted
    <2>. QED BY <1>0, <1>1, <2>1
  <1>2. CASE p <= n
    <2>. DEFINE new == Node(list[p].key, list[p].remain + d)
    <2>1. p \in 1..n
      BY <1>0, <1>2
    <2>2. [list[p] EXCEPT !.remain = @ + d] = new
      <3>1. list[p] = [key |-> list[p].key, remain |-> list[p].remain]
        BY <1>0, <2>1 DEF Node
      <3>. QED BY <3>1 DEF Node
    <2>3. Shifted(list, p, d) = [list EXCEPT ![p] = new]
      BY <1>0, <2>1, <2>2 DEF Shifted
    <2>4. new \in NodeType /\ new.key = list[p].key /\ new.remain = list[p].remain + d
      BY <1>0, <1>2, <2>1 DEF Node, NodeType
    <2>. HIDE DEF new
    <2>5. /\ [list EXCEPT ![p] = new] \in Lists
          /\ Len([list EXCEPT ![p] = new]) = n
          /\ \A i \in 1..n : [list EXCEPT ![p] = new][i] = IF i = p THEN new ELSE list[i]
      BY <1>0, <2>1, <2>4, ExceptSeq DEF Lists
    <2>. QED BY <1>0, <2>3, <2>4, <2>5
  <1>. QED BY <1>0, <1>1, <1>2

(* InsertRequest puts a node in and moves no other.                        *)
LEMMA InsertedDelays ==
    ASSUME NEW list \in Lists, NEW k \in Keys, NEW s \in Nat
    PROVE  LET new == Inserted(list, k, s) IN
             /\ new \in Lists /\ Len(new) = Len(list) + 1
             /\ \E p \in 1..Len(list) + 1 : \A i \in 1..Len(list) + 1 :
                  /\ new[i].key = IF i < p THEN list[i].key
                                  ELSE IF i = p THEN k ELSE list[i - 1].key
                  /\ Delay(new, i) = IF i < p THEN Delay(list, i)
                                     ELSE IF i = p THEN s ELSE Delay(list, i - 1)
  <1>. DEFINE new == Inserted(list, k, s)
              n == Len(list)
              p == Position(list, s)
              r == s - Delay(list, p - 1)
              mid == Shifted(list, p, -r)
  <1>0. /\ n \in Nat
        /\ \A i \in 1..n : list[i].remain \in Nat /\ list[i].key \in Keys
        /\ \A i \in 0..n : Delay(list, i) \in Nat
        /\ \A i \in 1..n : Delay(list, i) = Delay(list, i - 1) + list[i].remain
        /\ Delay(list, 0) = 0
    BY ListFacts, DelayFacts
  <1>1. /\ p \in 1..n + 1 /\ p - 1 \in 0..n
        /\ p <= n => s < Delay(list, p)
        /\ Delay(list, p - 1) <= s
    <2>1. p \in 1..n + 1 /\ (p <= n => s < Delay(list, p)) /\ Delay(list, p - 1) <= s
      BY PositionFacts
    <2>. HIDE DEF p
    <2>. QED BY <1>0, <2>1
  <1>. HIDE DEF p
  <1>2. r \in Nat /\ -r \in Int
    BY <1>0, <1>1
  <1>3. p <= n => list[p].remain - r \in Nat
    BY <1>0, <1>1
  <1>4. /\ mid \in Lists /\ Len(mid) = n
        /\ \A i \in 1..n : /\ mid[i].key = list[i].key
                           /\ mid[i].remain = list[i].remain + IF i = p THEN -r ELSE 0
    <2>1. p <= n => list[p].remain + (-r) \in Nat
      BY <1>0, <1>1, <1>2, <1>3
    <2>. HIDE DEF r
    <2>. QED BY <1>1, <1>2, <2>1, ShiftedFacts
  <1>5. Node(k, r) \in NodeType /\ Node(k, r).key = k /\ Node(k, r).remain = r
    BY <1>2 DEF Node, NodeType
  <1>6. new = InsertAt(mid, p, Node(k, r))
    BY DEF Inserted, p
  <1>. HIDE DEF mid, new
  <1>7. /\ new \in Lists /\ Len(new) = n + 1
        /\ \A i \in 1..n + 1 :
             new[i] = IF i < p THEN mid[i] ELSE IF i = p THEN Node(k, r) ELSE mid[i - 1]
    <2>. HIDE DEF r
    <2>1. mid \in Seq(NodeType) /\ p \in 1..Len(mid) + 1
      BY <1>1, <1>4 DEF Lists
    <2>2. /\ InsertAt(mid, p, Node(k, r)) \in Seq(NodeType)
          /\ Len(InsertAt(mid, p, Node(k, r))) = Len(mid) + 1
          /\ \A i \in 1..Len(mid) + 1 :
                InsertAt(mid, p, Node(k, r))[i] =
                  IF i < p THEN mid[i] ELSE IF i = p THEN Node(k, r) ELSE mid[i - 1]
      BY <1>5, <2>1, InsertAtFacts
    <2>. QED BY <1>4, <1>6, <2>2, Zenon DEF Lists
  <1>8. \A i \in 1..n + 1 :
          /\ new[i].key = IF i < p THEN list[i].key ELSE IF i = p THEN k ELSE list[i - 1].key
          /\ new[i].remain = IF i < p THEN list[i].remain
                             ELSE IF i = p THEN r
                             ELSE list[i - 1].remain + IF i = p + 1 THEN -r ELSE 0
    <2>1. ASSUME NEW i \in 1..n + 1
          PROVE  /\ new[i].key = IF i < p THEN list[i].key
                                 ELSE IF i = p THEN k ELSE list[i - 1].key
                 /\ new[i].remain = IF i < p THEN list[i].remain
                                    ELSE IF i = p THEN r
                                    ELSE list[i - 1].remain + IF i = p + 1 THEN -r ELSE 0
      <3>. HIDE DEF r
      <3>1. CASE i < p
        <4>1. i \in 1..n /\ i # p
          BY <1>0, <1>1, <3>1
        <4>. QED BY <1>0, <1>4, <1>7, <3>1, <4>1
      <3>2. CASE i = p
        BY <1>5, <1>7, <3>2
      <3>3. CASE i > p
        <4>1. i - 1 \in 1..n /\ (i - 1 = p <=> i = p + 1) /\ i # p /\ ~ (i < p)
          BY <1>0, <1>1, <3>3, SMTT(30)
        <4>. QED BY <1>4, <1>7, <4>1
      <3>. QED BY <1>1, <3>1, <3>2, <3>3
    <2>. QED BY <2>1
  <1>. DEFINE d == [i \in 0..n + 1 |-> IF i < p THEN Delay(list, i)
                                       ELSE IF i = p THEN s ELSE Delay(list, i - 1)]
  <1>9. d[0] = 0
    BY <1>0, <1>1
  <1>10. ASSUME NEW i \in 1..n + 1 PROVE d[i] = d[i - 1] + new[i].remain
    <2>1. CASE i < p
      <3>1. i \in 1..n /\ i - 1 < p /\ i - 1 \in 0..n + 1
        BY <1>0, <1>1, <2>1
      <3>2. new[i].remain = list[i].remain
        BY <1>8, <2>1
      <3>. QED BY <1>0, <2>1, <3>1, <3>2
    <2>2. CASE i = p
      <3>1. i - 1 < p /\ i - 1 \in 0..n + 1 /\ d[i - 1] = Delay(list, p - 1)
        BY <1>0, <1>1, <2>2
      <3>2. new[i].remain = r
        <4>. HIDE DEF r
        <4>. QED BY <1>8, <2>2
      <3>. QED BY <1>0, <1>1, <2>2, <3>1, <3>2
    <2>3. CASE i = p + 1
      <3>1. d[i - 1] = s /\ d[i] = Delay(list, p) /\ p \in 1..n
        BY <1>0, <1>1, <2>3
      <3>2. new[i].remain = list[p].remain + (-r)
        <4>1. i - 1 = p /\ ~ (i < p) /\ i # p
          BY <1>1, <2>3
        <4>. HIDE DEF r
        <4>. QED BY <1>8, <2>3, <4>1
      <3>3. Delay(list, p) = Delay(list, p - 1) + list[p].remain
        BY <1>0, <3>1
      <3>4. Delay(list, p - 1) \in Nat /\ list[p].remain \in Nat /\ s \in Nat
        BY <1>0, <1>1, <3>1
      <3>. HIDE DEF d
      <3>. QED BY <3>1, <3>2, <3>3, <3>4
    <2>4. CASE i > p + 1
      <3>1. /\ i - 1 \in 1..n /\ i - 1 > p /\ i > p
            /\ d[i] = Delay(list, i - 1) /\ d[i - 1] = Delay(list, (i - 1) - 1)
        BY <1>0, <1>1, <2>4
      <3>2. new[i].remain = list[i - 1].remain
        <4>1. ~ (i < p) /\ i # p /\ i # p + 1 /\ list[i - 1].remain \in Nat
          BY <1>0, <1>1, <2>4, <3>1
        <4>. HIDE DEF r, d
        <4>. QED BY <1>8, <4>1
      <3>. QED BY <1>0, <3>1, <3>2
    <2>. QED BY <1>1, <2>1, <2>2, <2>3, <2>4
  <1>11. \A i \in 0..n + 1 : Delay(new, i) = d[i]
    <2>. HIDE DEF d, n
    <2>. QED BY <1>7, <1>9, <1>10, DelayUnique
  <1>12. \A i \in 1..n + 1 :
           /\ new[i].key = IF i < p THEN list[i].key
                           ELSE IF i = p THEN k ELSE list[i - 1].key
           /\ Delay(new, i) = IF i < p THEN Delay(list, i)
                              ELSE IF i = p THEN s ELSE Delay(list, i - 1)
    <2>. HIDE DEF r
    <2>. QED BY <1>0, <1>8, <1>11
  <1>. QED BY <1>1, <1>7, <1>12 DEF new

(* CancelRequest takes a node out and moves no other.                      *)
LEMMA CancelledDelays ==
    ASSUME NEW list \in Lists, NEW p \in 1..Len(list)
    PROVE  LET new == Cancelled(list, p) IN
             /\ new \in Lists /\ Len(new) = Len(list) - 1
             /\ \A i \in 1..Len(list) - 1 :
                  /\ new[i].key = IF i < p THEN list[i].key ELSE list[i + 1].key
                  /\ Delay(new, i) = IF i < p THEN Delay(list, i) ELSE Delay(list, i + 1)
  <1>. DEFINE new == Cancelled(list, p)
              n == Len(list)
              mid == Shifted(list, p + 1, list[p].remain)
  <1>0. /\ n \in Nat /\ p \in Nat
        /\ \A i \in 1..n : list[i].remain \in Nat /\ list[i].key \in Keys
        /\ \A i \in 0..n : Delay(list, i) \in Nat
        /\ \A i \in 1..n : Delay(list, i) = Delay(list, i - 1) + list[i].remain
        /\ Delay(list, 0) = 0
    BY ListFacts, DelayFacts
  <1>1. /\ mid \in Lists /\ Len(mid) = n
        /\ \A i \in 1..n :
             /\ mid[i].key = list[i].key
             /\ mid[i].remain = list[i].remain + IF i = p + 1 THEN list[p].remain ELSE 0
    <2>1. /\ p + 1 \in 1..n + 1 /\ list[p].remain \in Int
          /\ p + 1 <= n => list[p + 1].remain + list[p].remain \in Nat
      BY <1>0, SMTT(30)
    <2>. QED BY <2>1, ShiftedFacts
  <1>2. new = RemoveAt(mid, p)
    BY DEF Cancelled
  <1>. HIDE DEF mid, new
  <1>3. /\ new \in Lists /\ Len(new) = n - 1
        /\ \A i \in 1..n - 1 : new[i] = IF i < p THEN mid[i] ELSE mid[i + 1]
    <2>1. mid \in Seq(NodeType) /\ p \in 1..Len(mid)
      BY <1>1 DEF Lists
    <2>2. /\ RemoveAt(mid, p) \in Seq(NodeType)
          /\ Len(RemoveAt(mid, p)) = Len(mid) - 1
          /\ \A i \in 1..Len(mid) - 1 :
                RemoveAt(mid, p)[i] = IF i < p THEN mid[i] ELSE mid[i + 1]
      BY <2>1, RemoveAtFacts
    <2>. QED BY <1>1, <1>2, <2>2, Zenon DEF Lists
  <1>4. ASSUME NEW i \in 1..n - 1
        PROVE  /\ new[i].key = IF i < p THEN list[i].key ELSE list[i + 1].key
               /\ new[i].remain = IF i < p THEN list[i].remain
                                  ELSE list[i + 1].remain + IF i = p THEN list[p].remain ELSE 0
    <2>1. CASE i < p
      <3>1. i \in 1..n /\ i # p + 1
        BY <1>0, <2>1
      <3>2. /\ new[i] = mid[i] /\ mid[i].key = list[i].key
            /\ mid[i].remain = list[i].remain + 0 /\ list[i].remain \in Nat
        BY <1>0, <1>1, <1>3, <2>1, <3>1, Zenon
      <3>. QED BY <2>1, <3>2
    <2>2. CASE ~ (i < p)
      <3>1. i + 1 \in 1..n /\ (i + 1 = p + 1 <=> i = p)
        BY <1>0, <2>2
      <3>. QED BY <1>1, <1>3, <2>2, <3>1
    <2>. QED BY <2>1, <2>2
  <1>. DEFINE d == [i \in 0..n - 1 |-> IF i < p THEN Delay(list, i) ELSE Delay(list, i + 1)]
  <1>5. d[0] = 0
    BY <1>0
  <1>6. ASSUME NEW i \in 1..n - 1 PROVE d[i] = d[i - 1] + new[i].remain
    <2>1. CASE i < p
      <3>1. i \in 1..n /\ i - 1 < p /\ i - 1 \in 0..n - 1
        BY <1>0, <2>1
      <3>2. d[i] = Delay(list, i) /\ d[i - 1] = Delay(list, i - 1)
        BY <2>1, <3>1
      <3>3. new[i].remain = list[i].remain
        BY <1>4, <2>1
      <3>. HIDE DEF d
      <3>. QED BY <1>0, <3>1, <3>2, <3>3
    <2>2. CASE i = p
      <3>1. /\ d[i] = Delay(list, p + 1) /\ d[i - 1] = Delay(list, p - 1)
            /\ p + 1 \in 1..n /\ (p + 1) - 1 = p /\ p - 1 \in 0..n
        BY <1>0, <2>2
      <3>2. new[i].remain = list[p + 1].remain + list[p].remain
        BY <1>4, <2>2
      <3>3. Delay(list, p + 1) = Delay(list, p) + list[p + 1].remain
        BY <1>0, <3>1
      <3>4. Delay(list, p) = Delay(list, p - 1) + list[p].remain
        BY <1>0
      <3>5. /\ Delay(list, p - 1) \in Nat /\ list[p].remain \in Nat
            /\ list[p + 1].remain \in Nat
        BY <1>0, <3>1
      <3>. HIDE DEF d
      <3>. QED BY <3>1, <3>2, <3>3, <3>4, <3>5, SMTT(30)
    <2>3. CASE i > p
      <3>1. /\ d[i] = Delay(list, i + 1) /\ d[i - 1] = Delay(list, i)
            /\ i + 1 \in 1..n /\ (i + 1) - 1 = i /\ i \in 0..n
        BY <1>0, <2>3
      <3>2. new[i].remain = list[i + 1].remain
        BY <1>0, <1>4, <2>3, <3>1
      <3>. QED BY <1>0, <3>1, <3>2
    <2>. QED BY <1>0, <2>1, <2>2, <2>3
  <1>7. \A i \in 0..n - 1 : Delay(new, i) = d[i]
    <2>. HIDE DEF d
    <2>. QED BY <1>3, <1>5, <1>6, DelayUnique
  <1>. QED BY <1>0, <1>3, <1>4, <1>7 DEF new

(* SendCallbacks takes a first node out that has no seconds left.          *)
LEMMA TailDelays ==
    ASSUME NEW list \in Lists, list # <<>>, Head(list).remain = 0
    PROVE  /\ Tail(list) \in Lists /\ Len(Tail(list)) = Len(list) - 1
           /\ Head(list) = list[1] /\ Len(list) >= 1
           /\ \A i \in 1..Len(list) - 1 :
                /\ Tail(list)[i] = list[i + 1]
                /\ Delay(Tail(list), i) = Delay(list, i + 1)
  <1>. DEFINE n == Len(list)
              new == Tail(list)
  <1>0. /\ n \in Nat
        /\ \A i \in 1..n : list[i].remain \in Nat /\ list[i].key \in Keys
        /\ \A i \in 0..n : Delay(list, i) \in Nat
        /\ \A i \in 1..n : Delay(list, i) = Delay(list, i - 1) + list[i].remain
        /\ Delay(list, 0) = 0
    BY ListFacts, DelayFacts
  <1>1. /\ new \in Lists /\ Len(new) = n - 1 /\ Head(list) = list[1] /\ n >= 1
        /\ \A i \in 1..n - 1 : new[i] = list[i + 1]
    BY DEF Lists
  <1>. HIDE DEF new
  <1>. DEFINE d == [i \in 0..n - 1 |-> Delay(list, i + 1)]
  <1>2. d[0] = 0
    <2>1. Delay(list, 1) = Delay(list, 0) + list[1].remain
      BY <1>0, <1>1
    <2>2. d[0] = Delay(list, 1)
      BY <1>0, <1>1
    <2>. QED BY <1>0, <1>1, <2>1, <2>2
  <1>3. ASSUME NEW i \in 1..n - 1 PROVE d[i] = d[i - 1] + new[i].remain
    <2>1. i + 1 \in 1..n /\ (i + 1) - 1 = i /\ (i - 1) + 1 = i /\ i - 1 \in 0..n - 1
      BY <1>0
    <2>2. Delay(list, i + 1) = Delay(list, i) + list[i + 1].remain
      BY <1>0, <2>1
    <2>. QED BY <1>1, <2>1, <2>2
  <1>4. \A i \in 0..n - 1 : Delay(new, i) = d[i]
    <2>. HIDE DEF d
    <2>. QED BY <1>1, <1>2, <1>3, DelayUnique
  <1>. QED BY <1>0, <1>1, <1>4 DEF new

-----------------------------------------------------------------------------
(***************************************************************************)
(* The strengthening: when select() is called no node is due, so that it   *)
(* returns at most MaxLate seconds after the first; a request is fetched   *)
(* only when there is one.                                                 *)
(***************************************************************************)
FetchesOne == phase = "fetch" => requests # <<>>

NoneDue == phase = "select" /\ nodes # <<>> => Head(nodes).remain > 0

NotOverdue == \A k \in Listed : due[k] >= -MaxLate

ListInv == TypeOK /\ FetchesOne /\ NoneDue /\ DelaysExact /\ NotOverdue

Positive(n) == IF n > 0 THEN n ELSE 0

(* The invariant of the list, one node at a time.                          *)
LEMMA ListInvNodes ==
    ASSUME ListInv
    PROVE  /\ nodes \in Lists /\ Len(nodes) \in Nat /\ DOMAIN nodes = 1..Len(nodes)
           /\ due \in [Keys -> Int] /\ MaxLate \in Nat
           /\ \A i \in 1..Len(nodes) :
                /\ nodes[i].key \in Keys /\ nodes[i].key \in Listed
                /\ Delay(nodes, i) = Positive(due[nodes[i].key])
                /\ due[nodes[i].key] >= -MaxLate
                /\ \A j \in 1..Len(nodes) : j # i => nodes[j].key # nodes[i].key
  <1>1. nodes \in Lists /\ due \in [Keys -> Int]
    BY DEF ListInv, TypeOK, Lists, NodeType
  <1>2. /\ Len(nodes) \in Nat /\ DOMAIN nodes = 1..Len(nodes)
        /\ \A i \in 1..Len(nodes) : nodes[i].key \in Keys /\ nodes[i].key \in Listed
    BY <1>1, ListFacts DEF Listed
  <1>3. \A i \in 1..Len(nodes) : Delay(nodes, i) = Positive(due[nodes[i].key])
    BY <1>2 DEF ListInv, DelaysExact, Positive
  <1>4. \A i \in 1..Len(nodes) : due[nodes[i].key] >= -MaxLate
    BY <1>2 DEF ListInv, NotOverdue
  <1>5. ASSUME NEW i \in 1..Len(nodes), NEW j \in 1..Len(nodes), j # i
        PROVE  nodes[j].key # nodes[i].key
    <2>1. CASE j < i
      <3>1. j \in 1..i - 1
        BY <1>2, <2>1
      <3>. QED BY <1>2, <3>1 DEF ListInv, DelaysExact
    <2>2. CASE i < j
      <3>1. i \in 1..j - 1
        BY <1>2, <2>2
      <3>. QED BY <1>2, <3>1 DEF ListInv, DelaysExact
    <2>. QED BY <1>2, <1>5, <2>1, <2>2
  <1>. QED BY <1>1, <1>2, <1>3, <1>4, <1>5, TimerListAssumption DEF TimerListAssumption

LEMMA ListInvNew ==
    ASSUME nodes' \in Lists, due' \in [Keys -> Int],
           \A i \in 1..Len(nodes') :
             /\ Delay(nodes', i) = Positive(due'[nodes'[i].key])
             /\ due'[nodes'[i].key] >= -MaxLate
             /\ \A j \in 1..Len(nodes') : j # i => nodes'[j].key # nodes'[i].key
    PROVE  DelaysExact' /\ NotOverdue'
  <1>1. DOMAIN nodes' = 1..Len(nodes') /\ Len(nodes') \in Nat
    BY ListFacts
  <1>2. ASSUME NEW i \in 1..Len(nodes'), NEW j \in 1..i - 1
        PROVE  nodes'[j].key # nodes'[i].key
    <2>1. j \in 1..Len(nodes') /\ j # i
      BY <1>1
    <2>. QED BY <2>1
  <1>. QED BY <1>1, <1>2 DEF DelaysExact, NotOverdue, Listed, Positive

LEMMA ListInvInit == Init => ListInv
  <1>. SUFFICES ASSUME Init PROVE ListInv
    OBVIOUS
  <1>1. nodes = <<>> /\ Listed = {} /\ DOMAIN nodes = {}
    BY DEF Init, Listed
  <1>2. TypeOK
    BY DEF Init, TypeOK
  <1>. QED BY <1>1, <1>2 DEF Init, ListInv, FetchesOne, NoneDue, DelaysExact, NotOverdue

(* Time passes: every delay becomes as much shorter as the clock went on.  *)
LEMMA WakeUpNodes ==
    ASSUME ListInv, NEW e \in Nat, WakeUp(e)
    PROVE  /\ nodes' \in Lists /\ Len(nodes') = Len(nodes)
           /\ \A i \in 1..Len(nodes) : nodes'[i].key = nodes[i].key
           /\ Listed' = Listed
           /\ due' \in [Keys -> Int]
           /\ DelaysExact' /\ NotOverdue'
  <1>. DEFINE n == Len(nodes)
  <1>0. /\ nodes \in Lists /\ n \in Nat /\ DOMAIN nodes = 1..n
        /\ due \in [Keys -> Int] /\ MaxLate \in Nat
        /\ \A i \in 1..n :
             /\ nodes[i].key \in Keys /\ nodes[i].key \in Listed
             /\ Delay(nodes, i) = Positive(due[nodes[i].key])
             /\ due[nodes[i].key] >= -MaxLate
             /\ \A j \in 1..n : j # i => nodes[j].key # nodes[i].key
    BY ListInvNodes
  <1>1. /\ nodes' \in Lists /\ Len(nodes') = n
        /\ \A i \in 1..n : nodes'[i].key = nodes[i].key
        /\ \A i \in 0..n : Delay(nodes', i) = Less(Delay(nodes, i), e)
    BY <1>0, ElapsedDelays DEF WakeUp
  <1>2. DOMAIN nodes' = 1..n
    BY <1>1, ListFacts
  <1>3. Listed' = Listed
    BY <1>0, <1>1, <1>2 DEF Listed
  <1>4. due' = [k \in Keys |-> due[k] - IF k \in Listed /\ ~Overdue(k) THEN e ELSE 0]
    BY DEF WakeUp
  <1>5. due' \in [Keys -> Int]
    BY <1>0, <1>4
  <1>6. ASSUME NEW i \in 1..n
        PROVE  /\ due'[nodes[i].key] = due[nodes[i].key] - e
               /\ due[nodes[i].key] \in Int
    BY <1>0, <1>4 DEF Overdue
  <1>7. ASSUME NEW i \in 1..n PROVE due'[nodes[i].key] >= -MaxLate
    <2>1. nodes # <<>> /\ Head(nodes) = nodes[1] /\ 1 \in 1..n
      BY <1>0 DEF Lists
    <2>2. Head(nodes).remain > 0 /\ e <= Head(nodes).remain + MaxLate
      BY <2>1 DEF WakeUp, ListInv, NoneDue
    <2>3. Delay(nodes, 1) = nodes[1].remain /\ nodes[1].remain \in Nat
      <3>1. nodes[1].remain \in Nat /\ 1 - 1 = 0
        BY <1>0, <2>1, ListFacts
      <3>2. Delay(nodes, 0) = 0 /\ Delay(nodes, 1) = Delay(nodes, 0) + nodes[1].remain
        BY <1>0, <2>1, <3>1, DelayFacts
      <3>. QED BY <3>1, <3>2
    <2>4. Delay(nodes, 1) <= Delay(nodes, i)
      <3>1. 1 \in 0..n /\ i \in 1..n
        BY <1>0
      <3>. QED BY <1>0, <3>1, DelayMonotone
    <2>5. Delay(nodes, i) = Positive(due[nodes[i].key])
      BY <1>0
    <2>. QED BY <1>0, <1>6, <2>1, <2>2, <2>3, <2>4, <2>5 DEF Positive
  <1>8. ASSUME NEW i \in 1..n PROVE Delay(nodes', i) = Positive(due'[nodes[i].key])
    <2>1. Delay(nodes', i) = Less(Delay(nodes, i), e)
      BY <1>1
    <2>2. Delay(nodes, i) = Positive(due[nodes[i].key])
      BY <1>0
    <2>3. \A d \in Int : Less(Positive(d), e) = Positive(d - e)
      BY DEF Less, Positive
    <2>. QED BY <1>6, <2>1, <2>2, <2>3
  <1>9. DelaysExact' /\ NotOverdue'
    BY <1>0, <1>1, <1>5, <1>7, <1>8, ListInvNew
  <1>. QED BY <1>1, <1>3, <1>5, <1>9

(* A node is put in. *)
LEMMA InsertNodes ==
    ASSUME ListInv, NEW k \in Keys, NEW s \in Nat, k \notin Listed,
           nodes' = Inserted(nodes, k, s), due' = [due EXCEPT ![k] = s]
    PROVE  /\ nodes' \in Lists /\ Listed' = Listed \cup {k}
           /\ due' \in [Keys -> Int]
           /\ DelaysExact' /\ NotOverdue'
  <1>. DEFINE n == Len(nodes)
  <1>0. /\ nodes \in Lists /\ n \in Nat /\ DOMAIN nodes = 1..n
        /\ due \in [Keys -> Int] /\ MaxLate \in Nat
        /\ \A i \in 1..n :
             /\ nodes[i].key \in Keys /\ nodes[i].key \in Listed
             /\ Delay(nodes, i) = Positive(due[nodes[i].key])
             /\ due[nodes[i].key] >= -MaxLate
             /\ \A j \in 1..n : j # i => nodes[j].key # nodes[i].key
    BY ListInvNodes
  <1>1. PICK p \in 1..n + 1 : \A i \in 1..n + 1 :
          /\ nodes'[i].key = IF i < p THEN nodes[i].key
                             ELSE IF i = p THEN k ELSE nodes[i - 1].key
          /\ Delay(nodes', i) = IF i < p THEN Delay(nodes, i)
                                ELSE IF i = p THEN s ELSE Delay(nodes, i - 1)
    <2>1. \E p \in 1..n + 1 : \A i \in 1..n + 1 :
            /\ Inserted(nodes, k, s)[i].key =
                 IF i < p THEN nodes[i].key ELSE IF i = p THEN k ELSE nodes[i - 1].key
            /\ Delay(Inserted(nodes, k, s), i) =
                 IF i < p THEN Delay(nodes, i) ELSE IF i = p THEN s ELSE Delay(nodes, i - 1)
      BY <1>0, InsertedDelays, Zenon
    <2>. QED BY <2>1, Zenon
  <1>2. nodes' \in Lists /\ Len(nodes') = n + 1 /\ DOMAIN nodes' = 1..n + 1
    <2>1. nodes' \in Lists /\ Len(nodes') = n + 1
      BY <1>0, InsertedDelays
    <2>. QED BY <2>1, ListFacts
  <1>. DEFINE from(i) == IF i < p THEN i ELSE i - 1
  <1>3. ASSUME NEW i \in 1..n + 1, i # p
        PROVE  /\ from(i) \in 1..n
               /\ nodes'[i].key = nodes[from(i)].key
               /\ Delay(nodes', i) = Delay(nodes, from(i))
               /\ \A j \in 1..n + 1 : j # i /\ j # p => from(j) # from(i)
    BY <1>0, <1>1, <1>3
  <1>4. nodes'[p].key = k /\ Delay(nodes', p) = s
    BY <1>0, <1>1
  <1>. HIDE DEF from
  <1>5. /\ due' \in [Keys -> Int] /\ due'[k] = s
        /\ \A i \in 1..n : nodes[i].key # k /\ due'[nodes[i].key] = due[nodes[i].key]
    BY <1>0
  <1>6. Listed' = Listed \cup {k}
    <2>1. ASSUME NEW i \in 1..n PROVE \E j \in 1..n + 1 : nodes'[j].key = nodes[i].key
      <3>1. CASE i < p
        BY <1>0, <1>1, <3>1
      <3>2. CASE i >= p
        <4>1. i + 1 \in 1..n + 1 /\ ~ (i + 1 < p) /\ i + 1 # p /\ (i + 1) - 1 = i
          BY <1>0, <3>2
        <4>. QED BY <1>1, <4>1
      <3>. QED BY <1>0, <3>1, <3>2
    <2>2. \A i \in 1..n + 1 : nodes'[i].key \in Listed \cup {k}
      BY <1>0, <1>3, <1>4
    <2>3. p \in 1..n + 1
      OBVIOUS
    <2>4. Listed' \subseteq Listed \cup {k}
      <3>. HIDE DEF n
      <3>. QED BY <1>2, <2>2 DEF Listed
    <2>5. ASSUME NEW x \in Listed PROVE x \in Listed'
      <3>1. PICK i \in 1..n : x = nodes[i].key
        BY <1>0, Zenon DEF Listed
      <3>2. PICK j \in 1..n + 1 : nodes'[j].key = nodes[i].key
        BY <2>1, Zenon
      <3>. QED BY <1>2, <3>1, <3>2, Zenon DEF Listed
    <2>6. k \in Listed'
      BY <1>2, <1>4, <2>3, Zenon DEF Listed
    <2>. QED BY <2>4, <2>5, <2>6
  <1>7. ASSUME NEW i \in 1..n + 1
        PROVE  /\ Delay(nodes', i) = Positive(due'[nodes'[i].key])
               /\ due'[nodes'[i].key] >= -MaxLate
               /\ \A j \in 1..n + 1 : j # i => nodes'[j].key # nodes'[i].key
    <2>1. CASE i = p
      <3>1. Positive(s) = s /\ s >= -MaxLate
        BY <1>0 DEF Positive
      <3>. QED BY <1>3, <1>4, <1>5, <2>1, <3>1
    <2>2. CASE i # p
      <3>1. /\ Delay(nodes', i) = Positive(due'[nodes'[i].key])
            /\ due'[nodes'[i].key] >= -MaxLate
        BY <1>0, <1>3, <1>5, <2>2
      <3>2. ASSUME NEW j \in 1..n + 1, j # i PROVE nodes'[j].key # nodes'[i].key
        <4>1. from(i) \in 1..n /\ nodes'[i].key = nodes[from(i)].key
          BY <1>3, <2>2
        <4>2. CASE j = p
          BY <1>4, <1>5, <4>1, <4>2
        <4>3. CASE j # p
          <5>1. /\ from(j) \in 1..n /\ nodes'[j].key = nodes[from(j)].key
                /\ from(j) # from(i)
            BY <1>3, <2>2, <3>2, <4>3
          <5>. QED BY <1>0, <4>1, <5>1
        <4>. QED BY <4>2, <4>3
      <3>. QED BY <3>1, <3>2
    <2>. QED BY <2>1, <2>2
  <1>8. DelaysExact' /\ NotOverdue'
    <2>. HIDE DEF n
    <2>. QED BY <1>2, <1>5, <1>7, ListInvNew
  <1>. QED BY <1>2, <1>5, <1>6, <1>8

(* The p-th node is taken out, and no delay is moved by it. *)
LEMMA RemoveNodes ==
    ASSUME ListInv, NEW p \in 1..Len(nodes),
           nodes' \in Lists, Len(nodes') = Len(nodes) - 1,
           \A i \in 1..Len(nodes) - 1 :
             /\ nodes'[i].key = IF i < p THEN nodes[i].key ELSE nodes[i + 1].key
             /\ Delay(nodes', i) = IF i < p THEN Delay(nodes, i) ELSE Delay(nodes, i + 1),
           due' = [due EXCEPT ![nodes[p].key] = 0]
    PROVE  /\ Listed' = Listed \ {nodes[p].key}
           /\ due' \in [Keys -> Int]
           /\ DelaysExact' /\ NotOverdue'
  <1>. DEFINE n == Len(nodes)
              k == nodes[p].key
              from(i) == IF i < p THEN i ELSE i + 1
  <1>0. /\ nodes \in Lists /\ n \in Nat /\ DOMAIN nodes = 1..n
        /\ due \in [Keys -> Int] /\ MaxLate \in Nat
        /\ \A i \in 1..n :
             /\ nodes[i].key \in Keys /\ nodes[i].key \in Listed
             /\ Delay(nodes, i) = Positive(due[nodes[i].key])
             /\ due[nodes[i].key] >= -MaxLate
             /\ \A j \in 1..n : j # i => nodes[j].key # nodes[i].key
    BY ListInvNodes
  <1>1. DOMAIN nodes' = 1..n - 1 /\ p \in Nat
    BY <1>0, ListFacts
  <1>2. ASSUME NEW i \in 1..n - 1
        PROVE  /\ from(i) \in 1..n /\ from(i) # p
               /\ nodes'[i].key = nodes[from(i)].key
               /\ Delay(nodes', i) = Delay(nodes, from(i))
               /\ \A j \in 1..n - 1 : j # i => from(j) # from(i)
    BY <1>0, <1>1
  <1>3. /\ due' \in [Keys -> Int]
        /\ \A i \in 1..n : i # p => nodes[i].key # k /\ due'[nodes[i].key] = due[nodes[i].key]
    BY <1>0
  <1>4. Listed' = Listed \ {k}
    <2>1. ASSUME NEW i \in 1..n, i # p PROVE \E j \in 1..n - 1 : nodes'[j].key = nodes[i].key
      <3>1. CASE i < p
        <4>1. i \in 1..n - 1
          BY <1>0, <1>1, <3>1
        <4>. QED BY <3>1, <4>1
      <3>2. CASE i > p
        <4>1. i - 1 \in 1..n - 1 /\ ~ (i - 1 < p) /\ (i - 1) + 1 = i
          BY <1>0, <1>1, <3>2
        <4>. QED BY <4>1
      <3>. QED BY <1>0, <1>1, <2>1, <3>1, <3>2
    <2>. HIDE DEF from
    <2>2. ASSUME NEW i \in 1..n - 1 PROVE nodes'[i].key \in Listed \ {k}
      <3>1. from(i) \in 1..n /\ from(i) # p /\ nodes'[i].key = nodes[from(i)].key
        BY <1>2, Zenon
      <3>2. nodes[from(i)].key \in Listed
        BY <1>0, <3>1, Zenon
      <3>3. nodes[from(i)].key # k
        BY <1>3, <3>1, Zenon
      <3>. QED BY <3>1, <3>2, <3>3, Zenon
    <2>3. Listed' \subseteq Listed \ {k}
      <3>. HIDE DEF n, k
      <3>. QED BY <1>1, <2>2 DEF Listed
    <2>4. ASSUME NEW x \in Listed, x # k PROVE x \in Listed'
      <3>1. PICK i \in 1..n : x = nodes[i].key
        BY <1>0, Zenon DEF Listed
      <3>2. i # p
        BY <2>4, <3>1
      <3>3. PICK j \in 1..n - 1 : nodes'[j].key = nodes[i].key
        BY <2>1, <3>2, Zenon
      <3>. QED BY <1>1, <3>1, <3>3, Zenon DEF Listed
    <2>. QED BY <2>3, <2>4
  <1>. HIDE DEF from
  <1>5. ASSUME NEW i \in 1..n - 1
        PROVE  /\ Delay(nodes', i) = Positive(due'[nodes'[i].key])
               /\ due'[nodes'[i].key] >= -MaxLate
               /\ \A j \in 1..n - 1 : j # i => nodes'[j].key # nodes'[i].key
    <2>1. /\ from(i) \in 1..n /\ from(i) # p
          /\ nodes'[i].key = nodes[from(i)].key
          /\ Delay(nodes', i) = Delay(nodes, from(i))
      BY <1>2
    <2>2. due'[nodes[from(i)].key] = due[nodes[from(i)].key]
      BY <1>3, <2>1
    <2>3. ASSUME NEW j \in 1..n - 1, j # i PROVE nodes'[j].key # nodes'[i].key
      <3>1. from(j) \in 1..n /\ nodes'[j].key = nodes[from(j)].key /\ from(j) # from(i)
        BY <1>2, <2>3
      <3>. QED BY <1>0, <2>1, <3>1
    <2>. QED BY <1>0, <2>1, <2>2, <2>3
  <1>6. DelaysExact' /\ NotOverdue'
    <2>. HIDE DEF n
    <2>. QED BY <1>3, <1>5, ListInvNew DEF n
  <1>. QED BY <1>3, <1>4, <1>6

-----------------------------------------------------------------------------
(* Every step of the loop, and of the other end of its sockets. *)
LEMMA NodeTypes ==
    TypeOK <=> /\ requests \in Seq(RequestType)
               /\ nodes \in Lists
               /\ expired \in Seq(Keys)
               /\ phase \in {"select", "fetch", "callbacks"}
               /\ due \in [Keys -> Int]
  BY DEF TypeOK, Lists, NodeType

LEMMA WakeUpInv ==
    ASSUME ListInv, NEW e \in Elapses, WakeUp(e)
    PROVE  ListInv'
  <1>1. nodes \in Lists /\ Len(nodes) \in Nat /\ MaxLate \in Nat
    BY ListInvNodes
  <1>2. e \in Nat
    <2>1. Delay(nodes, Len(nodes)) \in Nat
      BY <1>1, DelayFacts
    <2>. QED BY <1>1, <2>1 DEF Elapses
  <1>3. /\ nodes' \in Lists /\ due' \in [Keys -> Int]
        /\ DelaysExact' /\ NotOverdue'
    BY <1>2, WakeUpNodes
  <1>4. /\ requests' = requests /\ expired' = expired
        /\ phase' = IF requests # <<>> THEN "fetch" ELSE "callbacks"
    BY DEF WakeUp
  <1>5. TypeOK'
    BY <1>3, <1>4, NodeTypes DEF ListInv, TypeOK, Lists, NodeType
  <1>. QED BY <1>3, <1>4, <1>5 DEF ListInv, FetchesOne, NoneDue

(* The request at the head of the socket. *)
LEMMA FetchedRequest ==
    ASSUME ListInv, NEW type, Fetching(type)
    PROVE  /\ requests # <<>>
           /\ Head(requests) \in RequestType /\ Head(requests).type = type
           /\ Head(requests).key \in Keys /\ Head(requests).seconds \in Nat
           /\ requests' = Tail(requests) /\ requests' \in Seq(RequestType)
           /\ expired' = expired /\ phase' = "callbacks"
  <1>1. requests # <<>> /\ requests \in Seq(RequestType)
    BY DEF ListInv, FetchesOne, TypeOK, Fetching
  <1>2. Head(requests) \in RequestType /\ Tail(requests) \in Seq(RequestType)
    BY <1>1
  <1>3. Head(requests).key \in Keys /\ Head(requests).seconds \in Nat
    <2>1. \A r \in RequestType : r.key \in Keys /\ r.seconds \in Nat
      <3>1. \A n \in Durations \cup {0} : n \in Nat
        BY TimerListAssumption DEF TimerListAssumption
      <3>2. \A r \in RequestType : r.key \in Keys /\ r.seconds \in Durations \cup {0}
        BY Zenon DEF RequestType
      <3>. QED BY <3>1, <3>2, Zenon
    <2>. QED BY <1>2, <2>1, Zenon
  <1>. QED BY <1>1, <1>2, <1>3 DEF Fetching

LEMMA InsertRequestInv ==
    ASSUME ListInv, InsertRequest
    PROVE  ListInv' /\ Listed' = Listed \cup {Head(requests).key}
  <1>. DEFINE k == Head(requests).key
  <1>1. Fetching("Start")
    BY DEF InsertRequest
  <1>2. /\ requests # <<>> /\ k \in Keys /\ Head(requests).seconds \in Nat
        /\ requests' \in Seq(RequestType) /\ expired' = expired /\ phase' = "callbacks"
    BY <1>1, FetchedRequest
  <1>3. /\ nodes' \in Lists /\ due' \in [Keys -> Int]
        /\ Listed' = Listed \cup {k}
        /\ DelaysExact' /\ NotOverdue'
    <2>1. CASE k \in Listed
      <3>1. nodes' = nodes /\ due' = due
        BY <2>1 DEF InsertRequest, Refused
      <3>. QED BY <2>1, <3>1, ListInvNodes
             DEF ListInv, Listed, DelaysExact, NotOverdue
    <2>2. CASE k \notin Listed
      <3>1. /\ nodes' = Inserted(nodes, k, Head(requests).seconds)
            /\ due' = [due EXCEPT ![k] = Head(requests).seconds]
        BY <2>2 DEF InsertRequest, Refused
      <3>. HIDE DEF k
      <3>. QED BY <1>2, <2>2, <3>1, InsertNodes
    <2>. QED BY <2>1, <2>2
  <1>4. TypeOK'
    BY <1>2, <1>3 DEF ListInv, TypeOK, Lists, NodeType
  <1>. QED BY <1>2, <1>3, <1>4 DEF ListInv, FetchesOne, NoneDue

LEMMA CancelRequestInv ==
    ASSUME ListInv, CancelRequest
    PROVE  ListInv' /\ Listed' = Listed \ {Head(requests).key}
  <1>. DEFINE k == Head(requests).key
  <1>1. Fetching("Cancel")
    BY DEF CancelRequest
  <1>2. /\ requests # <<>> /\ k \in Keys
        /\ requests' \in Seq(RequestType) /\ expired' = expired /\ phase' = "callbacks"
    BY <1>1, FetchedRequest
  <1>3. /\ nodes' \in Lists /\ due' \in [Keys -> Int]
        /\ Listed' = Listed \ {k}
        /\ DelaysExact' /\ NotOverdue'
    <2>1. CASE k \notin Listed /\ nodes' = nodes /\ due' = due
      BY <2>1, ListInvNodes DEF ListInv, Listed, DelaysExact, NotOverdue
    <2>2. CASE /\ \E i \in DOMAIN nodes : nodes[i].key = k /\ nodes' = Cancelled(nodes, i)
               /\ due' = [due EXCEPT ![k] = 0]
      <3>1. nodes \in Lists /\ DOMAIN nodes = 1..Len(nodes)
        BY ListInvNodes
      <3>2. PICK p \in 1..Len(nodes) : nodes[p].key = k /\ nodes' = Cancelled(nodes, p)
        BY <2>2, <3>1
      <3>3. /\ nodes' \in Lists /\ Len(nodes') = Len(nodes) - 1
            /\ \A i \in 1..Len(nodes) - 1 :
                 /\ nodes'[i].key = IF i < p THEN nodes[i].key ELSE nodes[i + 1].key
                 /\ Delay(nodes', i) = IF i < p THEN Delay(nodes, i) ELSE Delay(nodes, i + 1)
        <4>1. /\ Cancelled(nodes, p) \in Lists /\ Len(Cancelled(nodes, p)) = Len(nodes) - 1
              /\ \A i \in 1..Len(nodes) - 1 :
                   /\ Cancelled(nodes, p)[i].key
                        = IF i < p THEN nodes[i].key ELSE nodes[i + 1].key
                   /\ Delay(Cancelled(nodes, p), i)
                        = IF i < p THEN Delay(nodes, i) ELSE Delay(nodes, i + 1)
          BY <3>1, CancelledDelays, Zenon
        <4>. QED BY <3>2, <4>1, Zenon
      <3>4. due' = [due EXCEPT ![nodes[p].key] = 0]
        BY <2>2, <3>2, Zenon
      <3>. QED BY <3>2, <3>3, <3>4, RemoveNodes, Zenon
    <2>. QED BY <2>1, <2>2 DEF CancelRequest
  <1>4. TypeOK'
    BY <1>2, <1>3 DEF ListInv, TypeOK, Lists, NodeType
  <1>. QED BY <1>2, <1>3, <1>4 DEF ListInv, FetchesOne, NoneDue

(* The reported timer is due, and no later than select() may oversleep.    *)
LEMMA SendCallbackInv ==
    ASSUME ListInv, SendCallback
    PROVE  /\ ListInv' /\ Head(nodes).key \in Listed
           /\ Listed' = Listed \ {Head(nodes).key}
           /\ -MaxLate <= due[Head(nodes).key] /\ due[Head(nodes).key] <= 0
  <1>. DEFINE k == Head(nodes).key
  <1>0. /\ nodes \in Lists /\ Len(nodes) \in Nat /\ due \in [Keys -> Int] /\ MaxLate \in Nat
        /\ \A i \in 1..Len(nodes) :
             /\ nodes[i].key \in Keys /\ nodes[i].key \in Listed
             /\ Delay(nodes, i) = Positive(due[nodes[i].key])
             /\ due[nodes[i].key] >= -MaxLate
    BY ListInvNodes
  <1>1. nodes # <<>> /\ Head(nodes) = nodes[1] /\ 1 \in 1..Len(nodes)
    BY <1>0 DEF SendCallback, Due, Lists
  <1>2. Head(nodes).remain = 0
    <2>1. nodes[1].remain \in Nat
      BY <1>0, <1>1, ListFacts
    <2>. QED BY <1>1, <2>1 DEF SendCallback, Due
  <1>3. /\ nodes' = Tail(nodes) /\ due' = [due EXCEPT ![nodes[1].key] = 0]
        /\ expired' = Append(expired, k) /\ requests' = requests
        /\ phase' = phase /\ phase = "callbacks"
    BY <1>1 DEF SendCallback
  <1>4. /\ Tail(nodes) \in Lists /\ Len(Tail(nodes)) = Len(nodes) - 1
        /\ \A i \in 1..Len(nodes) - 1 :
             /\ Tail(nodes)[i] = nodes[i + 1]
             /\ Delay(Tail(nodes), i) = Delay(nodes, i + 1)
    BY <1>0, <1>1, <1>2, TailDelays
  <1>5. /\ nodes' \in Lists /\ Len(nodes') = Len(nodes) - 1
        /\ \A i \in 1..Len(nodes) - 1 :
             /\ nodes'[i].key = IF i < 1 THEN nodes[i].key ELSE nodes[i + 1].key
             /\ Delay(nodes', i) = IF i < 1 THEN Delay(nodes, i) ELSE Delay(nodes, i + 1)
    <2>1. \A i \in 1..Len(nodes) - 1 : ~ (i < 1)
      BY <1>0
    <2>. QED BY <1>3, <1>4, <2>1, Zenon
  <1>6. /\ Listed' = Listed \ {nodes[1].key} /\ due' \in [Keys -> Int]
        /\ DelaysExact' /\ NotOverdue'
    BY <1>1, <1>3, <1>5, RemoveNodes
  <1>7. k \in Keys /\ k \in Listed /\ due[k] >= -MaxLate /\ Delay(nodes, 1) = Positive(due[k])
    BY <1>0, <1>1
  <1>8. Delay(nodes, 1) = 0
    <2>1. Delay(nodes, 0) = 0 /\ Delay(nodes, 1) = Delay(nodes, 1 - 1) + nodes[1].remain
      BY <1>0, <1>1, DelayFacts
    <2>2. 1 - 1 = 0 /\ nodes[1].remain = 0
      BY <1>1, <1>2
    <2>. QED BY <2>1, <2>2
  <1>9. -MaxLate <= due[k] /\ due[k] <= 0
    BY <1>0, <1>7, <1>8 DEF Positive
  <1>10. TypeOK'
    <2>1. expired \in Seq(Keys)
      BY DEF ListInv, TypeOK
    <2>2. Append(expired, k) \in Seq(Keys)
      BY <1>7, <2>1
    <2>. QED BY <1>3, <1>5, <1>6, <2>2 DEF ListInv, TypeOK, Lists, NodeType
  <1>. QED BY <1>1, <1>3, <1>6, <1>7, <1>9, <1>10 DEF ListInv, FetchesOne, NoneDue

LEMMA NextRoundInv ==
    ASSUME ListInv, NextRound
    PROVE  ListInv' /\ Listed' = Listed
  <1>1. /\ nodes \in Lists
        /\ requests' = requests /\ nodes' = nodes /\ expired' = expired /\ due' = due
        /\ phase' = "select"
    BY ListInvNodes DEF NextRound
  <1>2. NoneDue'
    <2>1. CASE nodes # <<>>
      <3>1. Head(nodes) = nodes[1] /\ 1 \in 1..Len(nodes)
        BY <1>1, <2>1 DEF Lists
      <3>2. Head(nodes).remain \in Nat /\ ~ (Head(nodes).remain <= 0)
        BY <1>1, <2>1, <3>1, ListFacts DEF NextRound, Due
      <3>. QED BY <1>1, <3>2 DEF NoneDue
    <2>2. CASE nodes = <<>>
      BY <1>1, <2>2 DEF NoneDue
    <2>. QED BY <2>1, <2>2
  <1>. QED BY <1>1, <1>2
         DEF ListInv, TypeOK, FetchesOne, DelaysExact, NotOverdue, Listed

LEMMA RequestInv ==
    ASSUME ListInv, NEW type \in {"Start", "Cancel"}, NEW k \in Keys,
           NEW s \in Durations \cup {0}, Request(type, k, s)
    PROVE  ListInv' /\ Listed' = Listed
  <1>1. /\ requests \in Seq(RequestType)
        /\ requests' = Append(requests, [type |-> type, key |-> k, seconds |-> s])
        /\ nodes' = nodes /\ expired' = expired /\ phase' = phase /\ due' = due
    BY DEF ListInv, TypeOK, Request
  <1>2. [type |-> type, key |-> k, seconds |-> s] \in RequestType
    BY DEF RequestType
  <1>3. requests' \in Seq(RequestType) /\ requests' # <<>>
    BY <1>1, <1>2
  <1>. QED BY <1>1, <1>3
         DEF ListInv, TypeOK, FetchesOne, NoneDue, DelaysExact, NotOverdue, Listed

LEMMA RecvExpiredInv ==
    ASSUME ListInv, RecvExpired
    PROVE  ListInv' /\ Listed' = Listed
  <1>1. /\ expired \in Seq(Keys) /\ expired # <<>> /\ expired' = Tail(expired)
        /\ requests' = requests /\ nodes' = nodes /\ phase' = phase /\ due' = due
    BY DEF ListInv, TypeOK, RecvExpired
  <1>2. expired' \in Seq(Keys)
    BY <1>1
  <1>. QED BY <1>1, <1>2
         DEF ListInv, TypeOK, FetchesOne, NoneDue, DelaysExact, NotOverdue, Listed

LEMMA ListInvStep ==
    ListInv /\ [Next]_vars => ListInv'
  <1>. SUFFICES ASSUME ListInv, [Next]_vars PROVE ListInv'
    OBVIOUS
  <1>1. ASSUME NEW e \in Elapses, WakeUp(e) PROVE ListInv'
    BY <1>1, WakeUpInv
  <1>2. CASE InsertRequest
    BY <1>2, InsertRequestInv
  <1>3. CASE CancelRequest
    BY <1>3, CancelRequestInv
  <1>4. CASE SendCallback
    BY <1>4, SendCallbackInv
  <1>5. CASE NextRound
    BY <1>5, NextRoundInv
  <1>6. ASSUME NEW k \in Keys, Request("Cancel", k, 0) PROVE ListInv'
    BY <1>6, RequestInv
  <1>7. ASSUME NEW k \in Keys, NEW s \in Durations, Request("Start", k, s) PROVE ListInv'
    BY <1>7, RequestInv
  <1>8. CASE RecvExpired
    BY <1>8, RecvExpiredInv
  <1>9. CASE UNCHANGED vars
    BY <1>9 DEF vars, ListInv, TypeOK, FetchesOne, NoneDue, DelaysExact, NotOverdue, Listed
  <1>. QED BY <1>1, <1>2, <1>3, <1>4, <1>5, <1>6, <1>7, <1>8, <1>9, Zenon DEF Next, Timer

LEMMA ListInvAlways == Spec => []ListInv
  <1>. QED BY ListInvInit, ListInvStep, PTL DEF Spec

(***************************************************************************)
(* The list, the requests and the reports keep their types.                *)
(***************************************************************************)
THEOREM TypeCorrect == Spec => []TypeOK
  <1>1. ListInv => TypeOK
    BY DEF ListInv
  <1>. QED BY <1>1, ListInvAlways, PTL

(***************************************************************************)
(* The deltas always add up: after any requests, cancellations, reports    *)
(* and sleeps, every listed timer is as far from its expiry as the clock   *)
(* says, and is listed once.                                               *)
(***************************************************************************)
THEOREM DeltasAddUp == Spec => []DelaysExact
  <1>1. ListInv => DelaysExact
    BY DEF ListInv
  <1>. QED BY <1>1, ListInvAlways, PTL

-----------------------------------------------------------------------------
(* Only SendCallback adds a report, and of the first node. *)
LEMMA OnlyDueReported ==
    ASSUME ListInv, [Next]_vars, NEW k \in Reported
    PROVE  -MaxLate <= due[k] /\ due[k] <= 0
  <1>0. expired \in Seq(Keys) /\ Len(expired) \in Nat
    BY DEF ListInv, TypeOK
  <1>1. Len(expired') > Len(expired) /\ k = Last(expired')
    BY DEF Reported
  <1>2. CASE SendCallback
    <2>1. /\ expired' = Append(expired, Head(nodes).key)
          /\ Head(nodes).key \in Keys
      BY <1>2, SendCallbackInv DEF SendCallback, ListInv, TypeOK, Listed
    <2>2. Last(expired') = Head(nodes).key
      BY <1>0, <2>1 DEF Last
    <2>. QED BY <1>1, <1>2, <2>2, SendCallbackInv
  <1>3. CASE RecvExpired
    <2>1. expired' = Tail(expired) /\ expired # <<>>
      BY <1>3 DEF RecvExpired
    <2>2. Len(expired') = Len(expired) - 1
      BY <1>0, <2>1
    <2>. QED BY <1>0, <1>1, <2>2
  <1>4. CASE ~ SendCallback /\ ~ RecvExpired
    <2>1. expired' = expired
      BY <1>4 DEF Next, Timer, WakeUp, InsertRequest, CancelRequest, Fetching, NextRound,
                  Request, vars
    <2>. QED BY <1>0, <1>1, <2>1
  <1>. QED BY <1>2, <1>3, <1>4

(***************************************************************************)
(* No timer is reported before its seconds have passed, nor later than     *)
(* select() may oversleep once.                                            *)
(***************************************************************************)
THEOREM ReportsAreOnTime == Spec => OnTime
  <1>1. ListInv /\ [Next]_vars
          => [\A k \in Reported : -MaxLate <= due[k] /\ due[k] <= 0]_vars
    BY OnlyDueReported
  <1>. QED BY <1>1, ListInvAlways, PTL DEF Spec, OnTime

-----------------------------------------------------------------------------
(* The service tcpd takes the process for, step by step. *)
Untimed(q) == [i \in DOMAIN q |-> [type |-> q[i].type, key |-> q[i].key]]

LEMMA UntimedFacts ==
    ASSUME NEW q \in Seq(RequestType)
    PROVE  /\ Untimed(<<>>) = <<>>
           /\ q # <<>> =>
                /\ Untimed(q) # <<>>
                /\ Head(Untimed(q)).type = Head(q).type /\ Head(Untimed(q)).key = Head(q).key
                /\ Tail(Untimed(q)) = Untimed(Tail(q))
           /\ \A r \in RequestType :
                Untimed(Append(q, r)) = Append(Untimed(q), [type |-> r.type, key |-> r.key])
  <1>1. Len(q) \in Nat /\ DOMAIN q = 1..Len(q)
    OBVIOUS
  <1>2. Untimed(<<>>) = <<>>
    BY DEF Untimed
  <1>3. /\ Untimed(q) = [i \in 1..Len(q) |-> [type |-> q[i].type, key |-> q[i].key]]
        /\ Untimed(q) \in Seq([type : {q[i].type : i \in 1..Len(q)}, key : {q[i].key : i \in 1..Len(q)}])
        /\ Len(Untimed(q)) = Len(q)
    BY <1>1 DEF Untimed
  <1>4. ASSUME q # <<>>
        PROVE  /\ Untimed(q) # <<>>
               /\ Head(Untimed(q)).type = Head(q).type /\ Head(Untimed(q)).key = Head(q).key
               /\ Tail(Untimed(q)) = Untimed(Tail(q))
    <2>1. /\ Len(q) >= 1 /\ Head(q) = q[1] /\ Len(Tail(q)) = Len(q) - 1
          /\ DOMAIN Tail(q) = 1..Len(q) - 1
          /\ \A i \in 1..Len(q) - 1 : Tail(q)[i] = q[i + 1]
      BY <1>1, <1>4
    <2>2. /\ Untimed(q) # <<>> /\ Head(Untimed(q)) = [type |-> q[1].type, key |-> q[1].key]
      BY <1>1, <1>3, <2>1
    <2>3. Tail(Untimed(q)) =
            [i \in 1..Len(q) - 1 |-> [type |-> q[i + 1].type, key |-> q[i + 1].key]]
      BY <1>1, <1>3, <2>1
    <2>4. Untimed(Tail(q)) =
            [i \in 1..Len(q) - 1 |-> [type |-> q[i + 1].type, key |-> q[i + 1].key]]
      BY <2>1 DEF Untimed
    <2>5. Head(Untimed(q)).type = Head(q).type /\ Head(Untimed(q)).key = Head(q).key
      <3>1. ASSUME NEW h, NEW t, NEW k, h = [type |-> t, key |-> k]
            PROVE  h.type = t /\ h.key = k
        BY <3>1
      <3>2. Head(Untimed(q)).type = q[1].type /\ Head(Untimed(q)).key = q[1].key
        BY <2>2, <3>1
      <3>3. Head(q) = q[1]
        BY <2>1
      <3>. QED BY <3>2, <3>3, Zenon
    <2>6. Tail(Untimed(q)) = Untimed(Tail(q))
      BY <2>3, <2>4, Zenon
    <2>. QED BY <2>2, <2>5, <2>6
  <1>5. ASSUME NEW r \in RequestType
        PROVE  Untimed(Append(q, r)) = Append(Untimed(q), [type |-> r.type, key |-> r.key])
    <2>1. /\ DOMAIN Append(q, r) = 1..Len(q) + 1
          /\ \A i \in 1..Len(q) + 1 : Append(q, r)[i] = IF i <= Len(q) THEN q[i] ELSE r
      BY <1>1
    <2>2. Untimed(Append(q, r)) =
            [i \in 1..Len(q) + 1 |-> [type |-> (IF i <= Len(q) THEN q[i] ELSE r).type,
                                      key |-> (IF i <= Len(q) THEN q[i] ELSE r).key]]
      BY <2>1 DEF Untimed
    <2>. QED BY <1>1, <1>3, <2>2
  <1>. QED BY <1>2, <1>4, <1>5

LEMMA ServiceInit == Init => Service!TimerInit
  <1>. SUFFICES ASSUME Init PROVE Service!TimerInit
    OBVIOUS
  <1>1. requests = <<>> /\ nodes = <<>> /\ expired = <<>>
    BY DEF Init
  <1>2. Untimed(requests) = <<>> /\ Listed = {}
    BY <1>1 DEF Untimed, Listed
  <1>. QED BY <1>1, <1>2 DEF Service!TimerInit, Untimed

LEMMA ServiceStep ==
    ASSUME ListInv, [Next]_vars
    PROVE  [Service!ServiceNext(Keys)]_(Service!timerVars)
  <1>. DEFINE Goal == [Service!ServiceNext(Keys)]_(Service!timerVars)
  <1>0. requests \in Seq(RequestType)
    BY DEF ListInv, TypeOK
  <1>1. ASSUME requests' = requests, Listed' = Listed, expired' = expired PROVE Goal
    BY <1>1 DEF Service!timerVars
  <1>2. ASSUME NEW e \in Elapses, WakeUp(e) PROVE Goal
    <2>1. e \in Nat
      <3>1. Delay(nodes, Len(nodes)) \in Nat /\ MaxLate \in Nat
        BY ListInvNodes, DelayFacts
      <3>. QED BY <3>1 DEF Elapses
    <2>2. Listed' = Listed
      BY <1>2, <2>1, WakeUpNodes
    <2>. QED BY <1>1, <1>2, <2>2 DEF WakeUp
  <1>3. ASSUME NEW type, Fetching(type)
        PROVE  /\ requests # <<>> /\ Head(requests).type = type
               /\ Untimed(requests) # <<>>
               /\ Head(Untimed(requests)).type = type
               /\ Head(Untimed(requests)).key = Head(requests).key
               /\ Untimed(requests') = Tail(Untimed(requests))
               /\ expired' = expired
    BY <1>0, <1>3, FetchedRequest, UntimedFacts
  <1>4. CASE InsertRequest
    <2>1. Fetching("Start") /\ Listed' = Listed \cup {Head(requests).key}
      BY <1>4, InsertRequestInv DEF InsertRequest
    <2>2. Service!ServeRequest
      BY <1>3, <2>1, Zenon DEF Service!ServeRequest, Untimed
    <2>. QED BY <2>2 DEF Service!ServiceNext, Service!TimerNext
  <1>5. CASE CancelRequest
    <2>1. Fetching("Cancel") /\ Listed' = Listed \ {Head(requests).key}
      BY <1>5, CancelRequestInv DEF CancelRequest
    <2>2. "Cancel" # "Start"
      OBVIOUS
    <2>3. Service!ServeRequest
      BY <1>3, <2>1, <2>2, Zenon DEF Service!ServeRequest, Untimed
    <2>. QED BY <2>3 DEF Service!ServiceNext, Service!TimerNext
  <1>6. CASE SendCallback
    <2>1. /\ Head(nodes).key \in Listed /\ Listed' = Listed \ {Head(nodes).key}
          /\ expired' = Append(expired, Head(nodes).key) /\ requests' = requests
      BY <1>6, SendCallbackInv DEF SendCallback
    <2>2. Service!Expire(Head(nodes).key)
      BY <2>1 DEF Service!Expire
    <2>. QED BY <2>1, <2>2 DEF Service!ServiceNext, Service!TimerNext
  <1>7. CASE NextRound
    BY <1>1, <1>7, NextRoundInv DEF NextRound
  <1>8. ASSUME NEW k \in Keys, Request("Cancel", k, 0) PROVE Goal
    <2>1. [type |-> "Cancel", key |-> k, seconds |-> 0] \in RequestType
      BY DEF RequestType
    <2>2. Untimed(requests') = Append(Untimed(requests), [type |-> "Cancel", key |-> k])
      BY <1>0, <1>8, <2>1, UntimedFacts DEF Request
    <2>3. Listed' = Listed /\ expired' = expired
      BY <1>8, RequestInv DEF Request
    <2>4. Service!Client(Keys)
      BY <2>2, <2>3, Zenon
         DEF Service!Client, Service!CancelTimerRequest, Service!CancelRequest, Untimed
    <2>. QED BY <2>4 DEF Service!ServiceNext
  <1>9. ASSUME NEW k \in Keys, NEW s \in Durations, Request("Start", k, s) PROVE Goal
    <2>1. [type |-> "Start", key |-> k, seconds |-> s] \in RequestType
      BY DEF RequestType
    <2>2. Untimed(requests') = Append(Untimed(requests), [type |-> "Start", key |-> k])
      BY <1>0, <1>9, <2>1, UntimedFacts DEF Request
    <2>3. Listed' = Listed /\ expired' = expired
      BY <1>9, RequestInv DEF Request
    <2>4. Service!Client(Keys)
      BY <2>2, <2>3, Zenon
         DEF Service!Client, Service!SendTimerRequest, Service!StartRequest, Untimed
    <2>. QED BY <2>4 DEF Service!ServiceNext
  <1>10. CASE RecvExpired
    <2>1. /\ Listed' = Listed /\ requests' = requests
          /\ expired # <<>> /\ expired' = Tail(expired)
      BY <1>10, RecvExpiredInv DEF RecvExpired
    <2>2. Service!Client(Keys)
      BY <2>1, Zenon DEF Service!Client
    <2>. QED BY <2>2 DEF Service!ServiceNext
  <1>11. CASE UNCHANGED vars
    BY <1>1, <1>11 DEF vars, Listed
  <1>. QED BY <1>2, <1>4, <1>5, <1>6, <1>7, <1>8, <1>9, <1>10, <1>11, Zenon DEF Next, Timer

(***************************************************************************)
(* The delta list is what tcpd takes the timer process for: a set of keys  *)
(* that requests put into and out of, and that reports empty, whatever     *)
(* seconds the requests ask for.                                           *)
(***************************************************************************)
THEOREM ServiceImplemented == Spec => ImplementsService
  <1>1. ListInv /\ [Next]_vars => [Service!ServiceNext(Keys)]_(Service!timerVars)
    BY ServiceStep
  <1>. QED BY <1>1, ServiceInit, ListInvAlways, PTL DEF Spec, ImplementsService
=============================================================================
