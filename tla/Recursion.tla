----------------------------- MODULE Recursion -----------------------------
(***************************************************************************)
(* Facts about recursive functions and sequences that the proofs need:     *)
(* induction over the naturals, stated of a set instead of a predicate,    *)
(* what FlattenSeq gives for the beginnings of a sequence of sequences,    *)
(* and where InsertAt and RemoveAt leave the elements.                     *)
(***************************************************************************)
EXTENDS SequencesExt, Integers, WellFoundedInduction, SequenceTheorems, TLAPS

(* The least number outside a set that 0 is in and that is closed under    *)
(* successor would have a predecessor in it.                               *)

LEMMA SetInduction ==
    ASSUME NEW S, 0 \in S, \A n \in Nat : n \in S => n + 1 \in S
    PROVE  Nat \subseteq S
  <1>. DEFINE Out == {n \in Nat : n \notin S}
  <1>1. SUFFICES ASSUME Out # {} PROVE FALSE
    OBVIOUS
  <1>2. PICK m \in Out : \A t \in Out : ~ (<<t, m>> \in OpToRel(<, Nat))
    BY <1>1, NatLessThanWellFounded, WFMin
  <1>3. \A t \in Out : ~ (t < m)
    BY <1>2, Zenon DEF OpToRel
  <1>4. m # 0 /\ m - 1 \in Nat /\ (m - 1) + 1 = m
    OBVIOUS
  <1>5. m - 1 \in S
    BY <1>3, <1>4
  <1>. QED BY <1>4, <1>5

Text(S) == Seq(S)

LEMMA Texts ==
    ASSUME NEW S, NEW a \in Text(S), NEW b \in Text(S)
    PROVE  a \o b \in Text(S) /\ a \o <<>> = a
  BY ConcatProperties, ConcatEmptySeq DEF Text

LEMMA TextsAssociate ==
    ASSUME NEW S, NEW a \in Text(S), NEW b \in Text(S), NEW c \in Text(S)
    PROVE  (a \o b) \o c = a \o (b \o c)
  BY ConcatAssociative DEF Text

(* What extends a beginning extends it further. *)
Extends(S, f, g) == \E v \in Text(S) : g = f \o v

LEMMA ExtendsMore ==
    ASSUME NEW S, NEW f \in Text(S), NEW g, Extends(S, f, g), NEW u \in Text(S)
    PROVE  Extends(S, f, g \o u)
  <1>1. ASSUME NEW v \in Text(S) PROVE (f \o v) \o u = f \o (v \o u)
    BY TextsAssociate, SMTT(30)
  <1>2. PICK v \in Text(S) : g = f \o v
    BY DEF Extends
  <1>3. v \o u \in Text(S)
    BY Texts
  <1>4. g \o u = f \o (v \o u)
    BY <1>1, <1>2, Zenon
  <1>. QED BY <1>3, <1>4, Zenon DEF Extends

LEMMA EmptyText == \A S : <<>> \in Text(S)
  BY DEF Text

(* The recursive function of FlattenSeq, up to the n-th sequence. *)
Flattens(g, s, n) ==
    g = [i \in 1..n |-> IF i = 1 THEN s[i] ELSE g[i - 1] \o s[i]]

LEMMA FlattensAt ==
    ASSUME NEW g, NEW s, NEW n \in Nat, Flattens(g, s, n), NEW i \in 1..n
    PROVE  g[i] = IF i = 1 THEN s[i] ELSE g[i - 1] \o s[i]
  <1>1. [j \in 1..n |-> IF j = 1 THEN s[j] ELSE g[j - 1] \o s[j]][i]
        = IF i = 1 THEN s[i] ELSE g[i - 1] \o s[i]
    OBVIOUS
  <1>. QED BY <1>1, Zenon DEF Flattens

LEMMA FlatteningExists ==
    ASSUME NEW s, NEW n \in Nat
    PROVE  \E g : Flattens(g, s, n)
  <1>. DEFINE S == {m \in Nat : \E g : Flattens(g, s, m)}
  <1>1. 0 \in S
    <2>1. Flattens([i \in 1..0 |-> 0], s, 0)
      BY DEF Flattens
    <2>. QED BY <2>1
  <1>2. ASSUME NEW m \in Nat, m \in S PROVE m + 1 \in S
    <2>1. PICK g : Flattens(g, s, m)
      BY <1>2
    <2>. DEFINE h == [i \in 1..m + 1 |-> IF i <= m THEN g[i]
                                         ELSE IF i = 1 THEN s[i] ELSE g[m] \o s[i]]
    <2>2. ASSUME NEW i \in 1..m + 1
          PROVE  h[i] = IF i = 1 THEN s[i] ELSE h[i - 1] \o s[i]
      <3>1. CASE i <= m
        <4>1. g[i] = IF i = 1 THEN s[i] ELSE g[i - 1] \o s[i]
          <5>1. i \in 1..m
            BY <3>1
          <5>. QED BY <2>1, <5>1, FlattensAt
        <4>2. i # 1 => h[i - 1] = g[i - 1]
          BY <3>1
        <4>. QED BY <3>1, <4>1, <4>2
      <3>2. CASE i = m + 1
        BY <3>2
      <3>. QED BY <3>1, <3>2
    <2>3. Flattens(h, s, m + 1)
      <3>. HIDE DEF h
      <3>1. h = [i \in 1..m + 1 |-> h[i]]
        BY DEF h
      <3>. QED BY <2>2, <3>1 DEF Flattens
    <2>. QED BY <2>3
  <1>. HIDE DEF S
  <1>3. n \in S
    BY <1>1, <1>2, SetInduction
  <1>. QED BY <1>3 DEF S

LEMMA FlattenedBy ==
    ASSUME NEW s, Len(s) \in Nat \ {0}
    PROVE  \E g : Flattens(g, s, Len(s)) /\ FlattenSeq(s) = g[Len(s)]
  <1>1. \E g : Flattens(g, s, Len(s))
    BY FlatteningExists
  <1>. QED BY <1>1, Zenon DEF FlattenSeq, Flattens

(* It is unique, and depends on the sequences flattened only. *)
LEMMA FlatteningUnique ==
    ASSUME NEW s, NEW t, NEW g, NEW h, NEW m \in Nat, NEW n \in Nat,
           Flattens(g, s, m), Flattens(h, t, n), m <= n,
           \A i \in 1..m : s[i] = t[i]
    PROVE  \A i \in 1..m : g[i] = h[i]
  <1>. DEFINE S == {i \in Nat : i \in 1..m => g[i] = h[i]}
  <1>1. 0 \in S
    OBVIOUS
  <1>2. ASSUME NEW i \in Nat, i \in S PROVE i + 1 \in S
    <2>1. SUFFICES ASSUME i + 1 \in 1..m PROVE g[i + 1] = h[i + 1]
      OBVIOUS
    <2>2. /\ g[i + 1] = IF i + 1 = 1 THEN s[i + 1] ELSE g[(i + 1) - 1] \o s[i + 1]
          /\ h[i + 1] = IF i + 1 = 1 THEN t[i + 1] ELSE h[(i + 1) - 1] \o t[i + 1]
      BY <2>1, FlattensAt
    <2>3. i + 1 # 1 => g[i] = h[i]
      BY <1>2, <2>1
    <2>. QED BY <2>1, <2>2, <2>3
  <1>. HIDE DEF S
  <1>3. Nat \subseteq S
    BY <1>1, <1>2, SetInduction
  <1>. QED BY <1>3 DEF S

LEMMA FlatteningType ==
    ASSUME NEW S, NEW s \in Seq(Text(S)), NEW g, NEW n \in 0..Len(s), Flattens(g, s, n)
    PROVE  \A i \in 1..n : g[i] \in Text(S)
  <1>. DEFINE Typed == {i \in Nat : i \in 1..n => g[i] \in Text(S)}
  <1>1. 0 \in Typed
    OBVIOUS
  <1>2. ASSUME NEW i \in Nat, i \in Typed PROVE i + 1 \in Typed
    <2>1. SUFFICES ASSUME i + 1 \in 1..n PROVE g[i + 1] \in Text(S)
      OBVIOUS
    <2>2. g[i + 1] = IF i + 1 = 1 THEN s[i + 1] ELSE g[(i + 1) - 1] \o s[i + 1]
      <3>1. n \in Nat
        OBVIOUS
      <3>. QED BY <2>1, <3>1, FlattensAt
    <2>3. i + 1 # 1 => g[i] \in Text(S)
      BY <1>2, <2>1
    <2>4. s[i + 1] \in Text(S)
      BY <2>1
    <2>. QED BY <2>2, <2>3, <2>4 DEF Text
  <1>. HIDE DEF Typed
  <1>3. Nat \subseteq Typed
    BY <1>1, <1>2, SetInduction
  <1>. QED BY <1>3 DEF Typed

LEMMA FlattenGrows ==
    ASSUME NEW S, NEW s \in Seq(Text(S)), NEW n \in Nat, n < Len(s)
    PROVE  /\ FlattenSeq(SubSeq(s, 1, n)) \in Text(S)
           /\ FlattenSeq(SubSeq(s, 1, n + 1)) = FlattenSeq(SubSeq(s, 1, n)) \o s[n + 1]
  <1>. DEFINE a == SubSeq(s, 1, n)
              b == SubSeq(s, 1, n + 1)
  <1>1. /\ a \in Seq(Text(S)) /\ Len(a) = n /\ \A i \in 1..n : a[i] = s[i]
        /\ b \in Seq(Text(S)) /\ Len(b) = n + 1 /\ \A i \in 1..n + 1 : b[i] = s[i]
        /\ s[n + 1] \in Text(S)
    OBVIOUS
  <1>. HIDE DEF a, b
  <1>2. PICK h : Flattens(h, b, n + 1) /\ FlattenSeq(b) = h[n + 1]
    BY <1>1, FlattenedBy
  <1>3. h[n + 1] = IF n + 1 = 1 THEN b[n + 1] ELSE h[(n + 1) - 1] \o b[n + 1]
    BY <1>2, FlattensAt
  <1>4. CASE n = 0
    <2>1. FlattenSeq(a) = <<>>
      BY <1>1, <1>4 DEF FlattenSeq
    <2>2. <<>> \o s[n + 1] = s[n + 1]
      BY <1>1 DEF Text
    <2>3. FlattenSeq(b) = s[n + 1] /\ <<>> \in Text(S)
      BY <1>1, <1>2, <1>3, <1>4 DEF Text
    <2>4. FlattenSeq(a) \in Text(S) /\ FlattenSeq(b) = FlattenSeq(a) \o s[n + 1]
      BY <2>1, <2>2, <2>3
    <2>. QED BY <2>4 DEF a, b
  <1>5. CASE n # 0
    <2>1. PICK g : Flattens(g, a, n) /\ FlattenSeq(a) = g[n]
      BY <1>1, <1>5, FlattenedBy
    <2>2. \A i \in 1..n : a[i] = b[i]
      BY <1>1
    <2>3. g[n] = h[n]
      BY <1>2, <1>5, <2>1, <2>2, FlatteningUnique
    <2>4. g[n] \in Text(S)
      BY <1>1, <1>5, <2>1, FlatteningType
    <2>5. h[n + 1] = h[n] \o b[n + 1]
      <3>1. n + 1 # 1 /\ (n + 1) - 1 = n
        BY <1>5
      <3>. QED BY <1>3, <3>1, Zenon
    <2>6. FlattenSeq(a) \in Text(S) /\ FlattenSeq(b) = FlattenSeq(a) \o s[n + 1]
      <3>1. b[n + 1] = s[n + 1]
        BY <1>1
      <3>. QED BY <1>2, <2>1, <2>3, <2>4, <2>5, <3>1, Zenon
    <2>. QED BY <2>6 DEF a, b
  <1>. QED BY <1>4, <1>5

-----------------------------------------------------------------------------
(* What was flattened so far is the beginning of what is flattened later.  *)
LEMMA FlattenBeginning ==
    ASSUME NEW S, NEW s \in Seq(Text(S)), NEW n \in Nat, n <= Len(s),
           NEW m \in n..Len(s)
    PROVE  /\ FlattenSeq(SubSeq(s, 1, n)) \in Text(S)
           /\ \E t \in Text(S) :
                FlattenSeq(SubSeq(s, 1, m)) = FlattenSeq(SubSeq(s, 1, n)) \o t
  <1>. DEFINE Flat(k) == FlattenSeq(SubSeq(s, 1, k))
              Good == {k \in Nat : k <= Len(s) => Flat(k) \in Text(S)}
              Longer == {k \in Nat : n + k <= Len(s) =>
                           Extends(S, Flat(n), Flat(n + k))}
  <1>1. ASSUME NEW k \in Nat, k < Len(s)
        PROVE  /\ Flat(k) \in Text(S) /\ s[k + 1] \in Text(S)
               /\ Flat(k + 1) = Flat(k) \o s[k + 1]
    <2>1. s[k + 1] \in Text(S)
      BY <1>1
    <2>. QED BY <1>1, <2>1, FlattenGrows
  <1>2. Flat(0) = <<>>
    <2>1. SubSeq(s, 1, 0) = <<>>
      OBVIOUS
    <2>. QED BY <2>1 DEF FlattenSeq
  <1>. HIDE DEF Flat
  <1>3. 0 \in Good
    BY <1>2, EmptyText
  <1>4. ASSUME NEW k \in Nat, k \in Good PROVE k + 1 \in Good
    <2>1. SUFFICES ASSUME k + 1 <= Len(s) PROVE Flat(k + 1) \in Text(S)
      OBVIOUS
    <2>2. k < Len(s) /\ Len(s) \in Nat
      BY <2>1
    <2>3. /\ Flat(k) \in Text(S) /\ s[k + 1] \in Text(S)
          /\ Flat(k + 1) = Flat(k) \o s[k + 1]
      BY <1>1, <2>2
    <2>. QED BY <2>3, Texts
  <1>. HIDE DEF Good
  <1>5. n \in Good
    BY <1>3, <1>4, SetInduction
  <1>6. Flat(n) \in Text(S)
    BY <1>5 DEF Good
  <1>7. 0 \in Longer
    <2>1. Flat(n) = Flat(n) \o <<>> /\ <<>> \in Text(S) /\ n + 0 = n
      BY <1>6, Texts, EmptyText
    <2>. QED BY <2>1 DEF Extends
  <1>8. ASSUME NEW k \in Nat, k \in Longer PROVE k + 1 \in Longer
    <2>1. SUFFICES ASSUME n + (k + 1) <= Len(s)
                   PROVE  Extends(S, Flat(n), Flat(n + (k + 1)))
      OBVIOUS
    <2>2. /\ n + k \in Nat /\ n + k < Len(s) /\ n + (k + 1) = (n + k) + 1
      BY <2>1
    <2>3. Extends(S, Flat(n), Flat(n + k))
      BY <1>8, <2>2
    <2>4. PICK u \in Text(S) : Flat(n + (k + 1)) = Flat(n + k) \o u
      BY <1>1, <2>2
    <2>5. Extends(S, Flat(n), Flat(n + k) \o u)
      BY <1>6, <2>3, ExtendsMore, Zenon
    <2>. QED BY <2>4, <2>5, Zenon
  <1>. HIDE DEF Longer
  <1>9. m - n \in Longer /\ n + (m - n) = m
    BY <1>7, <1>8, SetInduction
  <1>. QED BY <1>6, <1>9 DEF Flat, Longer, Extends

LEMMA PrefixOfConcat ==
    ASSUME NEW S, NEW s \in Seq(S), NEW t \in Seq(S)
    PROVE  /\ IsPrefix(s, s \o t)
           /\ s \o t \in Seq(S) /\ Len(s \o t) = Len(s) + Len(t)
  <1>1. s \o t \in Seq(S) /\ Len(s \o t) = Len(s) + Len(t) /\ Len(s) \in Nat /\ Len(t) \in Nat
    OBVIOUS
  <1>2. SubSeq(s, 1, Len(s)) = s
    BY SubSeqFull
  <1>3. SubSeq(s \o t, 1, Len(s)) = s
    <2>1. /\ SubSeq(s \o t, 1, Len(s)) \in Seq(S) /\ Len(SubSeq(s \o t, 1, Len(s))) = Len(s)
          /\ \A i \in 1..Len(s) : SubSeq(s \o t, 1, Len(s))[i] = s[i]
      BY <1>1
    <2>. QED BY <2>1, SeqEqual
  <1>. QED BY <1>1, <1>2, <1>3 DEF IsPrefix

-----------------------------------------------------------------------------
(* What InsertAt and RemoveAt leave where.                                 *)
LEMMA InsertAtFacts ==
    ASSUME NEW S, NEW s \in Seq(S), NEW p \in 1..Len(s) + 1, NEW e \in S
    PROVE  /\ InsertAt(s, p, e) \in Seq(S) /\ Len(InsertAt(s, p, e)) = Len(s) + 1
           /\ \A i \in 1..Len(s) + 1 :
                InsertAt(s, p, e)[i] = IF i < p THEN s[i] ELSE IF i = p THEN e ELSE s[i - 1]
  <1>. DEFINE a == SubSeq(s, 1, p - 1)
              b == SubSeq(s, p, Len(s))
  <1>0. Len(s) \in Nat /\ p \in Nat
    OBVIOUS
  <1>1. /\ a \in Seq(S) /\ Len(a) = p - 1 /\ \A i \in 1..p - 1 : a[i] = s[i]
        /\ b \in Seq(S) /\ Len(b) = Len(s) - p + 1
        /\ \A i \in 1..Len(s) - p + 1 : b[i] = s[p + i - 1]
        /\ <<e>> \in Seq(S) /\ Len(<<e>>) = 1 /\ <<e>>[1] = e
    BY <1>0
  <1>. HIDE DEF a, b
  <1>2. /\ a \o <<e>> \in Seq(S) /\ Len(a \o <<e>>) = p
        /\ \A i \in 1..p : (a \o <<e>>)[i] = IF i < p THEN s[i] ELSE e
    BY <1>0, <1>1
  <1>3. /\ (a \o <<e>>) \o b \in Seq(S) /\ Len((a \o <<e>>) \o b) = Len(s) + 1
        /\ \A i \in 1..Len(s) + 1 : ((a \o <<e>>) \o b)[i] =
              IF i < p THEN s[i] ELSE IF i = p THEN e ELSE s[i - 1]
    <2>1. /\ (a \o <<e>>) \o b \in Seq(S)
          /\ Len((a \o <<e>>) \o b) = Len(a \o <<e>>) + Len(b)
          /\ \A i \in 1..Len(a \o <<e>>) + Len(b) : ((a \o <<e>>) \o b)[i] =
                IF i <= Len(a \o <<e>>) THEN (a \o <<e>>)[i] ELSE b[i - Len(a \o <<e>>)]
      BY <1>1, <1>2, ConcatProperties
    <2>2. ASSUME NEW i \in 1..Len(s) + 1
          PROVE  ((a \o <<e>>) \o b)[i] = IF i < p THEN s[i] ELSE IF i = p THEN e ELSE s[i - 1]
      <3>1. i <= p => ((a \o <<e>>) \o b)[i] = (a \o <<e>>)[i]
        BY <1>0, <1>1, <1>2, <2>1
      <3>2. i > p => ((a \o <<e>>) \o b)[i] = b[i - p] /\ b[i - p] = s[p + (i - p) - 1]
        BY <1>0, <1>1, <1>2, <2>1
      <3>3. i <= p => (a \o <<e>>)[i] = IF i < p THEN s[i] ELSE e
        BY <1>0, <1>2
      <3>4. p + (i - p) - 1 = i - 1
        BY <1>0
      <3>5. i < p \/ i = p \/ i > p
        BY <1>0
      <3>6. (i < p => i <= p) /\ (i = p => i <= p /\ ~ (i < p)) /\ (i > p => i # p /\ ~ (i < p))
        BY <1>0
      <3>. QED BY <3>1, <3>2, <3>3, <3>4, <3>5, <3>6, Zenon
    <2>3. Len(a \o <<e>>) + Len(b) = Len(s) + 1
      <3>1. p + (Len(s) - p + 1) = Len(s) + 1
        BY <1>0
      <3>. QED BY <1>1, <1>2, <3>1, Zenon
    <2>. QED BY <2>1, <2>2, <2>3, Zenon
  <1>4. InsertAt(s, p, e) = (a \o <<e>>) \o b
    BY DEF InsertAt, a, b
  <1>. QED BY <1>3, <1>4, Zenon

LEMMA RemoveAtFacts ==
    ASSUME NEW S, NEW s \in Seq(S), NEW p \in 1..Len(s)
    PROVE  /\ RemoveAt(s, p) \in Seq(S) /\ Len(RemoveAt(s, p)) = Len(s) - 1
           /\ \A i \in 1..Len(s) - 1 : RemoveAt(s, p)[i] = IF i < p THEN s[i] ELSE s[i + 1]
  <1>. DEFINE a == SubSeq(s, 1, p - 1)
              b == SubSeq(s, p + 1, Len(s))
  <1>0. Len(s) \in Nat /\ p \in Nat
    OBVIOUS
  <1>1. /\ a \in Seq(S) /\ Len(a) = p - 1 /\ \A i \in 1..p - 1 : a[i] = s[i]
        /\ b \in Seq(S) /\ Len(b) = Len(s) - p
        /\ \A i \in 1..Len(s) - p : b[i] = s[(p + 1) + i - 1]
    BY <1>0
  <1>. HIDE DEF a, b
  <1>2. /\ a \o b \in Seq(S) /\ Len(a \o b) = Len(a) + Len(b)
        /\ \A i \in 1..Len(a) + Len(b) : (a \o b)[i] =
              IF i <= Len(a) THEN a[i] ELSE b[i - Len(a)]
    BY <1>1, ConcatProperties
  <1>3. ASSUME NEW i \in 1..Len(s) - 1 PROVE (a \o b)[i] = IF i < p THEN s[i] ELSE s[i + 1]
    <2>1. i < p => (a \o b)[i] = s[i]
      BY <1>0, <1>1, <1>2
    <2>2. ~ (i < p) => (a \o b)[i] = b[i - (p - 1)] /\ b[i - (p - 1)] = s[i + 1]
      BY <1>0, <1>1, <1>2
    <2>. QED BY <2>1, <2>2
  <1>4. Len(a) + Len(b) = Len(s) - 1
    BY <1>0, <1>1
  <1>5. RemoveAt(s, p) = a \o b
    BY DEF RemoveAt, a, b
  <1>. QED BY <1>2, <1>3, <1>4, <1>5, Zenon
=============================================================================
