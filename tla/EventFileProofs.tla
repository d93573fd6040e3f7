--------------------------- MODULE EventFileProofs ---------------------------
(*****************************************************************************)
(* What the frame codec and the report bodies do to texts of any length,     *)
(* with the theorems that frames arrive as they were sent, that a report     *)
(* which keeps its separators apart is read as it was written, and that no   *)
(* report is read as one of another user.                                    *)
(*                                                                           *)
(* A text is a sequence of tokens, and split, FoldSet and FlattenSeq are     *)
(* recursive functions: each is unfolded once, at the CHOOSE of its          *)
(* definition, and the rest argues with the least position, the smallest set *)
(* or the shortest list at which a claim could fail.                         *)
(*****************************************************************************)
EXTENDS EventFile, TLAPS, WellFoundedInduction, SequenceTheorems, FiniteSetTheorems

-------------------------------------------------------------------------------
(* What split gives, position by position. *)

(* Least elements stand in for induction: a theorem with an operator for a parameter
   cannot be instantiated by the provers, well-foundedness of < can. *)
LEMMA LeastNatural ==
  ASSUME NEW S \in SUBSET Nat, S # {}
  PROVE  \E m \in S : \A k \in S : m <= k
<1>1. PICK x \in S : \A y \in S : ~ (<<y, x>> \in OpToRel(<,Nat))
  BY NatLessThanWellFounded, WFMin
<1>2. \A y \in S : ~(y < x)
  BY <1>1 DEF OpToRel
<1>. QED BY <1>2

(* Induction, over a set instead of a predicate *)
LEMMA NaturalsAreAll ==
  ASSUME NEW S \in SUBSET Nat, 0 \in S, \A n \in S : n + 1 \in S
  PROVE  S = Nat
<1>. SUFFICES ASSUME NEW x \in Nat, x \notin S PROVE FALSE
  OBVIOUS
<1>1. PICK m \in Nat \ S : \A k \in Nat \ S : m <= k
  BY LeastNatural
<1>2. m - 1 \in Nat /\ m - 1 \notin Nat \ S
  BY <1>1
<1>. QED BY <1>1, <1>2

LEMMA MinIsLeast ==
  ASSUME NEW S \in SUBSET Nat, S # {}
  PROVE  Min(S) \in S /\ \A k \in S : Min(S) <= k
<1>1. \E m \in S : \A k \in S : m <= k
  BY LeastNatural
<1>. QED BY <1>1 DEF Min

(* Min picks the least number. *)
LEMMA MinIs ==
  ASSUME NEW S \in SUBSET Nat, NEW m \in S, \A k \in S : m <= k
  PROVE  Min(S) = m
<1>1. Min(S) \in S /\ Min(S) <= m
  <2>. S # {}
    OBVIOUS
  <2>. QED BY MinIsLeast
<1>2. Min(S) \in Nat /\ m \in Nat /\ m <= Min(S)
  BY <1>1
<1>. QED BY <1>1, <1>2

(* Where the delimiter d begins in the text s *)
Occurrences(s, d) == {k \in 1 .. Len(s) + 1 - Len(d) : \A i \in DOMAIN d : s[k + i - 1] = d[i]}

(* What split gives of s from position i on, when f gives what it does behind i *)
From(occ, s, n, f, i) ==
  LET K == {k \in occ : k >= i} IN
        IF K = {} THEN <<SubSeq(s, i, Len(s))>>
        ELSE <<SubSeq(s, i, Min(K) - 1)>> \o f[Min(K) + n]

IsFrom(f, s, d) ==
  f = [i \in 1 .. Len(s) + 1 |-> From(Occurrences(s, d), s, Len(d), f, i)]

(* split is the first value of the recursive function in its definition. *)
LEMMA SplitChoose ==
  ASSUME NEW s, NEW d
  PROVE  split(s, d) = (CHOOSE f : IsFrom(f, s, d))[1]
BY DEF split, IsFrom, From, Occurrences

(* The recursion is well founded: it goes on behind an occurrence. *)
LEMMA SplitExists ==
  ASSUME NEW s \in Texts, NEW d \in Texts, d # <<>>
  PROVE  \E f : IsFrom(f, s, d)
<1>. DEFINE n == Len(s)
            occ == Occurrences(s, d)
            Good(f, j) == /\ f = [i \in 1 .. n + 1 |-> f[i]]
                          /\ \A i \in 1 .. n + 1 : i > n + 1 - j => f[i] = From(occ, s, Len(d), f, i)
            S == {j \in Nat : j <= n + 1 => \E f : Good(f, j)}
<1>0. n \in Nat /\ Len(d) \in Nat /\ Len(d) > 0 /\ occ \subseteq 1 .. n + 1 - Len(d)
  BY DEF Texts, Occurrences
<1>1. 0 \in S
  <2>1. Good([i \in 1 .. n + 1 |-> 0], 0)
    OBVIOUS
  <2>. QED BY <2>1
<1>2. ASSUME NEW j \in S PROVE j + 1 \in S
  <2>. SUFFICES ASSUME j + 1 <= n + 1 PROVE \E f : Good(f, j + 1)
    OBVIOUS
  <2>. PICK f : Good(f, j)
    OBVIOUS
  <2>. DEFINE m == n + 1 - j
              v == From(occ, s, Len(d), f, m)
              g == [i \in 1 .. n + 1 |-> IF i = m THEN v ELSE f[i]]
  <2>1. m \in 1 .. n + 1 /\ j \in Nat
    BY <1>0
  <2>2. ASSUME NEW i \in 1 .. n + 1, i >= m
        PROVE  From(occ, s, Len(d), g, i) = From(occ, s, Len(d), f, i)
    <3>. DEFINE K == {k \in occ : k >= i}
    <3>1. CASE K = {}
      BY <3>1 DEF From
    <3>2. CASE K # {}
      <4>. K \in SUBSET Nat
        BY <1>0
      <4>1. Min(K) \in K
        BY <3>2, MinIsLeast
      <4>2. Min(K) + Len(d) \in 1 .. n + 1 /\ Min(K) + Len(d) > i
        BY <4>1, <1>0, <2>1
      <4>3. g[Min(K) + Len(d)] = f[Min(K) + Len(d)]
        BY <4>2, <2>2, <2>1, <1>0
      <4>. QED BY <4>3 DEF From
    <3>. QED BY <3>1, <3>2
  <2>3. ASSUME NEW i \in 1 .. n + 1, i > n + 1 - (j + 1)
        PROVE  g[i] = From(occ, s, Len(d), g, i)
    <3>1. CASE i = m
      BY <3>1, <2>1, <2>2, <1>0
    <3>2. CASE i # m
      <4>1. i > n + 1 - j
        BY <3>2, <2>3, <2>1, <1>0
      <4>. HIDE DEF v
      <4>2. g[i] = f[i]
        BY <3>2
      <4>3. f[i] = From(occ, s, Len(d), f, i)
        BY <4>1
      <4>. HIDE DEF g
      <4>. QED BY <4>1, <4>2, <4>3, <2>2, <2>1, <1>0
    <3>. QED BY <3>1, <3>2
  <2>. HIDE DEF v
  <2>4. Good(g, j + 1)
    BY <2>3
  <2>. QED BY <2>4
<1>3. S = Nat
  <2>. HIDE DEF Good
  <2>. S \in SUBSET Nat
    OBVIOUS
  <2>. HIDE DEF S
  <2>. QED BY <1>1, <1>2, NaturalsAreAll
<1>4. n + 1 \in S
  <2>. HIDE DEF S
  <2>. QED BY <1>3, <1>0
<1>5. PICK f : Good(f, n + 1)
  BY <1>4, <1>0
<1>6. \A i \in 1 .. n + 1 : f[i] = From(occ, s, Len(d), f, i)
  BY <1>5, <1>0
<1>. QED BY <1>5, <1>6 DEF IsFrom

LEMMA SplitIsFrom ==
  ASSUME NEW s \in Texts, NEW d \in Texts, d # <<>>
  PROVE  \E f : IsFrom(f, s, d) /\ split(s, d) = f[1]
<1>1. IsFrom(CHOOSE f : IsFrom(f, s, d), s, d)
  BY SplitExists
<1>. QED BY <1>1, SplitChoose

(* A text without the delimiter stays whole. *)
LEMMA SplitNone ==
  ASSUME NEW s \in Texts, NEW d \in Texts, d # <<>>, Occurrences(s, d) = {}
  PROVE  split(s, d) = <<s>>
<1>1. PICK f : IsFrom(f, s, d) /\ split(s, d) = f[1]
  BY SplitIsFrom
<1>2. f[1] = From({}, s, Len(d), f, 1)
  BY <1>1 DEF IsFrom, Texts
<1>3. SubSeq(s, 1, Len(s)) = s
  BY DEF Texts
<1>. QED BY <1>1, <1>2, <1>3 DEF From

(* What split gives from q on depends on the text from q on only. *)
LEMMA FromShifts ==
  ASSUME NEW s \in Texts, NEW d \in Texts, d # <<>>, NEW q \in 1 .. Len(s) + 1,
         NEW f, IsFrom(f, s, d), NEW g, IsFrom(g, SubSeq(s, q, Len(s)), d)
  PROVE  f[q] = g[1]
<1>. DEFINE n == Len(s)
            r == SubSeq(s, q, n)
            l == Len(d)
            end == Len(r) + 1
            Bad == {j \in Nat : j < end /\ f[n + 1 - j] # g[end - j]}
<1>1. /\ n \in Nat /\ l \in Nat /\ l > 0 /\ r \in Texts /\ end = n + 2 - q /\ end \in Nat /\ end >= 1
      /\ \A i \in 1 .. Len(r) : r[i] = s[q + i - 1]
  BY DEF Texts
<1>2. Occurrences(s, d) \subseteq 1 .. n + 1 - l /\ Occurrences(r, d) \subseteq 1 .. end - l
  BY <1>1 DEF Occurrences
<1>1a. /\ \A i \in 1 .. n + 1 : f[i] = From(Occurrences(s, d), s, l, f, i)
       /\ \A i \in 1 .. end : g[i] = From(Occurrences(r, d), r, l, g, i)
       /\ (\A i : i \in DOMAIN d <=> i \in 1 .. l) /\ Len(s) = n /\ Len(r) = end - 1
           /\ q \in 1 .. n + 1 /\ s \in Seq(Tokens)
       /\ r \in Seq(Tokens)
  <2>1. Len(SubSeq(s, q, Len(s))) + 1 = end
    OBVIOUS
  <2>2. (\A i : i \in DOMAIN d <=> i \in 1 .. l) /\ Len(r) = end - 1 /\ q \in 1 .. n + 1
         /\ s \in Seq(Tokens) /\ r \in Seq(Tokens)
    BY <1>1 DEF Texts
  <2>3. \A i \in 1 .. n + 1 : f[i] = From(Occurrences(s, d), s, l, f, i)
    BY DEF IsFrom
  <2>4. \A i \in 1 .. end : g[i] = From(Occurrences(r, d), r, l, g, i)
    BY <2>1 DEF IsFrom
  <2>. QED BY <2>2, <2>3, <2>4
<1>1b. ASSUME NEW a \in 1 .. end, NEW b \in 0 .. end - 1
       PROVE  SubSeq(r, a, b) = SubSeq(s, a + q - 1, b + q - 1)
  BY <1>1, <1>1a
<1>. HIDE DEF n, r, l, end
<1>3. ASSUME NEW k \in 1 .. end - l
      PROVE  k \in Occurrences(r, d) <=> k + q - 1 \in Occurrences(s, d)
  <2>1. k + q - 1 \in 1 .. n + 1 - l
    BY <1>1
  <2>2. ASSUME NEW i \in DOMAIN d
        PROVE  r[k + i - 1] = s[k + q - 1 + i - 1]
    <3>1. i \in 1 .. l
      BY <1>1a
    <3>2. k + i - 1 \in 1 .. Len(r)
      BY <3>1, <1>1, <1>1a
    <3>. QED BY <3>1, <3>2, <1>1
  <2>3. k \in 1 .. Len(r) + 1 - Len(d) /\ k + q - 1 \in 1 .. Len(s) + 1 - Len(d)
    BY <2>1, <1>1a, <1>1 DEF l
  <2>. QED BY <2>2, <2>3 DEF Occurrences
<1>4. Bad = {}
  <2>. SUFFICES ASSUME Bad # {} PROVE FALSE
    OBVIOUS
  <2>. Bad \in SUBSET Nat
    OBVIOUS
  <2>1. PICK j \in Bad : \A k \in Bad : j <= k
    <3>. HIDE DEF Bad
    <3>. QED BY LeastNatural
  <2>. DEFINE i == end - j
              K == {k \in Occurrences(r, d) : k >= i}
              KK == {k \in Occurrences(s, d) : k >= i + q - 1}
  <2>2. /\ i \in 1 .. end /\ i + q - 1 = n + 1 - j /\ i + q - 1 \in 1 .. n + 1
        /\ j \in Nat /\ j < end /\ f[i + q - 1] # g[i]
    BY <2>1, <1>1
  <2>3. f[i + q - 1] = From(Occurrences(s, d), s, l, f, i + q - 1)
    BY <2>2, <1>1a
  <2>4. g[i] = From(Occurrences(r, d), r, l, g, i)
    BY <2>2, <1>1a
  <2>5. K \in SUBSET Nat /\ KK \in SUBSET Nat
    BY <1>2
  <2>6. \A k \in KK : k - q + 1 \in K
    BY <1>1, <1>2, <1>3, <2>2
  <2>7. \A k \in K : k + q - 1 \in KK
    BY <1>1, <1>2, <1>3, <2>2
  <2>8. CASE K = {}
    <3>1. KK = {}
      BY <2>6, <2>8
    <3>2. SubSeq(r, i, Len(r)) = SubSeq(s, i + q - 1, n)
      BY <1>1, <1>1a, <1>1b, <2>2
    <3>. QED BY <3>1, <3>2, <2>8, <2>2, <2>3, <2>4, <1>1, <1>1a DEF From
  <2>9. CASE K # {}
    <3>. DEFINE m == Min(K)
    <3>1. m \in K /\ \A k \in K : m <= k
      BY <2>9, <2>5, MinIsLeast
    <3>2. Min(KK) = m + q - 1
      <4>1. m + q - 1 \in KK
        BY <3>1, <2>7
      <4>2. \A k \in KK : m + q - 1 <= k
        <5>. TAKE k \in KK
        <5>. HIDE DEF m, K, KK
        <5>1. m <= k - q + 1 /\ k \in Nat /\ m \in Nat
          BY <3>1, <2>6, <2>5
        <5>. QED BY <5>1
      <4>. HIDE DEF m, KK
      <4>. QED BY <4>1, <4>2, <2>5, MinIs
    <3>3. m \in 1 .. end - l /\ m >= i
      <4>. HIDE DEF m
      <4>. QED BY <3>1, <1>2
    <3>4. KK # {}
      BY <3>1, <2>7
    <3>4a. f[i + q - 1] = <<SubSeq(s, i + q - 1, Min(KK) - 1)>> \o f[Min(KK) + l]
      BY <2>3, <3>4 DEF From
    <3>4b. g[i] = <<SubSeq(r, i, m - 1)>> \o g[m + l]
      BY <2>4, <2>9 DEF From
    <3>. HIDE DEF m, K, KK, i
    <3>5. SubSeq(r, i, m - 1) = SubSeq(s, i + q - 1, m + q - 2)
      <4>1. m - 1 \in 0 .. end - 1 /\ (m - 1) + q - 1 = m + q - 2
        BY <1>1, <2>2, <3>3
      <4>. QED BY <1>1b, <2>2, <4>1
    <3>6. f[m + q - 1 + l] = g[m + l]
      <4>. DEFINE e == end - (m + l)
      <4>1. e \in Nat /\ e < j /\ e < end /\ n + 1 - e = m + q - 1 + l /\ end - e = m + l
        BY <1>1, <2>2, <3>3 DEF i
      <4>2. e \notin Bad
        <5>. HIDE DEF Bad, e
        <5>. QED BY <4>1, <2>1, <2>2
      <4>. HIDE DEF e
      <4>. QED BY <4>1, <4>2
    <3>7. Min(KK) - 1 = m + q - 2 /\ Min(KK) + l = m + q - 1 + l
      BY <3>2, <3>3, <1>1
    <3>. QED BY <3>4a, <3>4b, <3>5, <3>6, <3>7, <2>2
  <2>. QED BY <2>8, <2>9
<1>5. end - 1 \in Nat /\ end - 1 < end /\ n + 1 - (end - 1) = q /\ end - (end - 1) = 1
  BY <1>1
<1>. QED BY <1>4, <1>5

(* split cuts at the first occurrence and goes on behind it. *)
LEMMA SplitFirst ==
  ASSUME NEW s \in Texts, NEW d \in Texts, d # <<>>,
         NEW p \in Occurrences(s, d), \A k \in Occurrences(s, d) : p <= k
  PROVE  split(s, d) = <<SubSeq(s, 1, p - 1)>> \o split(SubSeq(s, p + Len(d), Len(s)), d)
<1>. DEFINE r == SubSeq(s, p + Len(d), Len(s))
            K == {k \in Occurrences(s, d) : k >= 1}
<1>1. /\ Len(s) \in Nat /\ Len(d) \in Nat /\ Len(d) > 0 /\ p \in 1 .. Len(s) + 1 - Len(d) /\ r \in Texts
      /\ Occurrences(s, d) \subseteq 1 .. Len(s) + 1 - Len(d)
  BY DEF Texts, Occurrences
<1>2. PICK f : IsFrom(f, s, d) /\ split(s, d) = f[1]
  BY SplitIsFrom
<1>3. PICK g : IsFrom(g, r, d) /\ split(r, d) = g[1]
  BY SplitIsFrom, <1>1
<1>4. f[p + Len(d)] = g[1]
  BY <1>1, <1>2, <1>3, FromShifts
<1>5. f[1] = From(Occurrences(s, d), s, Len(d), f, 1)
  BY <1>1, <1>2 DEF IsFrom
<1>6. K \in SUBSET Nat /\ p \in K /\ \A k \in K : p <= k
  BY <1>1
<1>7. Min(K) = p
  BY <1>6, MinIs
<1>. QED BY <1>2, <1>3, <1>4, <1>5, <1>6, <1>7 DEF From

(* Positions in a concatenation *)
LEMMA TextConcat ==
  ASSUME NEW a \in Texts, NEW b \in Texts
  PROVE  /\ a \o b \in Texts /\ Len(a) \in Nat /\ Len(b) \in Nat
         /\ Len(a \o b) = Len(a) + Len(b) /\ (\A i : i \in DOMAIN a <=> i \in 1 .. Len(a))
         /\ \A i \in 1 .. Len(a) + Len(b) : (a \o b)[i] = IF i <= Len(a) THEN a[i] ELSE b[i - Len(a)]
         /\ \A i \in 1 .. Len(a) : (a \o b)[i] = a[i]
         /\ \A i \in 1 .. Len(b) : (a \o b)[Len(a) + i] = b[i]
BY DEF Texts

LEMMA CutConcat ==
  ASSUME NEW a \in Texts, NEW b \in Texts
  PROVE  /\ SubSeq(a \o b, 1, Len(a)) = a
         /\ SubSeq(a \o b, Len(a) + 1, Len(a) + Len(b)) = b
BY DEF Texts

LEMMA OccurrenceOfOne ==
  ASSUME NEW s \in Texts, NEW c
  PROVE  Occurrences(s, <<c>>) = {k \in 1 .. Len(s) : s[k] = c}
<1>1. Len(s) \in Nat /\ Len(<<c>>) = 1 /\ DOMAIN <<c>> = {1} /\ <<c>>[1] = c
  BY DEF Texts
<1>2. \A k \in 1 .. Len(s) : s[k + 1 - 1] = s[k]
  BY <1>1
<1>. QED BY <1>1, <1>2 DEF Occurrences

LEMMA OccurrenceOfTwo ==
  ASSUME NEW s \in Texts, NEW c
  PROVE  Occurrences(s, <<c, c>>) = {k \in 1 .. Len(s) - 1 : s[k] = c /\ s[k + 1] = c}
<1>1. Len(s) \in Nat /\ Len(<<c, c>>) = 2 /\ DOMAIN <<c, c>> = {1, 2} /\ <<c, c>>[1] = c
       /\ <<c, c>>[2] = c
  BY DEF Texts
<1>2. \A k \in 1 .. Len(s) : s[k + 1 - 1] = s[k] /\ s[k + 2 - 1] = s[k + 1]
  BY <1>1
<1>. QED BY <1>1, <1>2 DEF Occurrences

(* Lines, and fields of a line: a text that keeps the separator out is one piece, *)
LEMMA SplitWhole ==
  ASSUME NEW a \in Texts, NEW c \in Tokens, c \notin ToSet(a)
  PROVE  split(a, <<c>>) = <<a>>
<1>1. Occurrences(a, <<c>>) = {}
  BY OccurrenceOfOne DEF ToSet, Texts
<1>2. <<c>> \in Texts /\ <<c>> # <<>>
  BY DEF Texts
<1>. QED BY <1>1, <1>2, SplitNone

(* and the piece before a separator is cut off. *)
LEMMA SplitCut ==
  ASSUME NEW a \in Texts, NEW c \in Tokens, c \notin ToSet(a), NEW b \in Texts
  PROVE  split(a \o <<c>> \o b, <<c>>) = <<a>> \o split(b, <<c>>)
<1>. DEFINE d == <<c>>
            s == a \o <<c>> \o b
            p == Len(a) + 1
<1>1. d \in Texts /\ d # <<>> /\ Len(d) = 1 /\ a \o d \in Texts /\ s \in Texts
  BY DEF Texts
<1>2. Len(a) \in Nat /\ Len(b) \in Nat /\ Len(a \o d) = p /\ Len(s) = p + Len(b)
       /\ (\A i : i \in DOMAIN a <=> i \in 1 .. Len(a))
  BY <1>1, TextConcat
<1>3. s[p] = c /\ \A i \in 1 .. Len(a) : s[i] = a[i]
  <2>. DEFINE t == a \o d
  <2>1. t[p] = c /\ \A i \in 1 .. Len(a) : t[i] = a[i]
    BY <1>1, <1>2 DEF Texts
  <2>2. t \in Texts /\ Len(t) = p /\ s = t \o b
    BY <1>1, <1>2
  <2>. HIDE DEF t, s, p
  <2>3. \A i \in 1 .. Len(t) : s[i] = t[i]
    BY <2>2, TextConcat
  <2>4. p = Len(a) + 1
    BY DEF p
  <2>. QED BY <2>1, <2>2, <2>3, <2>4, <1>2
<1>4. Occurrences(s, d) = {k \in 1 .. Len(s) : s[k] = c}
  BY <1>1, OccurrenceOfOne
<1>. HIDE DEF s
<1>5. p \in Occurrences(s, d) /\ \A k \in Occurrences(s, d) : p <= k
  <2>. SUFFICES ASSUME NEW k \in Occurrences(s, d), k < p PROVE FALSE
    BY <1>2, <1>3, <1>4
  <2>1. k \in 1 .. Len(a) /\ s[k] = c
    BY <1>2, <1>4
  <2>2. a[k] = c /\ k \in DOMAIN a
    BY <2>1, <1>3, <1>2
  <2>. QED BY <2>2 DEF ToSet
<1>6. split(s, d) = <<SubSeq(s, 1, p - 1)>> \o split(SubSeq(s, p + Len(d), Len(s)), d)
  <2>. HIDE DEF d, p
  <2>. QED BY <1>1, <1>5, SplitFirst
<1>7. SubSeq(s, 1, p - 1) = a
  BY <1>1, <1>2, <1>3 DEF Texts
<1>8. SubSeq(s, p + 1, Len(s)) = b
  BY <1>1, <1>2, CutConcat DEF s
<1>. QED BY <1>1, <1>6, <1>7, <1>8 DEF s

(* There is always a piece, and each piece is a text. *)
LEMMA SplitType ==
  ASSUME NEW s \in Texts, NEW d \in Texts, d # <<>>
  PROVE  split(s, d) \in Seq(Texts) \ {<<>>}
<1>. DEFINE Good(t) == split(t, d) \in Seq(Texts) \ {<<>>}
            Bad == {n \in Nat : \E t \in Texts : Len(t) = n /\ ~Good(t)}
<1>1. Bad = {}
  <2>. SUFFICES ASSUME Bad # {} PROVE FALSE
    OBVIOUS
  <2>1. PICK n \in Bad : \A k \in Bad : n <= k
    <3>. Bad \in SUBSET Nat
      OBVIOUS
    <3>. HIDE DEF Bad
    <3>. QED BY LeastNatural
  <2>2. PICK t \in Texts : Len(t) = n /\ ~Good(t)
    BY <2>1
  <2>3. CASE Occurrences(t, d) = {}
    <3>1. split(t, d) = <<t>>
      BY <2>3, SplitNone
    <3>. QED BY <2>2, <3>1
  <2>4. CASE Occurrences(t, d) # {}
    <3>. DEFINE occ == Occurrences(t, d)
                p == Min(occ)
                r == SubSeq(t, p + Len(d), Len(t))
    <3>1. occ \in SUBSET Nat /\ occ \subseteq 1 .. Len(t) + 1 - Len(d) /\ Len(t) \in Nat
           /\ Len(d) \in Nat /\ Len(d) > 0
      BY DEF Occurrences, Texts
    <3>2. p \in occ /\ \A k \in occ : p <= k
      <4>. occ # {}
        BY <2>4
      <4>. HIDE DEF occ
      <4>. QED BY <3>1, MinIsLeast
    <3>3. split(t, d) = <<SubSeq(t, 1, p - 1)>> \o split(r, d)
      <4>. HIDE DEF p
      <4>. QED BY <3>2, SplitFirst
    <3>4. p \in 1 .. Len(t) + 1 - Len(d)
      BY <3>1, <3>2
    <3>. HIDE DEF p
    <3>5. SubSeq(t, 1, p - 1) \in Texts /\ r \in Texts /\ Len(r) \in Nat /\ Len(r) < n
      BY <3>4, <3>1, <2>2 DEF Texts
    <3>6. Good(r)
      <4>. HIDE DEF Good, r
      <4>1. Len(r) \notin Bad
        BY <3>5, <2>1
      <4>. QED BY <4>1, <3>5
    <3>. HIDE DEF r
    <3>. QED BY <3>3, <3>5, <3>6, <2>2
  <2>. QED BY <2>3, <2>4
<1>. QED BY <1>1 DEF Texts

-------------------------------------------------------------------------------
(* Lines and blank lines. *)

LEMMA NLIsToken == NL \in Tokens /\ Colon \in Tokens /\ Underscore \in Tokens
BY DEF Tokens, Separators

LEMMA AddToken ==
  ASSUME NEW a \in Texts, NEW c \in Tokens
  PROVE  /\ a \o <<c>> \in Texts /\ Len(a) \in Nat /\ Len(a \o <<c>>) = Len(a) + 1
         /\ (a \o <<c>>)[Len(a) + 1] = c
         /\ \A i \in 1 .. Len(a) : (a \o <<c>>)[i] = a[i]
BY DEF Texts

Blank == <<NL, NL>>

(* No blank line: no two line feeds behind each other *)
Blankless(t) ==
  /\ t \in Texts
  /\ \A i \in 1 .. Len(t) - 1 : ~(t[i] = NL /\ t[i + 1] = NL)

(* Whole lines, none of them empty *)
FullLines(t) ==
  /\ Blankless(t)
  /\ t # <<>> => t[1] # NL /\ t[Len(t)] = NL

(* A text without a blank line is one piece. *)
LEMMA SplitNoBlank ==
  ASSUME NEW t, Blankless(t)
  PROVE  split(t, Blank) = <<t>>
<1>1. Occurrences(t, Blank) = {k \in 1 .. Len(t) - 1 : t[k] = NL /\ t[k + 1] = NL}
  BY OccurrenceOfTwo DEF Blankless, Blank
<1>2. Occurrences(t, Blank) = {}
  BY <1>1 DEF Blankless
<1>3. Blank \in Texts /\ Blank # <<>>
  BY NLIsToken DEF Texts, Blank
<1>. QED BY <1>2, <1>3, SplitNone DEF Blankless

(* The cut comes at the first blank line. *)
LEMMA SplitBlank ==
  ASSUME NEW a, Blankless(a), a # <<>>, a[Len(a)] # NL, NEW b \in Texts
  PROVE  split(a \o <<NL>> \o <<NL>> \o b, Blank) = <<a>> \o split(b, Blank)
<1>. DEFINE u == a \o <<NL>>
            v == u \o <<NL>>
            s == v \o b
            p == Len(a) + 1
<1>1. Blank \in Texts /\ Blank # <<>> /\ Len(Blank) = 2
  BY NLIsToken DEF Texts, Blank
<1>2. a \in Texts /\ Len(a) \in Nat /\ Len(a) > 0
       /\ (\A i : i \in DOMAIN a <=> i \in 1 .. Len(a)) /\ Len(b) \in Nat
  BY DEF Texts, Blankless
<1>3. u \in Texts /\ Len(u) = p /\ u[p] = NL /\ \A i \in 1 .. Len(a) : u[i] = a[i]
  BY <1>2, NLIsToken, AddToken
<1>. HIDE DEF u
<1>4. v \in Texts /\ Len(v) = p + 1 /\ v[p + 1] = NL /\ \A i \in 1 .. p : v[i] = u[i]
  <2>1. v \in Texts /\ Len(v) = Len(u) + 1 /\ v[Len(u) + 1] = NL /\ \A i \in 1 .. Len(u) : v[i] = u[i]
    BY <1>3, NLIsToken, AddToken
  <2>. HIDE DEF v
  <2>. QED BY <1>3, <2>1
<1>. HIDE DEF v
<1>5. s \in Texts /\ Len(s) = p + 1 + Len(b) /\ \A i \in 1 .. p + 1 : s[i] = v[i]
  <2>1. v \o b \in Texts /\ Len(v \o b) = Len(v) + Len(b) /\ \A i \in 1 .. Len(v) : (v \o b)[i] = v[i]
    BY <1>4, TextConcat
  <2>. QED BY <1>4, <2>1
<1>. HIDE DEF s
<1>6. s[p] = NL /\ s[p + 1] = NL /\ \A i \in 1 .. Len(a) : s[i] = a[i]
  BY <1>2, <1>3, <1>4, <1>5
<1>7. Occurrences(s, Blank) = {k \in 1 .. Len(s) - 1 : s[k] = NL /\ s[k + 1] = NL}
  BY <1>5, OccurrenceOfTwo DEF Blank
<1>8. p \in Occurrences(s, Blank)
  BY <1>2, <1>5, <1>6, <1>7
<1>9. ASSUME NEW k \in Occurrences(s, Blank), k < p
      PROVE  FALSE
  <2>0. k \in Nat
    BY <1>2, <1>5, <1>7
  <2>1. k \in 1 .. Len(a) /\ s[k] = NL /\ s[k + 1] = NL
    BY <1>2, <1>7, <1>9
  <2>2. CASE k = Len(a)
    BY <2>1, <2>2, <1>6
  <2>3. CASE k # Len(a)
    <3>1. k \in 1 .. Len(a) - 1 /\ a[k] = NL /\ a[k + 1] = NL
      <4>1. k + 1 \in 1 .. Len(a) /\ k \in 1 .. Len(a) - 1
        BY <2>0, <2>1, <2>3, <1>2
      <4>2. s[k] = a[k] /\ s[k + 1] = a[k + 1]
        BY <4>1, <2>1, <1>6
      <4>. QED BY <4>1, <4>2, <2>1
    <3>. QED BY <3>1 DEF Blankless
  <2>. QED BY <2>2, <2>3
<1>10. \A k \in Occurrences(s, Blank) : p <= k
  BY <1>2, <1>7, <1>9
<1>. HIDE DEF p
<1>11. split(s, Blank) = <<SubSeq(s, 1, p - 1)>> \o split(SubSeq(s, p + 2, Len(s)), Blank)
  BY <1>1, <1>5, <1>8, <1>10, SplitFirst
<1>12. SubSeq(s, 1, p - 1) = a
  BY <1>2, <1>5, <1>6 DEF Texts, p
<1>13. SubSeq(s, p + 2, Len(s)) = b
  BY <1>2, <1>4, <1>5, CutConcat DEF s, p
<1>. QED BY <1>11, <1>12, <1>13 DEF s, v, u

(* A text that is made of these lines, whatever follows *)
IsLines(t, ls) ==
  /\ t \in Texts
  /\ ls \in Seq(Texts)
  /\ \A rest \in Texts : split(t \o rest, <<NL>>) = ls \o split(rest, <<NL>>)

LEMMA NoLines == IsLines(<<>>, <<>>) /\ FullLines(<<>>)
<1>1. <<>> \in Texts /\ <<>> \in Seq(Texts) /\ Len(<<>>) = 0 /\ 1 .. 0 - 1 = {}
  BY DEF Texts
<1>2. \A rest \in Texts : <<>> \o rest = rest
  BY DEF Texts
<1>3. \A rest \in Texts : <<>> \o split(rest, <<NL>>) = split(rest, <<NL>>)
  BY SplitType, NLIsToken DEF Texts
<1>. QED BY <1>1, <1>2, <1>3 DEF IsLines, FullLines, Blankless

(* A text without line feeds makes one line, *)
LEMMA OneLine ==
  ASSUME NEW a \in Texts, NL \notin ToSet(a)
  PROVE  IsLines(Line(a), <<a>>) /\ Line(a) \in Texts /\ (a # <<>> => FullLines(Line(a)))
<1>1. Line(a) \in Texts /\ <<a>> \in Seq(Texts)
  BY NLIsToken DEF Line, Texts
<1>2. \A rest \in Texts : split(Line(a) \o rest, <<NL>>) = <<a>> \o split(rest, <<NL>>)
  BY SplitCut, NLIsToken DEF Line
<1>3. ASSUME a # <<>> PROVE FullLines(Line(a))
  <2>1. /\ Len(a) \in Nat /\ Len(a) > 0 /\ Len(Line(a)) = Len(a) + 1 /\ Line(a)[Len(a) + 1] = NL
        /\ \A i \in 1 .. Len(a) : Line(a)[i] = a[i]
    BY <1>3, NLIsToken DEF Line, Texts
  <2>2. \A i \in 1 .. Len(a) : a[i] # NL
    BY DEF ToSet, Texts
  <2>. QED BY <1>1, <2>1, <2>2 DEF FullLines, Blankless
<1>. QED BY <1>1, <1>2, <1>3 DEF IsLines

(* and texts of lines one behind the other make the lines of both. *)
LEMMA MoreLines ==
  ASSUME NEW s, NEW t, NEW ls, NEW ms, IsLines(s, ls), IsLines(t, ms)
  PROVE  IsLines(s \o t, ls \o ms)
<1>1. s \in Texts /\ t \in Texts /\ s \o t \in Texts /\ ls \in Seq(Texts) /\ ms \in Seq(Texts)
       /\ ls \o ms \in Seq(Texts)
  BY DEF IsLines, Texts
<1>2. ASSUME NEW rest \in Texts
      PROVE  split((s \o t) \o rest, <<NL>>) = (ls \o ms) \o split(rest, <<NL>>)
  <2>1. (s \o t) \o rest = s \o (t \o rest) /\ t \o rest \in Texts
    BY <1>1 DEF Texts
  <2>2. split(s \o (t \o rest), <<NL>>) = ls \o split(t \o rest, <<NL>>)
    BY <2>1 DEF IsLines
  <2>3. split(t \o rest, <<NL>>) = ms \o split(rest, <<NL>>)
    BY DEF IsLines
  <2>4. split(rest, <<NL>>) \in Seq(Texts)
    <3>. <<NL>> \in Texts /\ <<NL>> # <<>>
      BY NLIsToken DEF Texts
    <3>. QED BY SplitType
  <2>5. ls \o (ms \o split(rest, <<NL>>)) = (ls \o ms) \o split(rest, <<NL>>)
    BY <1>1, <2>4
  <2>. QED BY <2>1, <2>2, <2>3, <2>5
<1>. QED BY <1>1, <1>2 DEF IsLines

LEMMA BlanklessConcat ==
  ASSUME NEW s, NEW t, FullLines(s), Blankless(t), t # <<>> => t[1] # NL
  PROVE  Blankless(s \o t)
<1>1. s \in Texts /\ t \in Texts
  BY DEF FullLines, Blankless
<1>2. ASSUME NEW i \in 1 .. Len(s \o t) - 1, (s \o t)[i] = NL, (s \o t)[i + 1] = NL
      PROVE  FALSE
  <2>1. i \in 1 .. Len(s) + Len(t) - 1 /\ Len(s) \in Nat /\ Len(t) \in Nat
    BY <1>1, TextConcat
  <2>2. CASE i + 1 <= Len(s)
    <3>1. i \in 1 .. Len(s) - 1 /\ s[i] = NL /\ s[i + 1] = NL
      BY <1>1, <1>2, <2>1, <2>2, TextConcat
    <3>. QED BY <3>1 DEF FullLines, Blankless
  <2>3. CASE i = Len(s)
    <3>1. (s \o t)[i + 1] = t[1] /\ t # <<>>
      BY <1>1, <2>1, <2>3, TextConcat DEF Texts
    <3>. QED BY <3>1, <1>2
  <2>4. CASE i > Len(s)
    <3>1. i - Len(s) \in 1 .. Len(t) - 1 /\ t[i - Len(s)] = NL /\ t[i - Len(s) + 1] = NL
      <4>. DEFINE k == i - Len(s)
      <4>1. k \in 1 .. Len(t) - 1 /\ i = Len(s) + k /\ i + 1 = Len(s) + (k + 1)
        BY <2>1, <2>4
      <4>. HIDE DEF k
      <4>2. t[k] = NL /\ t[k + 1] = NL
        BY <4>1, <1>1, <1>2, <2>1 DEF Texts
      <4>. QED BY <4>1, <4>2 DEF k
    <3>. QED BY <3>1 DEF Blankless
  <2>. QED BY <2>1, <2>2, <2>3, <2>4
<1>3. s \o t \in Texts
  BY <1>1, TextConcat
<1>. QED BY <1>2, <1>3 DEF Blankless

(* No blank line comes of lines that are not empty. *)
LEMMA MoreFullLines ==
  ASSUME NEW s, NEW t, FullLines(s), FullLines(t)
  PROVE  FullLines(s \o t)
<1>1. s \in Texts /\ t \in Texts
  BY DEF FullLines, Blankless
<1>2. Blankless(s \o t)
  BY BlanklessConcat DEF FullLines
<1>3. CASE t = <<>>
  BY <1>1, <1>3 DEF Texts
<1>4. CASE s = <<>>
  BY <1>1, <1>4 DEF Texts
<1>5. CASE s # <<>> /\ t # <<>>
  <2>1. Len(s) \in Nat /\ Len(t) \in Nat /\ Len(s) > 0 /\ Len(t) > 0
    BY <1>1, <1>5 DEF Texts
  <2>2. (s \o t)[1] = s[1] /\ (s \o t)[Len(s) + Len(t)] = t[Len(t)] /\ Len(s \o t) = Len(s) + Len(t)
    BY <2>1, <1>1 DEF Texts
  <2>. QED BY <1>2, <1>5, <2>2 DEF FullLines
<1>. QED BY <1>3, <1>4, <1>5

(* split gives one more, empty, line behind the last line feed. *)
LEMMA LinesSplit ==
  ASSUME NEW t, NEW ls, IsLines(t, ls)
  PROVE  split(t, <<NL>>) = ls \o <<<<>>>>
<1>1. <<>> \in Texts /\ NL \notin ToSet(<<>>)
  BY DEF Texts, ToSet
<1>2. split(<<>>, <<NL>>) = << <<>> >>
  BY <1>1, SplitWhole, NLIsToken
<1>3. split(t \o <<>>, <<NL>>) = ls \o split(<<>>, <<NL>>)
  BY <1>1 DEF IsLines
<1>4. t \o <<>> = t
  BY DEF IsLines, Texts
<1>. QED BY <1>2, <1>3, <1>4

-------------------------------------------------------------------------------
(* The lines of a map. *)

(* The line of an entry, and the lines of a map in the order that FoldSet takes them *)
KeyLine(map, k) == Line(k \o <<Colon>> \o map[k])

KeyLines(map, S) == FoldSet(LAMBDA k, text : text \o KeyLine(map, k), Empty, S)

LEMMA HeaderLinesAreKeyLines ==
  ASSUME NEW map
  PROVE  HeaderLines(map) = KeyLines(map, DOMAIN map) /\ UpdateLines(map) = KeyLines(map, DOMAIN map)
BY DEF HeaderLines, UpdateLines, KeyLines, KeyLine, FoldSet, MapThenFoldSet

(* FoldSet takes the elements as CHOOSE gives them: its recursive function. *)
Taken(S) == CHOOSE x \in S : TRUE

Iterate(map, f, s) == IF s = {} THEN Empty ELSE f[s \ {Taken(s)}] \o KeyLine(map, Taken(s))

IsIteration(f, map, S) == f = [s \in SUBSET S |-> Iterate(map, f, s)]

(* FoldSet over the keys of a map, as the recursion it is *)
LEMMA KeyLinesChoose ==
  ASSUME NEW map, NEW S
  PROVE  KeyLines(map, S) = (CHOOSE f : IsIteration(f, map, S))[S]
BY DEF KeyLines, IsIteration, Iterate, Taken, FoldSet, MapThenFoldSet

LEMMA TakenSmaller ==
  ASSUME NEW S, IsFiniteSet(S), NEW s \in SUBSET S, s # {}
  PROVE  /\ Taken(s) \in s /\ s \ {Taken(s)} \in SUBSET S
         /\ Cardinality(s) \in Nat /\ Cardinality(s) > 0
         /\ Cardinality(s \ {Taken(s)}) = Cardinality(s) - 1
<1>1. Taken(s) \in s
  BY DEF Taken
<1>2. IsFiniteSet(s) /\ Cardinality(s) \in Nat
  BY FS_Subset, FS_CardinalityType
<1>3. Cardinality(s \ {Taken(s)}) = Cardinality(s) - 1
  BY <1>1, <1>2, FS_RemoveElement
<1>4. Cardinality(s) # 0
  BY <1>1, <1>2, FS_EmptySet
<1>. QED BY <1>1, <1>2, <1>3, <1>4

LEMMA IterationExists ==
  ASSUME NEW map, NEW S, IsFiniteSet(S)
  PROVE  \E f : IsIteration(f, map, S)
<1>. DEFINE Good(f, n) == /\ f = [s \in SUBSET S |-> f[s]]
                          /\ \A s \in SUBSET S : Cardinality(s) < n => f[s] = Iterate(map, f, s)
            N == {n \in Nat : \E f : Good(f, n)}
<1>0. \A s \in SUBSET S : Cardinality(s) \in Nat
  BY FS_Subset, FS_CardinalityType
<1>1. 0 \in N
  <2>1. Good([s \in SUBSET S |-> Empty], 0)
    BY <1>0
  <2>. QED BY <2>1
<1>2. ASSUME NEW n \in N PROVE n + 1 \in N
  <2>. PICK f : Good(f, n)
    OBVIOUS
  <2>. DEFINE g == [s \in SUBSET S |-> Iterate(map, f, s)]
  <2>1. ASSUME NEW s \in SUBSET S, Cardinality(s) < n + 1
        PROVE  g[s] = Iterate(map, g, s)
    <3>1. CASE s = {}
      BY <3>1 DEF Iterate
    <3>2. CASE s # {}
      <4>. DEFINE t == s \ {Taken(s)}
      <4>1. t \in SUBSET S /\ Cardinality(t) < n
        BY <3>2, <2>1, TakenSmaller
      <4>2. g[t] = f[t]
        BY <4>1
      <4>. QED BY <4>2, <3>2 DEF Iterate
    <3>. QED BY <3>1, <3>2
  <2>2. g = [s \in SUBSET S |-> g[s]]
    OBVIOUS
  <2>. HIDE DEF g
  <2>3. Good(g, n + 1)
    BY <2>1, <2>2
  <2>. HIDE DEF Good
  <2>. QED BY <2>3
<1>3. Cardinality(S) + 1 \in N
  <2>. N \in SUBSET Nat
    OBVIOUS
  <2>. HIDE DEF N
  <2>1. N = Nat
    BY <1>1, <1>2, NaturalsAreAll
  <2>. QED BY <2>1, <1>0
<1>4. PICK f : Good(f, Cardinality(S) + 1)
  BY <1>3
<1>5. \A s \in SUBSET S : f[s] = Iterate(map, f, s)
  <2>. TAKE s \in SUBSET S
  <2>1. Cardinality(s) <= Cardinality(S)
    BY FS_Subset
  <2>2. Cardinality(s) \in Nat /\ Cardinality(S) \in Nat
    BY <1>0, FS_CardinalityType
  <2>3. Cardinality(s) < Cardinality(S) + 1
    BY <2>1, <2>2
  <2>. QED BY <1>4, <2>3
<1>. QED BY <1>4, <1>5 DEF IsIteration

(* The function over a smaller set agrees with the one over a larger. *)
LEMMA IterationIsOne ==
  ASSUME NEW map, NEW S, IsFiniteSet(S), NEW T \in SUBSET S,
         NEW f, IsIteration(f, map, S), NEW g, IsIteration(g, map, T)
  PROVE  f[T] = g[T]
<1>. DEFINE Bad == {n \in Nat : \E s \in SUBSET T : Cardinality(s) = n /\ f[s] # g[s]}
<1>1. SUFFICES ASSUME Bad # {} PROVE FALSE
  <2>1. Cardinality(T) \in Nat
    BY FS_Subset, FS_CardinalityType
  <2>. QED BY <2>1
<1>2. PICK n \in Bad : \A k \in Bad : n <= k
  <2>. Bad \in SUBSET Nat
    OBVIOUS
  <2>. HIDE DEF Bad
  <2>. QED BY <1>1, LeastNatural
<1>3. PICK s \in SUBSET T : Cardinality(s) = n /\ f[s] # g[s]
  BY <1>2
<1>4. f[s] = Iterate(map, f, s) /\ g[s] = Iterate(map, g, s)
  BY DEF IsIteration
<1>5. s # {}
  BY <1>3, <1>4 DEF Iterate
<1>. DEFINE t == s \ {Taken(s)}
<1>6. t \in SUBSET T /\ Cardinality(t) = n - 1 /\ n - 1 \in Nat
  BY <1>3, <1>5, TakenSmaller
<1>7. f[t] = g[t]
  BY <1>2, <1>6
<1>. QED BY <1>3, <1>4, <1>5, <1>7 DEF Iterate

LEMMA NoKeyLines ==
  ASSUME NEW map
  PROVE  KeyLines(map, {}) = Empty
<1>1. \E f : IsIteration(f, map, {})
  BY FS_EmptySet, IterationExists
<1>2. IsIteration(CHOOSE f : IsIteration(f, map, {}), map, {})
  BY <1>1
<1>. QED BY <1>2, KeyLinesChoose DEF IsIteration, Iterate

(* The last line is that of the key which is taken first. *)
LEMMA KeyLinesStep ==
  ASSUME NEW map, NEW S, IsFiniteSet(S), S # {}
  PROVE  /\ Taken(S) \in S
         /\ KeyLines(map, S) = KeyLines(map, S \ {Taken(S)}) \o KeyLine(map, Taken(S))
<1>. DEFINE T == S \ {Taken(S)}
<1>0. Taken(S) \in S /\ IsFiniteSet(T)
  BY TakenSmaller, FS_Subset
<1>1. PICK f : IsIteration(f, map, S) /\ KeyLines(map, S) = f[S]
  <2>1. IsIteration(CHOOSE f : IsIteration(f, map, S), map, S)
    BY IterationExists
  <2>. QED BY <2>1, KeyLinesChoose
<1>2. PICK g : IsIteration(g, map, T) /\ KeyLines(map, T) = g[T]
  <2>1. IsIteration(CHOOSE g : IsIteration(g, map, T), map, T)
    BY <1>0, IterationExists
  <2>. QED BY <2>1, KeyLinesChoose
<1>3. f[T] = g[T]
  BY <1>1, <1>2, IterationIsOne
<1>4. f[S] = f[T] \o KeyLine(map, Taken(S))
  BY <1>1 DEF IsIteration, Iterate
<1>. QED BY <1>0, <1>1, <1>2, <1>3, <1>4

LEMMA TokensOfConcat ==
  ASSUME NEW a \in Texts, NEW b \in Texts
  PROVE  ToSet(a \o b) = ToSet(a) \cup ToSet(b)
<1>0. Len(a) \in Nat /\ Len(b) \in Nat
  BY DEF Texts
<1>1. \A t \in Texts : \A x : x \in ToSet(t) <=> \E i \in 1 .. Len(t) : t[i] = x
  BY DEF ToSet, Texts
<1>2. a \o b \in Texts /\ Len(a \o b) = Len(a) + Len(b)
  BY TextConcat
<1>3. ASSUME NEW x \in ToSet(a) PROVE x \in ToSet(a \o b)
  <2>1. PICK i \in 1 .. Len(a) : a[i] = x
    BY <1>1
  <2>2. (a \o b)[i] = a[i] /\ i \in 1 .. Len(a \o b)
    BY <1>0, <1>2 DEF Texts
  <2>. QED BY <1>1, <1>2, <2>1, <2>2
<1>4. ASSUME NEW x \in ToSet(b) PROVE x \in ToSet(a \o b)
  <2>1. PICK i \in 1 .. Len(b) : b[i] = x
    BY <1>1
  <2>2. (a \o b)[Len(a) + i] = b[i] /\ Len(a) + i \in 1 .. Len(a \o b)
    BY <1>0, <1>2 DEF Texts
  <2>. QED BY <1>1, <1>2, <2>1, <2>2
<1>5. ASSUME NEW x \in ToSet(a \o b) PROVE x \in ToSet(a) \cup ToSet(b)
  <2>1. PICK i \in 1 .. Len(a) + Len(b) : (a \o b)[i] = x
    BY <1>1, <1>2
  <2>2. CASE i <= Len(a)
    <3>1. i \in 1 .. Len(a) /\ (a \o b)[i] = a[i]
      BY <1>0, <2>2 DEF Texts
    <3>. QED BY <1>1, <2>1, <3>1
  <2>3. CASE i > Len(a)
    <3>1. i - Len(a) \in 1 .. Len(b) /\ (a \o b)[i] = b[i - Len(a)]
      BY <1>0, <2>3 DEF Texts
    <3>. QED BY <1>1, <2>1, <3>1
  <2>. QED BY <2>2, <2>3, <1>0
<1>. QED BY <1>3, <1>4, <1>5

LEMMA TokensOfOne == \A c : ToSet(<<c>>) = {c}
BY DEF ToSet

(* The keys of a map in some order *)
Enumerates(ks, S) ==
  /\ ks \in Seq(S)
  /\ \A x \in S : \E i \in 1 .. Len(ks) : ks[i] = x
  /\ \A i, j \in 1 .. Len(ks) : ks[i] = ks[j] => i = j

KeyLineText(map, k) == k \o <<Colon>> \o map[k]

LinesOf(map, ks) == [i \in 1 .. Len(ks) |-> KeyLineText(map, ks[i])]

(* A map whose entries keep within their lines *)
InLines(map) ==
  /\ IsFiniteSet(DOMAIN map)
  /\ \A k \in DOMAIN map : /\ k \in Texts /\ map[k] \in Texts
                           /\ NL \notin ToSet(k) /\ NL \notin ToSet(map[k])

(* An entry that has no line feed makes one line. *)
LEMMA KeyLineTextInLine ==
  ASSUME NEW map, InLines(map), NEW k \in DOMAIN map
  PROVE  /\ KeyLineText(map, k) \in Texts /\ NL \notin ToSet(KeyLineText(map, k))
         /\ KeyLineText(map, k) # <<>>
<1>1. k \in Texts /\ map[k] \in Texts /\ NL \notin ToSet(k) /\ NL \notin ToSet(map[k])
  BY DEF InLines
<1>2. k \o <<Colon>> \in Texts /\ <<Colon>> \in Texts /\ KeyLineText(map, k) \in Texts
  BY <1>1, NLIsToken DEF Texts, KeyLineText
<1>3. ToSet(KeyLineText(map, k)) = ToSet(k) \cup {Colon} \cup ToSet(map[k])
  BY <1>1, <1>2, TokensOfConcat, TokensOfOne DEF KeyLineText
<1>4. NL # Colon
  BY DEF NL, Colon
<1>5. ToSet(KeyLineText(map, k)) # {} /\ ToSet(<<>>) = {}
  BY <1>3 DEF ToSet
<1>. QED BY <1>1, <1>2, <1>3, <1>4, <1>5

LEMMA EnumeratesMore ==
  ASSUME NEW T, NEW k \in T, NEW ks, Enumerates(ks, T \ {k})
  PROVE  Enumerates(ks \o <<k>>, T)
<1>. DEFINE m == ks \o <<k>>
<1>1. /\ m \in Seq(T) /\ Len(m) = Len(ks) + 1 /\ Len(ks) \in Nat /\ m[Len(ks) + 1] = k
      /\ \A i \in 1 .. Len(ks) : m[i] = ks[i] /\ ks[i] \in T \ {k}
  <2>1. ks \in Seq(T \ {k}) /\ ks \in Seq(T)
    BY DEF Enumerates
  <2>. QED BY <2>1
<1>. HIDE DEF m
<1>2. ASSUME NEW x \in T PROVE \E i \in 1 .. Len(m) : m[i] = x
  <2>1. CASE x = k
    BY <2>1, <1>1
  <2>2. CASE x # k
    <3>1. PICK i \in 1 .. Len(ks) : ks[i] = x
      BY <2>2 DEF Enumerates
    <3>2. i \in 1 .. Len(m) /\ m[i] = x
      BY <3>1, <1>1
    <3>. QED BY <3>2
  <2>. QED BY <2>1, <2>2
<1>3. ASSUME NEW i \in 1 .. Len(m), NEW j \in 1 .. Len(m), m[i] = m[j] PROVE i = j
  <2>1. (i \in 1 .. Len(ks) \/ i = Len(ks) + 1) /\ (j \in 1 .. Len(ks) \/ j = Len(ks) + 1)
    BY <1>1
  <2>2. \A h \in 1 .. Len(ks) : m[h] # k
    BY <1>1
  <2>3. ASSUME i \in 1 .. Len(ks), j \in 1 .. Len(ks) PROVE i = j
    BY <1>3, <2>3, <1>1 DEF Enumerates
  <2>. QED BY <1>3, <2>1, <2>2, <2>3, <1>1
<1>. QED BY <1>1, <1>2, <1>3 DEF Enumerates, m

LEMMA SeqIsFunction ==
  ASSUME NEW S, NEW q \in Seq(S)
  PROVE  q = [i \in 1 .. Len(q) |-> q[i]]
OBVIOUS

LEMMA LinesOfMore ==
  ASSUME NEW map, NEW S, NEW ks \in Seq(S), NEW k, LinesOf(map, ks) \in Seq(Texts),
         KeyLineText(map, k) \in Texts
  PROVE  LinesOf(map, ks \o <<k>>) = LinesOf(map, ks) \o <<KeyLineText(map, k)>>
<1>. DEFINE m == ks \o <<k>>
            a == KeyLineText(map, k)
            q == LinesOf(map, ks) \o <<a>>
<1>1. /\ Len(m) = Len(ks) + 1 /\ Len(ks) \in Nat /\ m[Len(ks) + 1] = k
      /\ \A i \in 1 .. Len(ks) : m[i] = ks[i]
  <2>1. ks \in Seq(S \cup {k})
    OBVIOUS
  <2>. QED BY <2>1
<1>. HIDE DEF m
<1>2. Len(LinesOf(map, ks)) = Len(ks)
  BY <1>1 DEF LinesOf
<1>3. q \in Seq(Texts) /\ Len(q) = Len(ks) + 1
  BY <1>2
<1>4. ASSUME NEW i \in 1 .. Len(ks) + 1
      PROVE  q[i] = KeyLineText(map, m[i])
  <2>1. CASE i \in 1 .. Len(ks)
    <3>1. q[i] = LinesOf(map, ks)[i]
      BY <1>2, <2>1
    <3>2. LinesOf(map, ks)[i] = KeyLineText(map, ks[i])
      BY <2>1 DEF LinesOf
    <3>. QED BY <3>1, <3>2, <1>1, <2>1
  <2>2. CASE i = Len(ks) + 1
    <3>1. q[i] = a
      BY <1>2, <2>2
    <3>. QED BY <3>1, <1>1, <2>2
  <2>3. i \in 1 .. Len(ks) \/ i = Len(ks) + 1
    BY <1>1
  <2>. QED BY <2>1, <2>2, <2>3
<1>5. LinesOf(map, m) = [i \in 1 .. Len(ks) + 1 |-> KeyLineText(map, m[i])]
  BY <1>1 DEF LinesOf
<1>. HIDE DEF q
<1>6. q = [i \in 1 .. Len(ks) + 1 |-> q[i]]
  BY <1>3, SeqIsFunction
<1>. QED BY <1>4, <1>5, <1>6 DEF m, q

(* HeaderLines and UpdateLines write one line for each key, in some order. *)
LEMMA KeyLinesAre ==
  ASSUME NEW map, InLines(map), NEW S \in SUBSET DOMAIN map
  PROVE  /\ \E ks : Enumerates(ks, S) /\ IsLines(KeyLines(map, S), LinesOf(map, ks))
         /\ FullLines(KeyLines(map, S))
<1>. DEFINE Good(T) == /\ \E ks : Enumerates(ks, T) /\ IsLines(KeyLines(map, T), LinesOf(map, ks))
                       /\ FullLines(KeyLines(map, T))
            N == {n \in Nat : \A T \in SUBSET DOMAIN map : Cardinality(T) = n => Good(T)}
<1>0. \A T \in SUBSET DOMAIN map : IsFiniteSet(T) /\ Cardinality(T) \in Nat
  BY FS_Subset, FS_CardinalityType DEF InLines
<1>1. 0 \in N
  <2>1. Good({})
    <3>1. KeyLines(map, {}) = <<>>
      BY NoKeyLines DEF Empty
    <3>2. Enumerates(<<>>, {})
      BY DEF Enumerates
    <3>3. LinesOf(map, <<>>) = <<>>
      BY DEF LinesOf
    <3>. QED BY <3>1, <3>2, <3>3, NoLines
  <2>2. \A T \in SUBSET DOMAIN map : Cardinality(T) = 0 => T = {}
    BY <1>0, FS_EmptySet
  <2>. HIDE DEF Good
  <2>. QED BY <2>1, <2>2
<1>2. ASSUME NEW n \in N PROVE n + 1 \in N
  <2>. SUFFICES ASSUME NEW T \in SUBSET DOMAIN map, Cardinality(T) = n + 1 PROVE Good(T)
    OBVIOUS
  <2>. DEFINE k == Taken(T)
              R == T \ {k}
              a == KeyLineText(map, k)
  <2>1. T # {} /\ IsFiniteSet(T)
    BY <1>0, FS_EmptySet
  <2>2. k \in T /\ KeyLines(map, T) = KeyLines(map, R) \o Line(a)
    BY <2>1, KeyLinesStep DEF KeyLine, KeyLineText
  <2>3. Cardinality(R) = n
    BY <2>1, TakenSmaller
  <2>4. Good(R)
    <3>. HIDE DEF Good
    <3>. QED BY <2>3
  <2>5. a \in Texts /\ NL \notin ToSet(a) /\ a # <<>>
    BY <2>2, KeyLineTextInLine
  <2>6. IsLines(Line(a), <<a>>) /\ FullLines(Line(a))
    BY <2>5, OneLine
  <2>7. FullLines(KeyLines(map, T))
    BY <2>2, <2>4, <2>6, MoreFullLines
  <2>8. PICK ks : Enumerates(ks, R) /\ IsLines(KeyLines(map, R), LinesOf(map, ks))
    BY <2>4
  <2>. DEFINE m == ks \o <<k>>
  <2>9. Enumerates(m, T)
    BY <2>2, <2>8, EnumeratesMore
  <2>10. LinesOf(map, m) = LinesOf(map, ks) \o <<a>>
    <3>. HIDE DEF k
    <3>1. ks \in Seq(R)
      BY <2>8 DEF Enumerates
    <3>2. LinesOf(map, ks) \in Seq(Texts)
      BY <2>8 DEF IsLines
    <3>. QED BY <3>1, <3>2, <2>5, LinesOfMore
  <2>11. IsLines(KeyLines(map, T), LinesOf(map, m))
    BY <2>2, <2>6, <2>8, <2>10, MoreLines
  <2>. QED BY <2>7, <2>9, <2>11
<1>3. Cardinality(S) \in N
  <2>. N \in SUBSET Nat
    OBVIOUS
  <2>. HIDE DEF N
  <2>1. N = Nat
    BY <1>1, <1>2, NaturalsAreAll
  <2>. QED BY <2>1, <1>0
<1>. QED BY <1>3

-------------------------------------------------------------------------------
(* A frame's text and what is read from it. *)

(* The command and the header lines of a frame, up to the last line's end *)
IsHead(h, command, map) ==
  /\ Line(command) \o HeaderLines(map) = h \o <<NL>>
  /\ Blankless(h) /\ h # <<>> /\ h[Len(h)] # NL
  /\ \E ks : /\ Enumerates(ks, DOMAIN map) /\ LinesOf(map, ks) \in Seq(Texts)
             /\ split(h, <<NL>>) = <<command>> \o LinesOf(map, ks)

LEMMA InLineLast ==
  ASSUME NEW a \in Texts, NL \notin ToSet(a), a # <<>>
  PROVE  Blankless(a) /\ Len(a) \in Nat /\ Len(a) > 0 /\ a[1] # NL /\ a[Len(a)] # NL
<1>1. \A i \in 1 .. Len(a) : a[i] # NL
  BY DEF ToSet, Texts
<1>2. Len(a) \in Nat /\ Len(a) > 0
  BY DEF Texts
<1>. QED BY <1>1, <1>2 DEF Blankless

(* frameToString and encode write the command and one line for each header. *)
LEMMA HeadExists ==
  ASSUME NEW command \in Texts, NL \notin ToSet(command), command # <<>>,
         NEW map, InLines(map), DOMAIN map # {}
  PROVE  \E h : IsHead(h, command, map)
<1>. DEFINE K == DOMAIN map
            k == Taken(K)
            R == K \ {k}
            a == KeyLineText(map, k)
            t == Line(command) \o KeyLines(map, R)
            h == t \o a
<1>1. k \in K /\ R \in SUBSET K /\ KeyLines(map, K) = KeyLines(map, R) \o Line(a)
  BY KeyLinesStep DEF KeyLine, KeyLineText, InLines
<1>2. a \in Texts /\ NL \notin ToSet(a) /\ a # <<>>
  BY <1>1, KeyLineTextInLine
<1>3. PICK ks : Enumerates(ks, R) /\ IsLines(KeyLines(map, R), LinesOf(map, ks))
  BY <1>1, KeyLinesAre
<1>4. FullLines(KeyLines(map, R))
  BY <1>1, KeyLinesAre
<1>5. IsLines(Line(command), <<command>>) /\ FullLines(Line(command)) /\ Line(command) \in Texts
  BY OneLine
<1>. HIDE DEF k
<1>6. IsLines(t, <<command>> \o LinesOf(map, ks)) /\ FullLines(t) /\ t \in Texts
  <2>1. IsLines(t, <<command>> \o LinesOf(map, ks))
    BY <1>3, <1>5, MoreLines
  <2>2. FullLines(t)
    BY <1>4, <1>5, MoreFullLines DEF IsLines
  <2>. QED BY <2>1, <2>2 DEF IsLines
<1>7. Line(command) \o HeaderLines(map) = h \o <<NL>>
  <2>1. Line(a) = a \o <<NL>>
    BY DEF Line
  <2>2. KeyLines(map, R) \in Texts /\ <<NL>> \in Texts
    BY <1>3, NLIsToken DEF IsLines, Texts
  <2>. HIDE DEF a, R
  <2>3. Line(command) \o (KeyLines(map, R) \o (a \o <<NL>>)) =
          ((Line(command) \o KeyLines(map, R)) \o a) \o <<NL>>
    BY <1>2, <1>5, <2>2 DEF Texts
  <2>. QED BY <1>1, <2>1, <2>3, HeaderLinesAreKeyLines
<1>8. Blankless(h)
  BY <1>2, <1>6, InLineLast, BlanklessConcat
<1>9. h # <<>> /\ h[Len(h)] # NL
  <2>1. Len(a) \in Nat /\ Len(a) > 0 /\ a[Len(a)] # NL
    BY <1>2, InLineLast
  <2>2. Len(h) = Len(t) + Len(a) /\ Len(t) \in Nat /\ h[Len(t) + Len(a)] = a[Len(a)]
    <3>. HIDE DEF a, t
    <3>. QED BY <1>2, <1>6, <2>1 DEF Texts
  <2>. QED BY <2>1, <2>2
<1>10. Enumerates(ks \o <<k>>, K)
  BY <1>1, <1>3, EnumeratesMore
<1>11. LinesOf(map, ks \o <<k>>) = LinesOf(map, ks) \o <<a>>
  <2>1. ks \in Seq(R) /\ LinesOf(map, ks) \in Seq(Texts)
    BY <1>3 DEF Enumerates, IsLines
  <2>. QED BY <1>2, <2>1, LinesOfMore
<1>12. split(h, <<NL>>) = (<<command>> \o LinesOf(map, ks)) \o <<a>>
  <2>1. split(a, <<NL>>) = <<a>>
    BY <1>2, SplitWhole, NLIsToken
  <2>. QED BY <1>2, <1>6, <2>1 DEF IsLines
<1>13. (<<command>> \o LinesOf(map, ks)) \o <<a>> = <<command>> \o (LinesOf(map, ks) \o <<a>>)
       /\ LinesOf(map, ks) \o <<a>> \in Seq(Texts)
  <2>. LinesOf(map, ks) \in Seq(Texts)
    BY <1>3 DEF IsLines
  <2>. HIDE DEF a
  <2>. QED BY <1>2
<1>. HIDE DEF h, a, R
<1>. QED BY <1>7, <1>8, <1>9, <1>10, <1>11, <1>12, <1>13 DEF IsHead

(* The first blank line of a frame is the one behind its headers. *)
LEMMA FramePieces ==
  ASSUME NEW command, NEW map, NEW h, IsHead(h, command, map), NEW body \in Texts
  PROVE  /\ split(Line(command) \o HeaderLines(map) \o <<NL>> \o body, Blank) =
              <<h>> \o split(body, Blank)
         /\ Line(command) \o HeaderLines(map) \o <<NL>> \o body \in Texts
<1>1. Line(command) \o HeaderLines(map) \o <<NL>> \o body = h \o <<NL>> \o <<NL>> \o body
  BY DEF IsHead
<1>2. h \o <<NL>> \o <<NL>> \o body \in Texts
  <2>. h \in Texts
    BY DEF IsHead, Blankless
  <2>. QED BY NLIsToken DEF Texts
<1>. QED BY <1>1, <1>2, SplitBlank DEF IsHead

(* Java's split drops empty pieces at the end only. *)
LEMMA NothingDropped ==
  ASSUME NEW pieces \in Seq(Texts), pieces # <<>>, pieces[Len(pieces)] # Empty
  PROVE  DropEmptyEnd(pieces) = pieces
<1>. DEFINE K == {0} \cup {i \in DOMAIN pieces : pieces[i] # Empty}
            n == Len(pieces)
<1>1. n \in Nat /\ n > 0 /\ (\A i : i \in DOMAIN pieces <=> i \in 1 .. n)
  OBVIOUS
<1>2. n \in K /\ \A i \in K : i \in Nat /\ i <= n
  BY <1>1
<1>3. Max(K) = n
  <2>. HIDE DEF K
  <2>1. \E m \in K : \A i \in K : m >= i
    BY <1>1, <1>2
  <2>2. Max(K) \in K /\ Max(K) >= n
    BY <1>2, <2>1 DEF Max
  <2>. QED BY <1>1, <1>2, <2>2
<1>4. SubSeq(pieces, 1, Len(pieces)) = pieces
  OBVIOUS
<1>. HIDE DEF K
<1>. QED BY <1>3, <1>4 DEF DropEmptyEnd, K

LEMMA TwoElements ==
  ASSUME NEW S, NEW a \in S, NEW b \in S
  PROVE  /\ <<a>> \o <<b>> = <<a, b>> /\ <<a, b>> \in Seq(S) /\ Len(<<a, b>>) = 2
         /\ <<a, b>>[1] = a /\ <<a, b>>[2] = b /\ <<a, b>> # <<>>
         /\ SubSeq(<<a, b>>, 1, 1) = <<a>>
<1>1. <<a, b>> \in Seq(S) /\ Len(<<a, b>>) = 2
  OBVIOUS
<1>2. <<a, b>>[1] = a /\ <<a, b>>[2] = b /\ <<a, b>> # <<>>
  OBVIOUS
<1>3. <<a>> \o <<b>> = <<a, b>>
  <2>1. <<a>> \o <<b>> \in Seq(S) /\ Len(<<a>> \o <<b>>) = 2
    OBVIOUS
  <2>2. (<<a>> \o <<b>>)[1] = a /\ (<<a>> \o <<b>>)[2] = b
    OBVIOUS
  <2>3. \A i \in 1 .. 2 : i = 1 \/ i = 2
    OBVIOUS
  <2>. QED BY <1>1, <1>2, <2>1, <2>2, <2>3, SeqEqual
<1>4. SubSeq(<<a, b>>, 1, 1) = <<a>>
  <2>. DEFINE d == <<a, b>>
  <2>. HIDE DEF d
  <2>1. SubSeq(d, 1, 1) \in Seq(S) /\ Len(SubSeq(d, 1, 1)) = 1 /\ SubSeq(d, 1, 1)[1] = d[1]
    BY <1>1 DEF d
  <2>2. <<a>> \in Seq(S) /\ Len(<<a>>) = 1 /\ <<a>>[1] = a /\ d[1] = a
    BY <1>2 DEF d
  <2>3. \A i \in 1 .. 1 : i = 1
    OBVIOUS
  <2>4. SubSeq(d, 1, 1) = <<a>>
    BY <2>1, <2>2, <2>3, SeqEqual
  <2>. QED BY <2>4 DEF d
<1>. QED BY <1>1, <1>2, <1>3, <1>4

(* A header or an update whose key and value have no colon is read as it was written. *)
LEMMA SplitKeyValue ==
  ASSUME NEW k \in Texts, NEW v \in Texts, Colon \notin ToSet(k), Colon \notin ToSet(v)
  PROVE  /\ split(k \o <<Colon>> \o v, <<Colon>>) = <<k, v>>
         /\ v # Empty => JavaSplit(k \o <<Colon>> \o v, <<Colon>>) = <<k, v>>
<1>1. split(k \o <<Colon>> \o v, <<Colon>>) = <<k>> \o <<v>>
  BY SplitCut, SplitWhole, NLIsToken
<1>2. <<k>> \o <<v>> = <<k, v>> /\ <<k, v>> \in Seq(Texts) /\ Len(<<k, v>>) = 2
      /\ <<k, v>>[2] = v /\ <<k, v>> # <<>>
  BY TwoElements
<1>3. v # Empty => DropEmptyEnd(<<k, v>>) = <<k, v>>
  BY <1>2, NothingDropped
<1>. QED BY <1>1, <1>2, <1>3 DEF JavaSplit

(* Putting the pairs of a map into a map gives it back, in any order. *)
LEMMA PairsGiveTheMap ==
  ASSUME NEW map, NEW S, map = [k \in S |-> map[k]], NEW ks, Enumerates(ks, S),
         NEW pairs, pairs = [i \in 1 .. Len(ks) |-> <<ks[i], map[ks[i]]>>]
  PROVE  PutAll(pairs) = map /\ EmplaceAll(pairs) = map
<1>. DEFINE K(k) == {i \in DOMAIN pairs : pairs[i][1] = k}
<1>1. DOMAIN pairs = 1 .. Len(ks) /\ \A i \in 1 .. Len(ks) : pairs[i] = <<ks[i], map[ks[i]]>>
  OBVIOUS
<1>2. Len(ks) \in Nat /\ \A i \in 1 .. Len(ks) : ks[i] \in S
  BY DEF Enumerates
<1>3. \A i \in 1 .. Len(ks) : pairs[i][1] = ks[i] /\ pairs[i][2] = map[ks[i]]
  BY <1>1
<1>4. {pairs[i][1] : i \in DOMAIN pairs} = S
  BY <1>1, <1>2, <1>3 DEF Enumerates
<1>5. ASSUME NEW k \in S
      PROVE  pairs[Max(K(k))][2] = map[k] /\ pairs[Min(K(k))][2] = map[k]
  <2>1. PICK j \in 1 .. Len(ks) : ks[j] = k
    BY DEF Enumerates
  <2>2. K(k) = {j}
    <3>1. \A i \in 1 .. Len(ks) : pairs[i][1] = k <=> i = j
      BY <1>3, <2>1 DEF Enumerates
    <3>. QED BY <1>1, <2>1, <3>1
  <2>3. j \in Nat /\ Max({j}) = j /\ Min({j}) = j
    BY <1>2, <2>1 DEF Max, Min
  <2>. QED BY <1>3, <2>1, <2>2, <2>3
<1>. QED BY <1>4, <1>5 DEF PutAll, EmplaceAll

(* A map whose entries keep within their fields *)
InFields(map) ==
  /\ InLines(map)
  /\ \A k \in DOMAIN map : Colon \notin ToSet(k) /\ Colon \notin ToSet(map[k])

WholeHeaders(map) ==
  /\ InFields(map) /\ DOMAIN map # {}
  /\ map = [k \in DOMAIN map |-> map[k]]
  /\ \A k \in DOMAIN map : map[k] # Empty

Lists(ks, map) == Enumerates(ks, DOMAIN map) /\ LinesOf(map, ks) \in Seq(Texts)

(* A frame that can be sent: its header lines keep within their fields, no value is
   missing and the body has no blank line. *)
Sendable(f) ==
  /\ f = Frame(f.command, f.headers, f.body)
  /\ f.command \in Texts /\ NL \notin ToSet(f.command) /\ f.command # Empty
  /\ WholeHeaders(f.headers)
  /\ Blankless(f.body)

LEMMA LinesOfFrame ==
  ASSUME NEW command, NEW ls \in Seq(Texts), NEW lines, lines = <<command>> \o ls
  PROVE  /\ Len(ls) \in Nat /\ Len(lines) - 1 = Len(ls) /\ lines # <<>> /\ lines[1] = command
         /\ \A i \in 1 .. Len(ls) : lines[i + 1] = ls[i]
BY DEF Texts

(* The server's and the client's decoder both give back the command and the headers. *)
LEMMA HeadersRead ==
  ASSUME NEW map, WholeHeaders(map), NEW ks, Lists(ks, map),
         NEW command \in Texts, NEW lines, lines = <<command>> \o LinesOf(map, ks), NEW body
  PROVE  /\ DecodedLines(lines, body) = Frame(command, map, body)
         /\ FrameOfLines(lines, body) = Frame(command, map, body)
<1>. DEFINE ls == LinesOf(map, ks)
            java == [i \in 1 .. Len(lines) - 1 |-> JavaSplit(lines[i + 1], <<Colon>>)]
            cpp == [i \in 1 .. Len(lines) - 1 |-> split(lines[i + 1], <<Colon>>)]
            pairs == [i \in 1 .. Len(ks) |-> <<ks[i], map[ks[i]]>>]
<1>1. Len(ks) \in Nat /\ \A i \in 1 .. Len(ks) : ks[i] \in DOMAIN map
  BY DEF Enumerates, Lists
<1>2. Len(ls) = Len(ks) /\ \A i \in 1 .. Len(ks) : ls[i] = KeyLineText(map, ks[i])
  BY <1>1 DEF LinesOf
<1>3. Len(lines) - 1 = Len(ks) /\ lines # <<>> /\ lines[1] = command
      /\ \A i \in 1 .. Len(ks) : lines[i + 1] = KeyLineText(map, ks[i])
  <2>. HIDE DEF ls
  <2>1. lines = <<command>> \o ls /\ ls \in Seq(Texts)
    BY DEF ls, Lists
  <2>. QED BY <1>2, <2>1, LinesOfFrame
<1>4. \A i \in 1 .. Len(ks) : /\ JavaSplit(lines[i + 1], <<Colon>>) = <<ks[i], map[ks[i]]>>
                              /\ split(lines[i + 1], <<Colon>>) = <<ks[i], map[ks[i]]>>
  <2>1. ASSUME NEW i \in 1 .. Len(ks)
        PROVE  /\ JavaSplit(lines[i + 1], <<Colon>>) = <<ks[i], map[ks[i]]>>
               /\ split(lines[i + 1], <<Colon>>) = <<ks[i], map[ks[i]]>>
    <3>1. ks[i] \in Texts /\ map[ks[i]] \in Texts /\ Colon \notin ToSet(ks[i])
          /\ Colon \notin ToSet(map[ks[i]]) /\ map[ks[i]] # Empty
      BY <1>1 DEF WholeHeaders, InFields, InLines
    <3>. QED BY <1>3, <3>1, SplitKeyValue DEF KeyLineText
  <2>. QED BY <2>1
<1>5. java = pairs /\ cpp = pairs
  BY <1>1, <1>3, <1>4, <1>2
<1>6. AllHaveValues(pairs) /\ HeaderPairs(pairs) = pairs
  <2>1. DOMAIN pairs = 1 .. Len(ks)
        /\ \A i \in 1 .. Len(ks) : Len(pairs[i]) = 2
            /\ <<pairs[i][1], pairs[i][2]>> = <<ks[i], map[ks[i]]>>
    BY <1>2
  <2>. QED BY <1>2, <2>1 DEF AllHaveValues, HeaderPairs
<1>7. PutAll(pairs) = map /\ EmplaceAll(pairs) = map
  <2>1. pairs = [i \in 1 .. Len(ks) |-> <<ks[i], map[ks[i]]>>]
    BY <1>2
  <2>2. Enumerates(ks, DOMAIN map) /\ map = [k \in DOMAIN map |-> map[k]]
    BY DEF Lists, WholeHeaders
  <2>. HIDE DEF pairs
  <2>. QED BY <2>1, <2>2, PairsGiveTheMap
<1>8. DecodedLines(lines, body) = IF lines = <<>> \/ ~AllHaveValues(java) THEN Throws
                                  ELSE Frame(lines[1], PutAll(HeaderPairs(java)), body)
  BY DEF DecodedLines
<1>9. FrameOfLines(lines, body) = IF ~AllHaveValues(cpp) THEN Throws
                                  ELSE Frame(lines[1], EmplaceAll(HeaderPairs(cpp)), body)
  BY DEF FrameOfLines
<1>. HIDE DEF java, cpp, pairs
<1>. QED BY <1>3, <1>5, <1>6, <1>7, <1>8, <1>9

(* What is written by one side is read by the other as it was sent. *)
THEOREM FramesArriveAsSent ==
  ASSUME NEW f, Sendable(f)
  PROVE  /\ extractFrame(frameToString(f)) = f
         /\ stringToFrameFromServer(encode(f)) = f
<1>. DEFINE t == Line(f.command) \o HeaderLines(f.headers) \o <<NL>> \o f.body
<1>0. /\ f.command \in Texts /\ NL \notin ToSet(f.command) /\ f.command # <<>>
      /\ InLines(f.headers) /\ DOMAIN f.headers # {} /\ Blankless(f.body)
  BY DEF Sendable, WholeHeaders, InFields, Empty
<1>1. PICK h : IsHead(h, f.command, f.headers)
  BY <1>0, HeadExists
<1>2. PICK ks : /\ Enumerates(ks, DOMAIN f.headers) /\ LinesOf(f.headers, ks) \in Seq(Texts)
                /\ split(h, <<NL>>) = <<f.command>> \o LinesOf(f.headers, ks)
  BY <1>1 DEF IsHead
<1>3. split(t, Blank) = <<h>> \o split(f.body, Blank) /\ split(f.body, Blank) = <<f.body>>
  <2>1. f.body \in Texts
    BY <1>0 DEF Blankless
  <2>. QED BY <1>0, <1>1, <2>1, FramePieces, SplitNoBlank
<1>4. h \in Texts /\ h # <<>> /\ f.body \in Texts /\ f.command \in Texts
  BY <1>1 DEF IsHead, Blankless, Sendable
<1>5. split(t, Blank) = <<h, f.body>>
  BY <1>3, <1>4
<1>6. JavaSplit(h, <<NL>>) = split(h, <<NL>>)
  <2>1. split(h, <<NL>>) \in Seq(Texts) \ {<<>>}
    <3>. <<NL>> \in Texts /\ <<NL>> # <<>>
      BY NLIsToken DEF Texts
    <3>. QED BY <1>4, SplitType
  <2>2. LinesOf(f.headers, ks)[Len(ks)] # <<>> /\ Len(ks) > 0 /\ Len(ks) \in Nat
    <3>. DEFINE D == DOMAIN f.headers
    <3>1. Enumerates(ks, D) /\ D # {}
      BY <1>0, <1>2
    <3>2. InLines(f.headers)
      BY <1>0
    <3>3. Len(ks) > 0 /\ Len(ks) \in Nat /\ ks[Len(ks)] \in D
      <4>. HIDE DEF D
      <4>. QED BY <3>1 DEF Enumerates
    <3>4. LinesOf(f.headers, ks)[Len(ks)] = KeyLineText(f.headers, ks[Len(ks)])
      BY <3>3 DEF LinesOf
    <3>. QED BY <3>2, <3>3, <3>4, KeyLineTextInLine
  <2>3. Len(LinesOf(f.headers, ks)) = Len(ks)
    BY <2>2 DEF LinesOf
  <2>4. split(h, <<NL>>)[Len(split(h, <<NL>>))] # <<>>
    BY <1>2, <2>2, <2>3
  <2>. QED BY <2>1, <2>4, NothingDropped DEF JavaSplit, Empty
<1>7. /\ DecodedLines(split(h, <<NL>>), f.body) = f
      /\ FrameOfLines(split(h, <<NL>>), f.body) = f
  <2>1. f = Frame(f.command, f.headers, f.body) /\ WholeHeaders(f.headers) /\ f.command \in Texts
    BY DEF Sendable
  <2>2. Lists(ks, f.headers)
    BY <1>2 DEF Lists
  <2>3. /\ DecodedLines(split(h, <<NL>>), f.body) = Frame(f.command, f.headers, f.body)
        /\ FrameOfLines(split(h, <<NL>>), f.body) = Frame(f.command, f.headers, f.body)
    <3>. DEFINE L == split(h, <<NL>>)
                m == f.headers
                c == f.command
    <3>1. L = <<c>> \o LinesOf(m, ks) /\ WholeHeaders(m) /\ Lists(ks, m) /\ c \in Texts
      BY <1>2, <2>1, <2>2
    <3>. HIDE DEF L, m, c
    <3>2. DecodedLines(L, f.body) = Frame(c, m, f.body) /\ FrameOfLines(L, f.body) = Frame(c, m, f.body)
      BY <3>1, HeadersRead
    <3>. QED BY <3>2 DEF L, m, c
  <2>. QED BY <2>1, <2>3
<1>8. DecodedPieces(JavaSplit(t, Blank)) = f
  <2>1. CASE f.body = Empty
    <3>1. DropEmptyEnd(<<h, f.body>>) = <<h>>
      <4>. DEFINE d == <<h, f.body>>
      <4>1. {0} \cup {i \in DOMAIN d : d[i] # Empty} = {0, 1}
        <5>1. d[1] = h /\ d[2] = Empty /\ DOMAIN d = {1, 2} /\ h # Empty
          BY <1>4, <2>1 DEF Empty
        <5>. HIDE DEF d
        <5>. QED BY <5>1
      <4>2. Max({0, 1}) = 1
        BY DEF Max
      <4>3. SubSeq(d, 1, 1) = <<h>> /\ Len(d) = 2
        BY <1>4, TwoElements
      <4>4. DropEmptyEnd(d) = SubSeq(d, 1, Max({0} \cup {i \in DOMAIN d : d[i] # Empty}))
        <5>1. Len(d) # 1
          BY <4>3
        <5>. HIDE DEF d
        <5>. QED BY <5>1 DEF DropEmptyEnd
      <4>. QED BY <4>1, <4>2, <4>3, <4>4
    <3>2. <<h>> # <<>> /\ Len(<<h>>) = 1 /\ <<h>>[1] = h
      OBVIOUS
    <3>. QED BY <1>5, <1>6, <1>7, <2>1, <3>1, <3>2 DEF DecodedPieces, JavaSplit
  <2>2. CASE f.body # Empty
    <3>1. <<h, f.body>> \in Seq(Texts) /\ Len(<<h, f.body>>) = 2 /\ <<h, f.body>> # <<>>
          /\ <<h, f.body>>[1] = h /\ <<h, f.body>>[2] = f.body
      BY <1>4
    <3>2. DropEmptyEnd(<<h, f.body>>) = <<h, f.body>>
      BY <2>2, <3>1, NothingDropped
    <3>. QED BY <1>5, <1>6, <1>7, <3>1, <3>2 DEF DecodedPieces, JavaSplit
  <2>. QED BY <2>1, <2>2
<1>9. FrameOfPieces(split(t, Blank)) = f
  <2>1. Len(<<h, f.body>>) = 2 /\ <<h, f.body>>[1] = h /\ <<h, f.body>>[2] = f.body
    OBVIOUS
  <2>. QED BY <1>5, <1>7, <2>1 DEF FrameOfPieces
<1>. QED BY <1>8, <1>9 DEF extractFrame, stringToFrameFromServer, frameToString, encode, Blank

-------------------------------------------------------------------------------
(* The body of a report and its lines. *)

(* Texts that have no line feed, and no colon either *)
InOneLine(t) == t \in Texts /\ NL \notin ToSet(t)
InOneField(t) == InOneLine(t) /\ Colon \notin ToSet(t)

(* Lines none of which is empty *)
WholeLines(t, ls) == IsLines(t, ls) /\ FullLines(t)

LEMMA OneWholeLine ==
  ASSUME NEW a, InOneLine(a), a # <<>>
  PROVE  WholeLines(Line(a), <<a>>)
BY OneLine DEF InOneLine, WholeLines

LEMMA MoreWholeLines ==
  ASSUME NEW s, NEW t, NEW ls, NEW ms, WholeLines(s, ls), WholeLines(t, ms)
  PROVE  WholeLines(s \o t, ls \o ms)
BY MoreLines, MoreFullLines DEF WholeLines

(* The lines of a list of updates *)
LEMMA WholeUpdateLines ==
  ASSUME NEW map, InLines(map)
  PROVE  \E ks : Enumerates(ks, DOMAIN map) /\ WholeLines(UpdateLines(map), LinesOf(map, ks))
BY KeyLinesAre, HeaderLinesAreKeyLines DEF WholeLines

(* The first lines of a text *)
Starts(ls, lines) == ls \in Seq(Texts) /\ \E rest \in Seq(Texts) : lines = ls \o rest

LEMMA ConcatLines ==
  ASSUME NEW a \in Seq(Texts), NEW b \in Seq(Texts)
  PROVE  /\ a \o b \in Seq(Texts) /\ Len(a) \in Nat /\ Len(b) \in Nat
         /\ Len(a \o b) = Len(a) + Len(b)
         /\ \A i \in 1 .. Len(a) : (a \o b)[i] = a[i]
         /\ \A i \in 1 .. Len(b) : (a \o b)[Len(a) + i] = b[i]
<1>1. \A S : \A x, y \in Seq(S) :
         /\ x \o y \in Seq(S) /\ Len(x) \in Nat /\ Len(y) \in Nat
         /\ Len(x \o y) = Len(x) + Len(y)
         /\ \A i \in 1 .. Len(x) : (x \o y)[i] = x[i]
         /\ \A i \in 1 .. Len(y) : (x \o y)[Len(x) + i] = y[i]
  OBVIOUS
<1>. QED BY <1>1

LEMMA ConcatIsAssociative ==
  ASSUME NEW S, NEW a \in Seq(S), NEW b \in Seq(S), NEW c \in Seq(S)
  PROVE  (a \o b) \o c = a \o (b \o c)
OBVIOUS

(* Where a part of the lines is among all of them *)
LEMMA StartsBefore ==
  ASSUME NEW lines, NEW s \in Seq(Texts), NEW t \in Seq(Texts), Starts(s \o t, lines)
  PROVE  /\ Starts(s, lines)
         /\ Len(s) \in Nat /\ Len(t) \in Nat /\ Len(s \o t) = Len(s) + Len(t)
         /\ \A i \in 1 .. Len(t) : lines[Len(s) + i] = t[i]
<1>1. PICK rest \in Seq(Texts) : lines = (s \o t) \o rest
  BY DEF Starts
<1>2. t \o rest \in Seq(Texts) /\ lines = s \o (t \o rest)
  BY <1>1, ConcatLines, ConcatIsAssociative
<1>3. \A i \in 1 .. Len(t) : lines[Len(s) + i] = t[i]
  BY <1>2, ConcatLines
<1>. QED BY <1>2, <1>3, ConcatLines DEF Starts

LEMMA StartsBeforeLine ==
  ASSUME NEW lines, NEW s \in Seq(Texts), NEW x \in Texts, Starts(s \o <<x>>, lines)
  PROVE  /\ Starts(s, lines) /\ Len(s) \in Nat
         /\ Len(s \o <<x>>) = Len(s) + 1 /\ lines[Len(s) + 1] = x
<1>1. <<x>> \in Seq(Texts) /\ Len(<<x>>) = 1 /\ <<x>>[1] = x
  OBVIOUS
<1>. DEFINE t == <<x>>
<1>2. t \in Seq(Texts) /\ Starts(s \o t, lines)
  BY <1>1
<1>3. /\ Starts(s, lines)
      /\ Len(s) \in Nat /\ Len(t) \in Nat /\ Len(s \o t) = Len(s) + Len(t)
      /\ \A i \in 1 .. Len(t) : lines[Len(s) + i] = t[i]
  <2>. HIDE DEF t
  <2>. QED BY <1>2, StartsBefore
<1>4. Len(t) = 1 /\ t[1] = x
  OBVIOUS
<1>. HIDE DEF t
<1>5. Len(s \o t) = Len(s) + 1 /\ lines[Len(s) + 1] = x
  BY <1>3, <1>4
<1>. QED BY <1>3, <1>5 DEF t

(* Two lines of the same key: text up to the first colon *)
LEMMA SameKey ==
  ASSUME NEW k \in Texts, NEW v \in Texts, NEW l \in Texts,
         Colon \notin ToSet(k), Colon \notin ToSet(v), Colon \notin ToSet(l),
         k \o <<Colon>> \o v = l \o <<Colon>>
  PROVE  k = l
<1>1. split(k \o <<Colon>> \o v, <<Colon>>) = <<k, v>>
  BY SplitKeyValue
<1>2. <<>> \in Texts /\ Colon \notin ToSet(<<>>)
  BY DEF Texts, ToSet
<1>3. split(l \o <<Colon>> \o <<>>, <<Colon>>) = <<l, <<>>>>
  BY <1>2, SplitKeyValue
<1>4. (l \o <<Colon>>) \o <<>> = l \o <<Colon>>
  BY NLIsToken DEF Texts
<1>5. <<k, v>> = <<l, <<>>>>
  BY <1>1, <1>3, <1>4
<1>. QED BY <1>5

Labels == {TeamALabel, TeamBLabel, DescriptionLabel}

(* Updates that can be told from the headings behind them *)
PlainMap(map) ==
  /\ InFields(map) /\ map = [k \in DOMAIN map |-> map[k]]
  /\ DOMAIN map \cap Labels = {}

(* Both fields of a line whose key and value have no colon *)
LEMMA FieldsOfKeyLine ==
  ASSUME NEW k, NEW v, InOneField(k), InOneField(v)
  PROVE  /\ Field(k \o <<Colon>> \o v, 1) = k
         /\ Field(k \o <<Colon>> \o v, 2) = v
<1>1. split(k \o <<Colon>> \o v, <<Colon>>) = <<k, v>>
  BY SplitKeyValue DEF InOneField, InOneLine
<1>2. 1 \in DOMAIN <<k, v>> /\ 2 \in DOMAIN <<k, v>> /\ <<k, v>>[1] = k /\ <<k, v>>[2] = v
  OBVIOUS
<1>. QED BY <1>1, <1>2 DEF Field, Element

LEMMA WordInField ==
  ASSUME NEW w \in Tokens, w # NL, w # Colon
  PROVE  InOneField(<<w>>) /\ <<w>> # <<>>
<1>1. ToSet(<<w>>) = {w}
  BY TokensOfOne
<1>2. <<w>> \in Texts /\ <<w>> # <<>>
  BY DEF Texts
<1>. QED BY <1>1, <1>2 DEF InOneField, InOneLine

(* The words that the programs write keep within their fields. *)
LEMMA KeywordInField ==
  ASSUME NEW w \in Keywords
  PROVE  InOneField(<<w>>) /\ <<w>> # <<>>
<1>1. w \in Tokens
  BY DEF Tokens
<1>2. w # NL /\ w # Colon
  BY DEF Keywords, NL, Colon
<1>. QED BY <1>1, <1>2, WordInField

LEMMA LabelInField ==
  ASSUME NEW label \in Labels
  PROVE  InOneField(label) /\ label # <<>>
<1>1. "team a updates" \in Keywords /\ "team b updates" \in Keywords /\ "description" \in Keywords
  BY DEF Keywords
<1>2. \E w \in Keywords : label = <<w>>
  BY <1>1 DEF Labels, TeamALabel, TeamBLabel, DescriptionLabel
<1>. QED BY <1>2, KeywordInField

(* The heading is found when nothing before it reads like it. *)
LEMMA HeadingFound ==
  ASSUME NEW lines, NEW first \in Nat, NEW n \in Nat, NEW label, Len(lines) \in Nat,
         first + n <= Len(lines),
         \A i \in 1 .. n : lines[first + i - 1] # label \o <<Colon>>,
         lines[first + n] = label \o <<Colon>>
  PROVE  HeadingOf(lines, first, label) = first + n
<1>. DEFINE N == Len(lines)
            h == label \o <<Colon>>
            K == {j \in first .. N : lines[j] = h} \cup {N + 1}
<1>1. K \in SUBSET Nat /\ first + n \in K
  OBVIOUS
<1>2. ASSUME NEW j \in K, j < first + n
      PROVE  FALSE
  <2>1. j \in first .. N /\ lines[j] = h
    BY <1>2
  <2>2. j - first + 1 \in 1 .. n /\ first + (j - first + 1) - 1 = j
    BY <1>2, <2>1
  <2>3. lines[first + (j - first + 1) - 1] # h
    BY <2>2
  <2>. QED BY <2>1, <2>2, <2>3
<1>3. \A j \in K : first + n <= j
  <2>1. \A j \in K : j \in Nat
    BY <1>1
  <2>. HIDE DEF K
  <2>. QED BY <1>2, <2>1
<1>4. Min(K) = first + n
  <2>. HIDE DEF K
  <2>. QED BY <1>1, <1>3, MinIs
<1>5. \A m, l \in Nat : m <= l => m % (l + 1) = m
  OBVIOUS
<1>6. (first + n) % (N + 1) = first + n
  <2>1. first + n \in Nat /\ N \in Nat
    OBVIOUS
  <2>. QED BY <1>5, <2>1
<1>7. HeadingOf(lines, first, label) = Min(K) % (N + 1)
  BY DEF HeadingOf
<1>. QED BY <1>4, <1>6, <1>7

(* A list of updates in the lines of a body is found and read again. *)
LEMMA UpdatesRead ==
  ASSUME NEW lines, NEW map, PlainMap(map), NEW ks, Enumerates(ks, DOMAIN map),
         NEW first \in Nat, NEW label \in Labels, Len(lines) \in Nat,
         first + Len(ks) <= Len(lines),
         \A i \in 1 .. Len(ks) : lines[first + i - 1] = KeyLineText(map, ks[i]),
         lines[first + Len(ks)] = label \o <<Colon>>
  PROVE  /\ HeadingOf(lines, first, label) = first + Len(ks)
         /\ PutAll(KeysAndValues(lines, first, first + Len(ks) - 1)) = map
         /\ SecondOf(KeysAndValues(lines, first, first + Len(ks) - 1)) \subseteq Texts
         /\ KeysAndValues(lines, first, first + Len(ks) - 1) \in Seq(Texts \X Texts)
<1>. DEFINE n == Len(ks)
            S == DOMAIN map
            pairs == [i \in 1 .. n |-> <<ks[i], map[ks[i]]>>]
<1>0. Enumerates(ks, S)
  OBVIOUS
<1>1. n \in Nat /\ \A i \in 1 .. n : ks[i] \in S
  <2>. HIDE DEF S
  <2>. QED BY <1>0 DEF Enumerates
<1>2. \A i \in 1 .. n : InOneField(ks[i]) /\ InOneField(map[ks[i]]) /\ ks[i] # label
  BY <1>1 DEF PlainMap, InFields, InLines, InOneField, InOneLine
<1>3. InOneField(label)
  BY LabelInField
<1>4. \A i \in 1 .. n : lines[first + i - 1] # label \o <<Colon>>
  BY <1>2, <1>3, SameKey DEF KeyLineText, InOneField, InOneLine
<1>7. HeadingOf(lines, first, label) = first + n
  BY <1>1, <1>4, HeadingFound
<1>8. KeysAndValues(lines, first, first + n - 1) = pairs
  <2>1. first + n - 1 - first + 1 = n
    BY <1>1
  <2>2. ASSUME NEW i \in 1 .. n
        PROVE  /\ Field(lines[first + i - 1], 1) = ks[i]
               /\ Field(lines[first + i - 1], 2) = map[ks[i]]
    <3>1. lines[first + i - 1] = ks[i] \o <<Colon>> \o map[ks[i]]
      BY DEF KeyLineText
    <3>. QED BY <1>2, <3>1, FieldsOfKeyLine
  <2>3. KeysAndValues(lines, first, first + n - 1)
           = [i \in 1 .. n |-> <<Field(lines[first + i - 1], 1), Field(lines[first + i - 1], 2)>>]
    BY <2>1 DEF KeysAndValues
  <2>. QED BY <2>2, <2>3
<1>9. PutAll(pairs) = map
  <2>1. pairs = [i \in 1 .. Len(ks) |-> <<ks[i], map[ks[i]]>>] /\ map = [k \in DOMAIN map |-> map[k]]
    BY DEF PlainMap
  <2>. HIDE DEF pairs
  <2>. QED BY <2>1, PairsGiveTheMap
<1>10. SecondOf(pairs) \subseteq Texts
  <2>1. \A i \in 1 .. n : pairs[i][2] \in Texts
    BY <1>2 DEF InOneField, InOneLine
  <2>. QED BY <2>1 DEF SecondOf
<1>11. pairs \in Seq(Texts \X Texts)
  <2>1. \A i \in 1 .. n : ks[i] \in Texts /\ map[ks[i]] \in Texts
    BY <1>2 DEF InOneField, InOneLine
  <2>. QED BY <1>1, <2>1
<1>. QED BY <1>7, <1>8, <1>9, <1>10, <1>11

LEMMA ConcatInOneLine ==
  ASSUME NEW a, NEW b, InOneLine(a), InOneLine(b)
  PROVE  InOneLine(a \o b)
<1>1. a \in Texts /\ b \in Texts /\ NL \notin ToSet(a) /\ NL \notin ToSet(b)
  BY DEF InOneLine
<1>. QED BY <1>1, TokensOfConcat, TextConcat DEF InOneLine

LEMMA ColonInLine == InOneLine(<<Colon>>) /\ <<Colon>> # <<>>
<1>1. <<Colon>> \in Texts /\ <<Colon>> # <<>>
  BY NLIsToken DEF Texts
<1>2. NL # Colon
  BY DEF NL, Colon
<1>. QED BY <1>1, <1>2, TokensOfOne DEF InOneLine

LEMMA LongerText ==
  ASSUME NEW a \in Texts, NEW b \in Texts, a # <<>> \/ b # <<>>
  PROVE  a \o b # <<>>
<1>1. Len(a) \in Nat /\ Len(b) \in Nat /\ Len(a \o b) = Len(a) + Len(b)
  BY DEF Texts
<1>2. Len(a) > 0 \/ Len(b) > 0
  BY DEF Texts
<1>3. Len(a \o b) > 0
  BY <1>1, <1>2
<1>4. Len(<<>>) = 0
  OBVIOUS
<1>. QED BY <1>3, <1>4

(* A label, a colon and what it stands for in one line *)
LEMMA LabelledLine ==
  ASSUME NEW k, NEW v, InOneLine(k), InOneLine(v)
  PROVE  /\ InOneLine(k \o <<Colon>> \o v) /\ k \o <<Colon>> \o v # <<>>
         /\ InOneLine(k \o <<Colon>>) /\ k \o <<Colon>> # <<>>
<1>1. InOneLine(k \o <<Colon>>) /\ InOneLine((k \o <<Colon>>) \o v)
  BY ColonInLine, ConcatInOneLine
<1>2. k \o <<Colon>> # <<>>
  BY ColonInLine, LongerText DEF InOneLine
<1>3. (k \o <<Colon>>) \o v # <<>>
  BY <1>1, <1>2, LongerText DEF InOneLine
<1>. QED BY <1>1, <1>2, <1>3

(* How the time of an event is written *)
TimeText(n) == <<ToString(n)>>
TimeLine(n) == <<"time">> \o <<Colon>> \o TimeText(n)

LEMMA WordLineIs ==
  ASSUME NEW w \in Keywords, NEW v \in Texts
  PROVE  <<w, Colon>> \o v = <<w>> \o <<Colon>> \o v
<1>1. w \in Tokens /\ Colon \in Tokens
  BY NLIsToken DEF Tokens
<1>. HIDE DEF Colon
<1>2. <<w>> \o <<Colon>> = <<w, Colon>>
  BY <1>1, TwoElements
<1>. QED BY <1>2

LEMMA TimeLineIs ==
  ASSUME NEW n, ToString(n) \in Tokens
  PROVE  <<"time", Colon, ToString(n)>> = TimeLine(n)
<1>. DEFINE x == "time"
            c == Colon
            y == ToString(n)
<1>1. x \in Tokens /\ c \in Tokens /\ y \in Tokens
  BY NLIsToken DEF Tokens, Keywords
<1>. HIDE DEF x, c, y
<1>2. <<x>> \o <<c>> = <<x, c>>
  BY <1>1, TwoElements
<1>3. <<x, c>> \o <<y>> = <<x, c, y>>
  <2>1. <<x, c>> \o <<y>> \in Seq(Tokens) /\ Len(<<x, c>> \o <<y>>) = 3
    BY <1>1
  <2>2. <<x, c, y>> \in Seq(Tokens) /\ Len(<<x, c, y>>) = 3
    BY <1>1
  <2>3. (<<x, c>> \o <<y>>)[1] = x /\ (<<x, c>> \o <<y>>)[2] = c /\ (<<x, c>> \o <<y>>)[3] = y
    BY <1>1
  <2>4. <<x, c, y>>[1] = x /\ <<x, c, y>>[2] = c /\ <<x, c, y>>[3] = y
    OBVIOUS
  <2>5. \A i \in 1 .. 3 : i = 1 \/ i = 2 \/ i = 3
    OBVIOUS
  <2>. QED BY <2>1, <2>2, <2>3, <2>4, <2>5, SeqEqual
<1>4. <<x, c, y>> = (<<x>> \o <<c>>) \o <<y>>
  BY <1>2, <1>3
<1>. QED BY <1>4 DEF x, c, y, TimeLine, TimeText

(* A report none of whose parts collides with the separators of a body *)
PlainReport(u, names, event) ==
  /\ InOneField(u) /\ InOneField(names.team_a) /\ InOneField(names.team_b)
  /\ InOneField(event.name)
  /\ ToString(event.time) \in Tokens \ Separators
  /\ InOneLine(event.description) /\ event.description # Empty
  /\ PlainMap(event.game) /\ PlainMap(event.team_a) /\ PlainMap(event.team_b)

(* The lines of a body, its updates in some order *)
BodyLines(u, names, event, g, a, b) ==
  <<(<<"user">> \o <<Colon>> \o u)>>
    \o <<TeamA \o <<Colon>> \o names.team_a>> \o <<TeamB \o <<Colon>> \o names.team_b>>
    \o <<(<<"event name">> \o <<Colon>> \o event.name)>> \o <<TimeLine(event.time)>>
    \o <<GeneralLabel \o <<Colon>>>> \o LinesOf(event.game, g)
    \o <<TeamALabel \o <<Colon>>>> \o LinesOf(event.team_a, a)
    \o <<TeamBLabel \o <<Colon>>>> \o LinesOf(event.team_b, b)
    \o <<DescriptionLabel \o <<Colon>>>> \o <<event.description>>

(* The lines that ReportBody writes *)
LEMMA BodyInLines ==
  ASSUME NEW u, NEW names, NEW event, PlainReport(u, names, event)
  PROVE  \E g, a, b :
           /\ Enumerates(g, DOMAIN event.game) /\ Enumerates(a, DOMAIN event.team_a)
           /\ Enumerates(b, DOMAIN event.team_b)
           /\ LinesOf(event.game, g) \in Seq(Texts) /\ LinesOf(event.team_a, a) \in Seq(Texts)
           /\ LinesOf(event.team_b, b) \in Seq(Texts)
           /\ WholeLines(ReportBody(u, names, event), BodyLines(u, names, event, g, a, b))
<1>1. PICK g : Enumerates(g, DOMAIN event.game)
                /\ WholeLines(UpdateLines(event.game), LinesOf(event.game, g))
  BY WholeUpdateLines DEF PlainReport, PlainMap, InFields
<1>2. PICK a : Enumerates(a, DOMAIN event.team_a)
                /\ WholeLines(UpdateLines(event.team_a), LinesOf(event.team_a, a))
  BY WholeUpdateLines DEF PlainReport, PlainMap, InFields
<1>3. PICK b : Enumerates(b, DOMAIN event.team_b)
                /\ WholeLines(UpdateLines(event.team_b), LinesOf(event.team_b, b))
  BY WholeUpdateLines DEF PlainReport, PlainMap, InFields
<1>4. /\ "user" \in Keywords /\ "team a" \in Keywords /\ "team b" \in Keywords
          /\ "event name" \in Keywords
      /\ "time" \in Keywords /\ "general game updates" \in Keywords
      /\ "team a updates" \in Keywords /\ "team b updates" \in Keywords /\ "description" \in Keywords
  BY DEF Keywords
<1>5. ASSUME NEW w \in Keywords, NEW v, InOneLine(v)
      PROVE  WholeLines(Line(<<w>> \o <<Colon>> \o v), <<(<<w>> \o <<Colon>> \o v)>>)
  <2>1. InOneLine(<<w>>)
    BY KeywordInField DEF InOneField
  <2>2. InOneLine(<<w>> \o <<Colon>> \o v) /\ <<w>> \o <<Colon>> \o v # <<>>
    BY <1>5, <2>1, LabelledLine
  <2>. QED BY <2>2, OneWholeLine
<1>6. ASSUME NEW w \in Keywords
      PROVE  WholeLines(Heading(<<w>>), <<(<<w>> \o <<Colon>>)>>)
  <2>1. InOneLine(<<w>>)
    BY KeywordInField DEF InOneField
  <2>2. InOneLine(<<w>> \o <<Colon>>) /\ <<w>> \o <<Colon>> # <<>>
    BY <2>1, LabelledLine
  <2>. QED BY <2>2, OneWholeLine DEF Heading
<1>7. InOneLine(TimeText(event.time)) /\ ToString(event.time) \in Tokens
  <2>1. ToString(event.time) \in Tokens /\ ToString(event.time) # NL /\ ToString(event.time) # Colon
    BY DEF PlainReport, Separators
  <2>. QED BY <2>1, WordInField DEF TimeText, InOneField
<1>8. /\ InOneLine(u) /\ InOneLine(names.team_a) /\ InOneLine(names.team_b) /\ InOneLine(event.name)
      /\ InOneLine(event.description) /\ event.description # <<>>
  BY DEF PlainReport, InOneField, Empty
<1>. DEFINE L1 == <<"user">> \o <<Colon>> \o u
            L2 == TeamA \o <<Colon>> \o names.team_a
            L3 == TeamB \o <<Colon>> \o names.team_b
            L4 == <<"event name">> \o <<Colon>> \o event.name
            L5 == TimeLine(event.time)
            L6 == GeneralLabel \o <<Colon>>
            LA == TeamALabel \o <<Colon>>
            LB == TeamBLabel \o <<Colon>>
            LD == DescriptionLabel \o <<Colon>>
<1>9. ReportBody(u, names, event) =
        Line(L1) \o Line(L2) \o Line(L3) \o Line(L4) \o Line(L5)
          \o Heading(GeneralLabel) \o UpdateLines(event.game)
          \o Heading(TeamALabel) \o UpdateLines(event.team_a)
          \o Heading(TeamBLabel) \o UpdateLines(event.team_b)
          \o Heading(DescriptionLabel) \o Line(event.description)
  <2>1. <<"user", Colon>> \o u = L1 /\ <<"event name", Colon>> \o event.name = L4
    BY <1>4, <1>8, WordLineIs DEF InOneLine
  <2>2. <<"time", Colon, ToString(event.time)>> = L5
    BY <1>7, TimeLineIs
  <2>. QED BY <2>1, <2>2 DEF ReportBody
<1>10. /\ WholeLines(Line(L1), <<L1>>) /\ WholeLines(Line(L2), <<L2>>) /\ WholeLines(Line(L3), <<L3>>)
       /\ WholeLines(Line(L4), <<L4>>) /\ WholeLines(Line(L5), <<L5>>)
       /\ WholeLines(Heading(GeneralLabel), <<L6>>) /\ WholeLines(Heading(TeamALabel), <<LA>>)
       /\ WholeLines(Heading(TeamBLabel), <<LB>>) /\ WholeLines(Heading(DescriptionLabel), <<LD>>)
       /\ WholeLines(Line(event.description), <<event.description>>)
  BY <1>4, <1>5, <1>6, <1>7, <1>8, OneWholeLine
     
       DEF TimeLine, TeamA, TeamB, GeneralLabel, TeamALabel, TeamBLabel, DescriptionLabel
<1>11. BodyLines(u, names, event, g, a, b) =
         <<L1>> \o <<L2>> \o <<L3>> \o <<L4>> \o <<L5>> \o <<L6>> \o LinesOf(event.game, g)
           \o <<LA>> \o LinesOf(event.team_a, a) \o <<LB>> \o LinesOf(event.team_b, b)
           \o <<LD>> \o <<event.description>>
  BY DEF BodyLines
<1>. HIDE DEF L1, L2, L3, L4, L5, L6, LA, LB, LD
<1>12. WholeLines(ReportBody(u, names, event), BodyLines(u, names, event, g, a, b))
  <2>1. WholeLines(Line(L1) \o Line(L2), <<L1>> \o <<L2>>)
    BY <1>10, MoreWholeLines
  <2>2. WholeLines(Line(L1) \o Line(L2) \o Line(L3), <<L1>> \o <<L2>> \o <<L3>>)
    BY <1>10, <2>1, MoreWholeLines
  <2>3. WholeLines(Line(L1) \o Line(L2) \o Line(L3) \o Line(L4), <<L1>> \o <<L2>> \o <<L3>> \o <<L4>>)
    BY <1>10, <2>2, MoreWholeLines
  <2>. DEFINE t4 == Line(L1) \o Line(L2) \o Line(L3) \o Line(L4)
              l4 == <<L1>> \o <<L2>> \o <<L3>> \o <<L4>>
  <2>4. WholeLines(t4 \o Line(L5) \o Heading(GeneralLabel), l4 \o <<L5>> \o <<L6>>)
    <3>1. WholeLines(t4, l4)
      BY <2>3
    <3>. HIDE DEF t4, l4
    <3>2. WholeLines(t4 \o Line(L5), l4 \o <<L5>>)
      BY <1>10, <3>1, MoreWholeLines
    <3>. QED BY <1>10, <3>2, MoreWholeLines
  <2>. DEFINE t6 == t4 \o Line(L5) \o Heading(GeneralLabel)
              l6 == l4 \o <<L5>> \o <<L6>>
              t8 == t6 \o UpdateLines(event.game) \o Heading(TeamALabel)
              l8 == l6 \o LinesOf(event.game, g) \o <<LA>>
              t10 == t8 \o UpdateLines(event.team_a) \o Heading(TeamBLabel)
              l10 == l8 \o LinesOf(event.team_a, a) \o <<LB>>
              t12 == t10 \o UpdateLines(event.team_b) \o Heading(DescriptionLabel)
              l12 == l10 \o LinesOf(event.team_b, b) \o <<LD>>
  <2>5. WholeLines(t8, l8)
    <3>1. WholeLines(t6, l6)
      BY <2>4
    <3>. HIDE DEF t6, l6
    <3>2. WholeLines(t6 \o UpdateLines(event.game), l6 \o LinesOf(event.game, g))
      BY <1>1, <3>1, MoreWholeLines
    <3>. QED BY <1>10, <3>2, MoreWholeLines
  <2>6. WholeLines(t10, l10)
    <3>. HIDE DEF t8, l8
    <3>2. WholeLines(t8 \o UpdateLines(event.team_a), l8 \o LinesOf(event.team_a, a))
      BY <1>2, <2>5, MoreWholeLines
    <3>. QED BY <1>10, <3>2, MoreWholeLines
  <2>7. WholeLines(t12, l12)
    <3>. HIDE DEF t10, l10
    <3>2. WholeLines(t10 \o UpdateLines(event.team_b), l10 \o LinesOf(event.team_b, b))
      BY <1>3, <2>6, MoreWholeLines
    <3>. QED BY <1>10, <3>2, MoreWholeLines
  <2>8. WholeLines(t12 \o Line(event.description), l12 \o <<event.description>>)
    <3>. HIDE DEF t12, l12
    <3>. QED BY <1>10, <2>7, MoreWholeLines
  <2>. QED BY <1>9, <1>11, <2>8
<1>13. /\ LinesOf(event.game, g) \in Seq(Texts) /\ LinesOf(event.team_a, a) \in Seq(Texts)
       /\ LinesOf(event.team_b, b) \in Seq(Texts)
  BY <1>1, <1>2, <1>3 DEF WholeLines, IsLines
<1>. QED BY <1>1, <1>2, <1>3, <1>12, <1>13

(* How many updates there are in each of the three lists *)
Counts(event, g, a, b, n1, n2, n3) ==
  /\ n1 = Len(LinesOf(event.game, g)) /\ n2 = Len(LinesOf(event.team_a, a))
  /\ n3 = Len(LinesOf(event.team_b, b))

(* Lines around three lists of lines, and where each of them is *)
Layout(lines, L1, L2, L3, L4, L5, L6, LA, LB, LD, D, G, A, B, n1, n2, n3) ==
  /\ lines = <<L1>> \o <<L2>> \o <<L3>> \o <<L4>> \o <<L5>> \o <<L6>> \o G \o <<LA>> \o A
               \o <<LB>> \o B \o <<LD>> \o <<D>> \o << <<>> >>
  /\ n1 = Len(G) /\ n2 = Len(A) /\ n3 = Len(B)
  /\ G \in Seq(Texts) /\ A \in Seq(Texts) /\ B \in Seq(Texts)
  /\ L1 \in Texts /\ L2 \in Texts /\ L3 \in Texts /\ L4 \in Texts /\ L5 \in Texts /\ L6 \in Texts
  /\ LA \in Texts /\ LB \in Texts /\ LD \in Texts /\ D \in Texts

Placed(lines, L1, L2, L3, L4, L5, L6, LA, LB, LD, D, G, A, B, n1, n2, n3) ==
  /\ n1 \in Nat /\ n2 \in Nat /\ n3 \in Nat
  /\ Len(lines) = 11 + n1 + n2 + n3
  /\ lines[1] = L1 /\ lines[4] = L4 /\ lines[5] = L5
  /\ \A i \in 1 .. n1 : lines[6 + i] = G[i]
  /\ lines[7 + n1] = LA
  /\ \A i \in 1 .. n2 : lines[7 + n1 + i] = A[i]
  /\ lines[8 + n1 + n2] = LB
  /\ \A i \in 1 .. n3 : lines[8 + n1 + n2 + i] = B[i]
  /\ lines[9 + n1 + n2 + n3] = LD
  /\ lines[10 + n1 + n2 + n3] = D

(* A list of lines with three lists among them *)
LEMMA LinesAround ==
  ASSUME NEW L1, NEW L2, NEW L3, NEW L4, NEW L5, NEW L6, NEW LA, NEW LB, NEW LD, NEW D,
         NEW G, NEW A, NEW B, NEW lines, NEW n1, NEW n2, NEW n3,
         Layout(lines, L1, L2, L3, L4, L5, L6, LA, LB, LD, D, G, A, B, n1, n2, n3)
  PROVE  Placed(lines, L1, L2, L3, L4, L5, L6, LA, LB, LD, D, G, A, B, n1, n2, n3)
<1>0. /\ L1 \in Texts /\ L2 \in Texts /\ L3 \in Texts /\ L4 \in Texts /\ L5 \in Texts /\ L6 \in Texts
      /\ LA \in Texts /\ LB \in Texts /\ LD \in Texts /\ D \in Texts
  BY DEF Layout
<1>00. G \in Seq(Texts) /\ A \in Seq(Texts) /\ B \in Seq(Texts)
  BY DEF Layout
<1>. DEFINE s0 == <<>>
            s1 == <<L1>>
            s2 == s1 \o <<L2>>
            s3 == s2 \o <<L3>>
            s4 == s3 \o <<L4>>
            s5 == s4 \o <<L5>>
            s6 == s5 \o <<L6>>
            s7 == s6 \o G
            s8 == s7 \o <<LA>>
            s9 == s8 \o A
            s10 == s9 \o <<LB>>
            s11 == s10 \o B
            s12 == s11 \o <<LD>>
            s13 == s12 \o <<D>>
<1>41. s0 \in Seq(Texts) /\ Len(s0) = 0
  OBVIOUS
<1>42. s1 = s0 \o <<L1>>
  BY <1>0
<1>43. /\ s2 = s1 \o <<L2>>
       /\ s3 = s2 \o <<L3>>
       /\ s4 = s3 \o <<L4>>
       /\ s5 = s4 \o <<L5>>
       /\ s6 = s5 \o <<L6>>
       /\ s7 = s6 \o G
       /\ s8 = s7 \o <<LA>>
       /\ s9 = s8 \o A
       /\ s10 = s9 \o <<LB>>
       /\ s11 = s10 \o B
       /\ s12 = s11 \o <<LD>>
       /\ s13 = s12 \o <<D>>
  OBVIOUS
<1>44. lines = s13 \o << <<>> >>
  BY DEF Layout
<1>3. n1 = Len(G) /\ n2 = Len(A) /\ n3 = Len(B)
  BY DEF Layout
<1>. HIDE DEF s0, s1, s2, s3, s4, s5, s6, s7, s8, s9, s10, s11, s12, s13
<1>45. \A s \in Seq(Texts) : \A x \in Texts : s \o <<x>> \in Seq(Texts)
  OBVIOUS
<1>46. \A s, t \in Seq(Texts) : s \o t \in Seq(Texts)
  OBVIOUS
<1>51. s1 \in Seq(Texts)
  BY <1>0, <1>00, <1>45, <1>41, <1>42
<1>52. s2 \in Seq(Texts)
  BY <1>0, <1>00, <1>45, <1>51, <1>43
<1>53. s3 \in Seq(Texts)
  BY <1>0, <1>00, <1>45, <1>52, <1>43
<1>54. s4 \in Seq(Texts)
  BY <1>0, <1>00, <1>45, <1>53, <1>43
<1>55. s5 \in Seq(Texts)
  BY <1>0, <1>00, <1>45, <1>54, <1>43
<1>56. s6 \in Seq(Texts)
  BY <1>0, <1>00, <1>45, <1>55, <1>43
<1>57. s7 \in Seq(Texts)
  BY <1>0, <1>00, <1>46, <1>56, <1>43
<1>58. s8 \in Seq(Texts)
  BY <1>0, <1>00, <1>45, <1>57, <1>43
<1>59. s9 \in Seq(Texts)
  BY <1>0, <1>00, <1>46, <1>58, <1>43
<1>60. s10 \in Seq(Texts)
  BY <1>0, <1>00, <1>45, <1>59, <1>43
<1>61. s11 \in Seq(Texts)
  BY <1>0, <1>00, <1>46, <1>60, <1>43
<1>62. s12 \in Seq(Texts)
  BY <1>0, <1>00, <1>45, <1>61, <1>43
<1>63. s13 \in Seq(Texts)
  BY <1>0, <1>00, <1>45, <1>62, <1>43
<1>5. Starts(s13, lines) /\ Len(lines) = Len(s13) + 1
  <2>. DEFINE e == << <<>> >>
  <2>1. e \in Seq(Texts) /\ lines = s13 \o e
    BY <1>44 DEF Texts
  <2>2. Len(e) = 1
    OBVIOUS
  <2>. HIDE DEF e
  <2>3. Starts(s13, lines)
    BY <1>63, <2>1 DEF Starts
  <2>4. Len(lines) = Len(s13) + Len(e) /\ Len(s13) \in Nat
    BY <1>63, <2>1, ConcatLines
  <2>. QED BY <2>2, <2>3, <2>4
<1>70. Starts(s12, lines) /\ Len(s12) \in Nat /\ Len(s13) = Len(s12) + 1 /\ lines[Len(s12) + 1] = D
  <2>1. Starts(s12 \o <<D>>, lines) /\ s12 \in Seq(Texts) /\ D \in Texts
    BY <1>0, <1>00, <1>5, <1>43, <1>62
  <2>2. s13 = s12 \o <<D>>
    BY <1>43
  <2>. QED BY <2>1, <2>2, StartsBeforeLine
<1>71. Starts(s11, lines) /\ Len(s11) \in Nat /\ Len(s12) = Len(s11) + 1 /\ lines[Len(s11) + 1] = LD
  <2>1. Starts(s11 \o <<LD>>, lines) /\ s11 \in Seq(Texts) /\ LD \in Texts
    BY <1>0, <1>00, <1>70, <1>43, <1>61
  <2>2. s12 = s11 \o <<LD>>
    BY <1>43
  <2>. QED BY <2>1, <2>2, StartsBeforeLine
<1>72. /\ Starts(s10, lines) /\ Len(s10) \in Nat /\ Len(B) \in Nat /\ Len(s11) = Len(s10) + Len(B)
       /\ \A i \in 1 .. Len(B) : lines[Len(s10) + i] = B[i]
  <2>1. Starts(s10 \o B, lines) /\ s10 \in Seq(Texts) /\ B \in Seq(Texts)
    BY <1>0, <1>00, <1>71, <1>43, <1>60
  <2>2. /\ Starts(s10, lines) /\ Len(s10) \in Nat /\ Len(B) \in Nat
        /\ Len(s10 \o B) = Len(s10) + Len(B)
        /\ \A i \in 1 .. Len(B) : lines[Len(s10) + i] = B[i]
    BY <2>1, StartsBefore
  <2>3. Len(s11) = Len(s10) + Len(B)
    BY <1>43, <2>2, Zenon
  <2>. QED BY <2>2, <2>3
<1>73. Starts(s9, lines) /\ Len(s9) \in Nat /\ Len(s10) = Len(s9) + 1 /\ lines[Len(s9) + 1] = LB
  <2>1. Starts(s9 \o <<LB>>, lines) /\ s9 \in Seq(Texts) /\ LB \in Texts
    BY <1>0, <1>00, <1>72, <1>43, <1>59
  <2>2. s10 = s9 \o <<LB>>
    BY <1>43
  <2>. QED BY <2>1, <2>2, StartsBeforeLine
<1>74. /\ Starts(s8, lines) /\ Len(s8) \in Nat /\ Len(A) \in Nat /\ Len(s9) = Len(s8) + Len(A)
       /\ \A i \in 1 .. Len(A) : lines[Len(s8) + i] = A[i]
  <2>1. Starts(s8 \o A, lines) /\ s8 \in Seq(Texts) /\ A \in Seq(Texts)
    BY <1>0, <1>00, <1>73, <1>43, <1>58
  <2>2. /\ Starts(s8, lines) /\ Len(s8) \in Nat /\ Len(A) \in Nat
        /\ Len(s8 \o A) = Len(s8) + Len(A)
        /\ \A i \in 1 .. Len(A) : lines[Len(s8) + i] = A[i]
    BY <2>1, StartsBefore
  <2>3. Len(s9) = Len(s8) + Len(A)
    BY <1>43, <2>2, Zenon
  <2>. QED BY <2>2, <2>3
<1>75. Starts(s7, lines) /\ Len(s7) \in Nat /\ Len(s8) = Len(s7) + 1 /\ lines[Len(s7) + 1] = LA
  <2>1. Starts(s7 \o <<LA>>, lines) /\ s7 \in Seq(Texts) /\ LA \in Texts
    BY <1>0, <1>00, <1>74, <1>43, <1>57
  <2>2. s8 = s7 \o <<LA>>
    BY <1>43
  <2>. QED BY <2>1, <2>2, StartsBeforeLine
<1>76. /\ Starts(s6, lines) /\ Len(s6) \in Nat /\ Len(G) \in Nat /\ Len(s7) = Len(s6) + Len(G)
       /\ \A i \in 1 .. Len(G) : lines[Len(s6) + i] = G[i]
  <2>1. Starts(s6 \o G, lines) /\ s6 \in Seq(Texts) /\ G \in Seq(Texts)
    BY <1>0, <1>00, <1>75, <1>43, <1>56
  <2>2. /\ Starts(s6, lines) /\ Len(s6) \in Nat /\ Len(G) \in Nat
        /\ Len(s6 \o G) = Len(s6) + Len(G)
        /\ \A i \in 1 .. Len(G) : lines[Len(s6) + i] = G[i]
    BY <2>1, StartsBefore
  <2>3. Len(s7) = Len(s6) + Len(G)
    BY <1>43, <2>2, Zenon
  <2>. QED BY <2>2, <2>3
<1>77. Starts(s5, lines) /\ Len(s5) \in Nat /\ Len(s6) = Len(s5) + 1 /\ lines[Len(s5) + 1] = L6
  <2>1. Starts(s5 \o <<L6>>, lines) /\ s5 \in Seq(Texts) /\ L6 \in Texts
    BY <1>0, <1>00, <1>76, <1>43, <1>55
  <2>2. s6 = s5 \o <<L6>>
    BY <1>43
  <2>. QED BY <2>1, <2>2, StartsBeforeLine
<1>78. Starts(s4, lines) /\ Len(s4) \in Nat /\ Len(s5) = Len(s4) + 1 /\ lines[Len(s4) + 1] = L5
  <2>1. Starts(s4 \o <<L5>>, lines) /\ s4 \in Seq(Texts) /\ L5 \in Texts
    BY <1>0, <1>00, <1>77, <1>43, <1>54
  <2>2. s5 = s4 \o <<L5>>
    BY <1>43
  <2>. QED BY <2>1, <2>2, StartsBeforeLine
<1>79. Starts(s3, lines) /\ Len(s3) \in Nat /\ Len(s4) = Len(s3) + 1 /\ lines[Len(s3) + 1] = L4
  <2>1. Starts(s3 \o <<L4>>, lines) /\ s3 \in Seq(Texts) /\ L4 \in Texts
    BY <1>0, <1>00, <1>78, <1>43, <1>53
  <2>2. s4 = s3 \o <<L4>>
    BY <1>43
  <2>. QED BY <2>1, <2>2, StartsBeforeLine
<1>80. Starts(s2, lines) /\ Len(s2) \in Nat /\ Len(s3) = Len(s2) + 1 /\ lines[Len(s2) + 1] = L3
  <2>1. Starts(s2 \o <<L3>>, lines) /\ s2 \in Seq(Texts) /\ L3 \in Texts
    BY <1>0, <1>00, <1>79, <1>43, <1>52
  <2>2. s3 = s2 \o <<L3>>
    BY <1>43
  <2>. QED BY <2>1, <2>2, StartsBeforeLine
<1>81. Starts(s1, lines) /\ Len(s1) \in Nat /\ Len(s2) = Len(s1) + 1 /\ lines[Len(s1) + 1] = L2
  <2>1. Starts(s1 \o <<L2>>, lines) /\ s1 \in Seq(Texts) /\ L2 \in Texts
    BY <1>0, <1>00, <1>80, <1>43, <1>51
  <2>2. s2 = s1 \o <<L2>>
    BY <1>43
  <2>. QED BY <2>1, <2>2, StartsBeforeLine
<1>82. Starts(s0, lines) /\ Len(s0) \in Nat /\ Len(s1) = Len(s0) + 1 /\ lines[Len(s0) + 1] = L1
  <2>1. Starts(s0 \o <<L1>>, lines) /\ s0 \in Seq(Texts) /\ L1 \in Texts
    BY <1>0, <1>00, <1>81, <1>42, <1>41
  <2>2. s1 = s0 \o <<L1>>
    BY <1>42
  <2>. QED BY <2>1, <2>2, StartsBeforeLine
<1>90. /\ Len(s1) = 1 /\ Len(s2) = 2 /\ Len(s3) = 3 /\ Len(s4) = 4 /\ Len(s5) = 5 /\ Len(s6) = 6
  BY <1>41, <1>77, <1>78, <1>79, <1>80, <1>81, <1>82
<1>91. /\ Len(s7) = 6 + n1 /\ Len(s8) = 7 + n1 /\ Len(s9) = 7 + n1 + n2 /\ Len(s10) = 8 + n1 + n2
       /\ Len(s11) = 8 + n1 + n2 + n3 /\ Len(s12) = 9 + n1 + n2 + n3 /\ Len(s13) = 10 + n1 + n2 + n3
       /\ n1 \in Nat /\ n2 \in Nat /\ n3 \in Nat
  BY <1>3, <1>90, <1>70, <1>71, <1>72, <1>73, <1>74, <1>75, <1>76
<1>92. Len(lines) = 11 + n1 + n2 + n3
  BY <1>5, <1>91
<1>93. /\ lines[1] = L1 /\ lines[4] = L4 /\ lines[5] = L5
  BY <1>41, <1>78, <1>79, <1>82, <1>90
<1>94. /\ \A i \in 1 .. n1 : lines[6 + i] = G[i]
       /\ \A i \in 1 .. n2 : lines[7 + n1 + i] = A[i]
       /\ \A i \in 1 .. n3 : lines[8 + n1 + n2 + i] = B[i]
  BY <1>3, <1>76, <1>74, <1>72, <1>90, <1>91
<1>95. /\ lines[7 + n1] = LA /\ lines[8 + n1 + n2] = LB /\ lines[9 + n1 + n2 + n3] = LD
       /\ lines[10 + n1 + n2 + n3] = D
  <2>1. /\ 6 + n1 + 1 = 7 + n1 /\ 7 + n1 + n2 + 1 = 8 + n1 + n2
            /\ 8 + n1 + n2 + n3 + 1 = 9 + n1 + n2 + n3
        /\ 9 + n1 + n2 + n3 + 1 = 10 + n1 + n2 + n3
    <3>1. n1 \in Nat /\ n2 \in Nat /\ n3 \in Nat
      BY <1>91
    <3>2. \A x, y, z \in Nat :
             /\ 6 + x + 1 = 7 + x /\ 7 + x + y + 1 = 8 + x + y /\ 8 + x + y + z + 1 = 9 + x + y + z
             /\ 9 + x + y + z + 1 = 10 + x + y + z
      OBVIOUS
    <3>. QED BY <3>1, <3>2
  <2>. QED BY <1>70, <1>71, <1>73, <1>75, <1>91, <2>1
<1>. QED BY <1>91, <1>92, <1>93, <1>94, <1>95 DEF Placed

(* The lines of a body, as split gives them *)
LinesOfBody(lines, u, names, event, g, a, b) ==
  /\ LinesOf(event.game, g) \in Seq(Texts) /\ LinesOf(event.team_a, a) \in Seq(Texts)
  /\ LinesOf(event.team_b, b) \in Seq(Texts)
  /\ lines = BodyLines(u, names, event, g, a, b) \o << <<>> >>

(* What a body has in its lines *)
Parts(lines, u, event, g, a, b, n1, n2, n3) ==
  /\ n1 \in Nat /\ n2 \in Nat /\ n3 \in Nat
  /\ Len(lines) = 11 + n1 + n2 + n3
  /\ lines[1] = <<"user">> \o <<Colon>> \o u
  /\ lines[4] = <<"event name">> \o <<Colon>> \o event.name
  /\ lines[5] = TimeLine(event.time)
  /\ \A i \in 1 .. n1 : lines[6 + i] = LinesOf(event.game, g)[i]
  /\ lines[7 + n1] = TeamALabel \o <<Colon>>
  /\ \A i \in 1 .. n2 : lines[7 + n1 + i] = LinesOf(event.team_a, a)[i]
  /\ lines[8 + n1 + n2] = TeamBLabel \o <<Colon>>
  /\ \A i \in 1 .. n3 : lines[8 + n1 + n2 + i] = LinesOf(event.team_b, b)[i]
  /\ lines[9 + n1 + n2 + n3] = DescriptionLabel \o <<Colon>>
  /\ lines[10 + n1 + n2 + n3] = event.description

(* Where the parts of a body are among its lines *)
LEMMA BodyPositions ==
  ASSUME NEW u, NEW names, NEW event, PlainReport(u, names, event), NEW g, NEW a, NEW b,
         NEW lines, NEW n1, NEW n2, NEW n3,
         LinesOfBody(lines, u, names, event, g, a, b), Counts(event, g, a, b, n1, n2, n3)
  PROVE  Parts(lines, u, event, g, a, b, n1, n2, n3)
<1>. DEFINE L1 == <<"user">> \o <<Colon>> \o u
            L2 == TeamA \o <<Colon>> \o names.team_a
            L3 == TeamB \o <<Colon>> \o names.team_b
            L4 == <<"event name">> \o <<Colon>> \o event.name
            L5 == TimeLine(event.time)
            L6 == GeneralLabel \o <<Colon>>
            LA == TeamALabel \o <<Colon>>
            LB == TeamBLabel \o <<Colon>>
            LD == DescriptionLabel \o <<Colon>>
            D == event.description
            G == LinesOf(event.game, g)
            A == LinesOf(event.team_a, a)
            B == LinesOf(event.team_b, b)
<1>1. lines = <<L1>> \o <<L2>> \o <<L3>> \o <<L4>> \o <<L5>> \o <<L6>> \o G \o <<LA>> \o A
                \o <<LB>> \o B \o <<LD>> \o <<D>> \o << <<>> >>
  BY DEF LinesOfBody, BodyLines
<1>2. /\ L1 \in Texts /\ L2 \in Texts /\ L3 \in Texts /\ L4 \in Texts /\ L5 \in Texts /\ L6 \in Texts
      /\ LA \in Texts /\ LB \in Texts /\ LD \in Texts /\ D \in Texts /\ <<>> \in Texts
  <2>1. /\ "user" \in Keywords /\ "team a" \in Keywords /\ "team b" \in Keywords
            /\ "event name" \in Keywords
        /\ "time" \in Keywords /\ "general game updates" \in Keywords
        /\ "team a updates" \in Keywords /\ "team b updates" \in Keywords /\ "description" \in Keywords
    BY DEF Keywords
  <2>2. \A w \in Keywords : <<w>> \in Texts
    BY KeywordInField DEF InOneField, InOneLine
  <2>3. /\ u \in Texts /\ names.team_a \in Texts /\ names.team_b \in Texts /\ event.name \in Texts
        /\ D \in Texts /\ ToString(event.time) \in Tokens
    BY DEF PlainReport, InOneField, InOneLine
  <2>4. \A x, y \in Texts : x \o <<Colon>> \in Texts /\ (x \o <<Colon>>) \o y \in Texts
    BY NLIsToken DEF Texts
  <2>5. TimeText(event.time) \in Texts /\ <<>> \in Texts
    BY <2>3 DEF Texts, TimeText
  <2>. QED BY <2>1, <2>2, <2>3, <2>4, <2>5 
       DEF TimeLine, TeamA, TeamB, GeneralLabel, TeamALabel, TeamBLabel, DescriptionLabel
<1>3. G \in Seq(Texts) /\ A \in Seq(Texts) /\ B \in Seq(Texts) /\ n1 = Len(G) /\ n2 = Len(A)
       /\ n3 = Len(B)
  BY DEF LinesOfBody, Counts
<1>. HIDE DEF L1, L2, L3, L4, L5, L6, LA, LB, LD, D, G, A, B
<1>4. Layout(lines, L1, L2, L3, L4, L5, L6, LA, LB, LD, D, G, A, B, n1, n2, n3)
  BY <1>1, <1>2, <1>3 DEF Layout
<1>5. Placed(lines, L1, L2, L3, L4, L5, L6, LA, LB, LD, D, G, A, B, n1, n2, n3)
  BY <1>4, LinesAround
<1>. QED BY <1>5 DEF Placed, Parts, L1, L4, L5, LA, LB, LD, D, G, A, B

(* A record that tells what an event does *)
Tells(report, event) ==
  /\ report \in ReportRecords
  /\ report.name = event.name /\ report.time = TimeText(event.time)
  /\ report.description = event.description
  /\ PutAll(report.game) = event.game
  /\ PutAll(report.team_a) = event.team_a /\ PutAll(report.team_b) = event.team_b

(* Report-body round trip: a body that StompClientProtocol::report writes of an event whose
   parts do not collide with the separators is read by summary as that event, and the
   first line gives its sender, whatever the order in which the updates are written. *)
THEOREM PlainReportIsRead ==
  ASSUME NEW u, NEW names, NEW event, PlainReport(u, names, event), Throws \notin Texts
  PROVE  /\ Blankless(ReportBody(u, names, event))
         /\ Field(split(ReportBody(u, names, event), <<NL>>)[1], 2) = u
         /\ Tells(ReadReport(ReportBody(u, names, event)), event)
<1>. DEFINE body == ReportBody(u, names, event)
            lines == split(body, <<NL>>)
<1>1. PICK g, a, b :
        /\ Enumerates(g, DOMAIN event.game) /\ Enumerates(a, DOMAIN event.team_a)
        /\ Enumerates(b, DOMAIN event.team_b)
        /\ LinesOf(event.game, g) \in Seq(Texts) /\ LinesOf(event.team_a, a) \in Seq(Texts)
        /\ LinesOf(event.team_b, b) \in Seq(Texts)
        /\ WholeLines(body, BodyLines(u, names, event, g, a, b))
  BY BodyInLines
<1>2. LinesOfBody(lines, u, names, event, g, a, b)
  <2>1. lines = BodyLines(u, names, event, g, a, b) \o << <<>> >>
    BY <1>1, LinesSplit DEF WholeLines
  <2>. QED BY <1>1, <2>1 DEF LinesOfBody
<1>. DEFINE n1 == Len(LinesOf(event.game, g))
            n2 == Len(LinesOf(event.team_a, a))
            n3 == Len(LinesOf(event.team_b, b))
<1>3. Counts(event, g, a, b, n1, n2, n3)
  BY DEF Counts
<1>4. n1 = Len(g) /\ n2 = Len(a) /\ n3 = Len(b)
  <2>1. \A map, ks, S : Enumerates(ks, S) => Len(LinesOf(map, ks)) = Len(ks)
    BY DEF LinesOf, Enumerates
  <2>. QED BY <1>1, <2>1
<1>. HIDE DEF n1, n2, n3, lines
<1>p. Parts(lines, u, event, g, a, b, n1, n2, n3)
  BY <1>2, <1>3, BodyPositions
<1>n. n1 \in Nat /\ n2 \in Nat /\ n3 \in Nat
  BY <1>p DEF Parts
<1>l. Len(lines) = 11 + n1 + n2 + n3
  BY <1>p DEF Parts
<1>f. /\ lines[1] = <<"user">> \o <<Colon>> \o u
      /\ lines[4] = <<"event name">> \o <<Colon>> \o event.name
      /\ lines[5] = TimeLine(event.time)
  BY <1>p DEF Parts
<1>g. \A i \in 1 .. n1 : lines[6 + i] = LinesOf(event.game, g)[i]
  BY <1>p DEF Parts
<1>ga. \A i \in 1 .. n2 : lines[7 + n1 + i] = LinesOf(event.team_a, a)[i]
  BY <1>p DEF Parts
<1>gb. \A i \in 1 .. n3 : lines[8 + n1 + n2 + i] = LinesOf(event.team_b, b)[i]
  BY <1>p DEF Parts
<1>h. /\ lines[7 + n1] = TeamALabel \o <<Colon>>
      /\ lines[8 + n1 + n2] = TeamBLabel \o <<Colon>>
      /\ lines[9 + n1 + n2 + n3] = DescriptionLabel \o <<Colon>>
  BY <1>p DEF Parts
<1>d. lines[10 + n1 + n2 + n3] = event.description
  BY <1>p DEF Parts
<1>6. /\ Field(lines[1], 2) = u
      /\ Field(lines[4], 2) = event.name
      /\ Field(lines[5], 2) = TimeText(event.time)
  <2>1. /\ InOneField(<<"user">>) /\ InOneField(<<"event name">>) /\ InOneField(<<"time">>)
    BY KeywordInField DEF Keywords
  <2>2. InOneField(u) /\ InOneField(event.name)
    BY DEF PlainReport
  <2>3. InOneField(TimeText(event.time))
    <3>1. ToString(event.time) \in Tokens /\ ToString(event.time) # NL /\ ToString(event.time) # Colon
      BY DEF PlainReport, Separators
    <3>. QED BY <3>1, WordInField DEF TimeText
  <2>4. lines[5] = <<"time">> \o <<Colon>> \o TimeText(event.time)
    BY <1>f DEF TimeLine
  <2>. QED BY <1>f, <2>1, <2>2, <2>3, <2>4, FieldsOfKeyLine
<1>. DEFINE a1 == 7 + n1
            b1 == 8 + n1 + n2
            d1 == 9 + n1 + n2 + n3
            KV(first, last) == KeysAndValues(lines, first, last)
<1>a. /\ a1 \in Nat /\ b1 \in Nat /\ d1 \in Nat
      /\ 7 + n1 = a1 /\ a1 + 1 + n2 = b1 /\ b1 + 1 + n3 = d1
      /\ a1 > 0 /\ b1 > 0 /\ d1 > 0
      /\ \A i \in 1 .. n1 : 7 + i - 1 = 6 + i
      /\ \A i \in 1 .. n2 : a1 + 1 + i - 1 = 7 + n1 + i
      /\ \A i \in 1 .. n3 : b1 + 1 + i - 1 = 8 + n1 + n2 + i
      /\ d1 + 1 = 10 + n1 + n2 + n3
  BY <1>n
<1>b. /\ Len(lines) \in Nat /\ a1 <= Len(lines) /\ b1 <= Len(lines) /\ d1 <= Len(lines)
          /\ d1 # Len(lines)
  <2>. DEFINE N == Len(lines)
  <2>1. N = 11 + n1 + n2 + n3
    BY <1>l
  <2>. HIDE DEF N
  <2>2. N \in Nat /\ a1 <= N /\ b1 <= N /\ d1 <= N /\ d1 # N
    BY <1>n, <2>1
  <2>. QED BY <2>2 DEF N
<1>c. lines[a1] = TeamALabel \o <<Colon>> /\ lines[b1] = TeamBLabel \o <<Colon>>
       /\ lines[d1] = DescriptionLabel \o <<Colon>>
  BY <1>h
<1>k. /\ \A i \in 1 .. n1 : lines[6 + i] = KeyLineText(event.game, g[i])
      /\ \A i \in 1 .. n2 : lines[7 + n1 + i] = KeyLineText(event.team_a, a[i])
      /\ \A i \in 1 .. n3 : lines[8 + n1 + n2 + i] = KeyLineText(event.team_b, b[i])
  BY <1>4, <1>g, <1>ga, <1>gb DEF LinesOf
<1>m. /\ PlainMap(event.game) /\ PlainMap(event.team_a) /\ PlainMap(event.team_b)
      /\ TeamALabel \in Labels /\ TeamBLabel \in Labels /\ DescriptionLabel \in Labels
  BY DEF PlainReport, Labels
<1>. HIDE DEF a1, b1, d1
<1>k1. \A i \in 1 .. n1 : lines[7 + i - 1] = KeyLineText(event.game, g[i])
  BY <1>a, <1>k
<1>k2. \A i \in 1 .. n2 : lines[a1 + 1 + i - 1] = KeyLineText(event.team_a, a[i])
  BY <1>a, <1>k
<1>k3. \A i \in 1 .. n3 : lines[b1 + 1 + i - 1] = KeyLineText(event.team_b, b[i])
  BY <1>a, <1>k
<1>7. /\ HeadingOf(lines, 7, TeamALabel) = a1
      /\ PutAll(KV(7, a1 - 1)) = event.game
      /\ SecondOf(KV(7, a1 - 1)) \subseteq Texts /\ KV(7, a1 - 1) \in UpdatePairs
  <2>1. 7 \in Nat /\ 7 + Len(g) = a1
    BY <1>4, <1>a
  <2>2. /\ 7 + Len(g) <= Len(lines) /\ Len(lines) \in Nat
        /\ lines[7 + Len(g)] = TeamALabel \o <<Colon>>
        /\ \A i \in 1 .. Len(g) : lines[7 + i - 1] = KeyLineText(event.game, g[i])
    BY <1>4, <1>b, <1>c, <1>k1, <2>1
  <2>3. /\ HeadingOf(lines, 7, TeamALabel) = 7 + Len(g)
        /\ PutAll(KeysAndValues(lines, 7, 7 + Len(g) - 1)) = event.game
        /\ SecondOf(KeysAndValues(lines, 7, 7 + Len(g) - 1)) \subseteq Texts
        /\ KeysAndValues(lines, 7, 7 + Len(g) - 1) \in UpdatePairs
    BY <1>1, <1>m, <2>1, <2>2, UpdatesRead DEF UpdatePairs
  <2>. QED BY <2>1, <2>3
<1>8. /\ HeadingOf(lines, a1 + 1, TeamBLabel) = b1
      /\ PutAll(KV(a1 + 1, b1 - 1)) = event.team_a
      /\ SecondOf(KV(a1 + 1, b1 - 1)) \subseteq Texts /\ KV(a1 + 1, b1 - 1) \in UpdatePairs
  <2>. DEFINE f == a1 + 1
  <2>1. f \in Nat /\ f + Len(a) = b1
    BY <1>4, <1>a
  <2>2. /\ f + Len(a) <= Len(lines) /\ Len(lines) \in Nat
        /\ lines[f + Len(a)] = TeamBLabel \o <<Colon>>
        /\ \A i \in 1 .. Len(a) : lines[f + i - 1] = KeyLineText(event.team_a, a[i])
    BY <1>4, <1>b, <1>c, <1>k2, <2>1
  <2>. HIDE DEF f
  <2>3. /\ HeadingOf(lines, f, TeamBLabel) = f + Len(a)
        /\ PutAll(KeysAndValues(lines, f, f + Len(a) - 1)) = event.team_a
        /\ SecondOf(KeysAndValues(lines, f, f + Len(a) - 1)) \subseteq Texts
        /\ KeysAndValues(lines, f, f + Len(a) - 1) \in UpdatePairs
    BY <1>1, <1>m, <2>1, <2>2, UpdatesRead DEF UpdatePairs
  <2>. QED BY <2>1, <2>3 DEF f
<1>9. /\ HeadingOf(lines, b1 + 1, DescriptionLabel) = d1
      /\ PutAll(KV(b1 + 1, d1 - 1)) = event.team_b
      /\ SecondOf(KV(b1 + 1, d1 - 1)) \subseteq Texts /\ KV(b1 + 1, d1 - 1) \in UpdatePairs
  <2>. DEFINE f == b1 + 1
  <2>1. f \in Nat /\ f + Len(b) = d1
    BY <1>4, <1>a
  <2>2. /\ f + Len(b) <= Len(lines) /\ Len(lines) \in Nat
        /\ lines[f + Len(b)] = DescriptionLabel \o <<Colon>>
        /\ \A i \in 1 .. Len(b) : lines[f + i - 1] = KeyLineText(event.team_b, b[i])
    BY <1>4, <1>b, <1>c, <1>k3, <2>1
  <2>. HIDE DEF f
  <2>3. /\ HeadingOf(lines, f, DescriptionLabel) = f + Len(b)
        /\ PutAll(KeysAndValues(lines, f, f + Len(b) - 1)) = event.team_b
        /\ SecondOf(KeysAndValues(lines, f, f + Len(b) - 1)) \subseteq Texts
        /\ KeysAndValues(lines, f, f + Len(b) - 1) \in UpdatePairs
    BY <1>1, <1>m, <2>1, <2>2, UpdatesRead DEF UpdatePairs
  <2>. QED BY <2>1, <2>3 DEF f
<1>10. Headings(lines) = <<a1, b1, d1>>
  BY <1>7, <1>8, <1>9 DEF Headings
<1>11. /\ 0 \notin ToSet(<<a1, b1, d1>>) /\ <<a1, b1, d1>>[3] # Len(lines)
       /\ <<a1, b1, d1>>[1] = a1 /\ <<a1, b1, d1>>[2] = b1 /\ <<a1, b1, d1>>[3] = d1
  <2>1. a1 # 0 /\ b1 # 0 /\ d1 # 0
    BY <1>a
  <2>2. ToSet(<<a1, b1, d1>>) = {a1, b1, d1}
    BY DEF ToSet
  <2>. QED BY <1>b, <2>1, <2>2
<1>12. lines[d1 + 1] = event.description
  BY <1>a, <1>d
<1>. DEFINE report == [name |-> Field(lines[4], 2), time |-> Field(lines[5], 2),
                       description |-> lines[d1 + 1],
                       game |-> KV(7, a1 - 1), team_a |-> KV(a1 + 1, b1 - 1),
                       team_b |-> KV(b1 + 1, d1 - 1)]
<1>13. ReadReport(body) = UnlessUnreadable(report)
  <2>1. ReadLines(lines, <<a1, b1, d1>>) = UnlessUnreadable(report)
    BY <1>11 DEF ReadLines
  <2>2. ReadReport(body) = ReadLines(lines, Headings(lines))
    BY DEF ReadReport, LinesWithHeadings, lines
  <2>. QED BY <1>10, <2>1, <2>2
<1>14. report \in ReportRecords
  <2>1. event.name \in Texts /\ event.description \in Texts
    BY DEF PlainReport, InOneField, InOneLine
  <2>2. TimeText(event.time) \in Texts
    BY DEF PlainReport, TimeText, Texts
  <2>. HIDE DEF KV
  <2>. QED BY <1>6, <1>7, <1>8, <1>9, <1>12, <2>1, <2>2 DEF ReportRecords
<1>15. UnlessUnreadable(report) = report
  <2>1. Throws \notin {report.name, report.time} \cup SecondOf(report.game)
                        \cup SecondOf(report.team_a) \cup SecondOf(report.team_b)
    <3>1. report.name \in Texts /\ report.time \in Texts
      BY <1>14 DEF ReportRecords
    <3>. HIDE DEF KV
    <3>. QED BY <1>7, <1>8, <1>9, <3>1
  <2>. HIDE DEF report
  <2>. QED BY <2>1 DEF UnlessUnreadable
<1>16. Tells(report, event)
  <2>. HIDE DEF KV
  <2>. QED BY <1>6, <1>7, <1>8, <1>9, <1>12, <1>14 DEF Tells
<1>17. Blankless(body)
  BY <1>1 DEF WholeLines, FullLines
<1>. QED BY <1>6, <1>13, <1>15, <1>16, <1>17 DEF lines

-------------------------------------------------------------------------------
(* What the server reads of any report. *)

(* Where a blank line is, and what follows it *)
BlankAt(t, p) == p \in 1 .. Len(t) - 1 /\ t[p] = NL /\ t[p + 1] = NL

Behind(t, k) == SubSeq(t, k + 2, Len(t))

(* split cuts at the first blank line. *)
LEMMA FirstCut ==
  ASSUME NEW t \in Texts, NEW p, BlankAt(t, p)
  PROVE  \E k \in 1 .. p :
           /\ BlankAt(t, k) /\ \A i \in 1 .. k - 1 : ~BlankAt(t, i)
           /\ split(t, Blank) = <<SubSeq(t, 1, k - 1)>> \o split(Behind(t, k), Blank)
<1>. DEFINE O == {k \in 1 .. Len(t) - 1 : t[k] = NL /\ t[k + 1] = NL}
<1>1. Occurrences(t, Blank) = O
  BY OccurrenceOfTwo DEF Blank
<1>2. Len(t) \in Nat /\ p \in O /\ p \in Nat
  BY DEF BlankAt, Texts
<1>3. O \in SUBSET Nat /\ O # {}
  BY <1>2
<1>4. Blank \in Texts /\ Blank # <<>> /\ Len(Blank) = 2
  BY NLIsToken DEF Texts, Blank
<1>5. PICK k \in O : \A i \in O : k <= i
  <2>. HIDE DEF O
  <2>. QED BY <1>3, LeastNatural
<1>6. k \in 1 .. p /\ BlankAt(t, k)
  BY <1>2, <1>5 DEF BlankAt
<1>7. \A i \in 1 .. k - 1 : ~BlankAt(t, i)
  <2>1. \A i : BlankAt(t, i) => i \in O
    BY DEF BlankAt
  <2>2. \A i \in 1 .. k - 1 : ~(k <= i)
    BY <1>6
  <2>. QED BY <1>5, <2>1, <2>2
<1>8. split(t, Blank) = <<SubSeq(t, 1, k - 1)>> \o split(SubSeq(t, k + Len(Blank), Len(t)), Blank)
  <2>. HIDE DEF O, Blank
  <2>. QED BY <1>1, <1>4, <1>5, SplitFirst
<1>9. SubSeq(t, k + Len(Blank), Len(t)) = Behind(t, k)
  BY <1>4 DEF Behind
<1>. QED BY <1>6, <1>7, <1>8, <1>9

LEMMA BehindText ==
  ASSUME NEW t \in Texts, NEW k, BlankAt(t, k)
  PROVE  /\ Behind(t, k) \in Texts /\ Len(t) \in Nat /\ k \in Nat
         /\ Len(Behind(t, k)) = Len(t) - k - 1
         /\ \A i \in 1 .. Len(t) - k - 1 : Behind(t, k)[i] = t[i + k + 1]
<1>1. Len(t) \in Nat /\ k \in 1 .. Len(t) - 1
  BY DEF BlankAt, Texts
<1>2. \A q \in 1 .. Len(t) + 1 :
         /\ SubSeq(t, q, Len(t)) \in Texts
         /\ Len(SubSeq(t, q, Len(t))) = Len(t) - q + 1
         /\ \A i \in 1 .. Len(t) - q + 1 : SubSeq(t, q, Len(t))[i] = t[i + q - 1]
  BY DEF Texts
<1>3. k + 2 \in 1 .. Len(t) + 1 /\ Len(t) - (k + 2) + 1 = Len(t) - k - 1
      /\ \A i \in 1 .. Len(t) - k - 1 : i + (k + 2) - 1 = i + k + 1
  BY <1>1
<1>. DEFINE q == k + 2
<1>4. /\ SubSeq(t, q, Len(t)) \in Texts
      /\ Len(SubSeq(t, q, Len(t))) = Len(t) - q + 1
      /\ \A i \in 1 .. Len(t) - q + 1 : SubSeq(t, q, Len(t))[i] = t[i + q - 1]
  <2>. HIDE DEF q
  <2>1. q \in 1 .. Len(t) + 1
    BY <1>3 DEF q
  <2>. QED BY <1>2, <2>1
<1>5. Behind(t, k) = SubSeq(t, q, Len(t))
  BY DEF Behind
<1>6. /\ Behind(t, k) \in Texts /\ Len(t) \in Nat /\ k \in Nat
      /\ Len(Behind(t, k)) = Len(t) - k - 1
  <2>1. Len(t) - q + 1 = Len(t) - k - 1 /\ k \in Nat
    BY <1>1
  <2>. HIDE DEF q
  <2>2. Behind(t, k) \in Texts
    BY <1>4, <1>5
  <2>3. Len(Behind(t, k)) = Len(t) - k - 1
    BY <1>4, <1>5, <2>1
  <2>. QED BY <1>1, <2>1, <2>2, <2>3
<1>7. ASSUME NEW i \in 1 .. Len(t) - k - 1
      PROVE  Behind(t, k)[i] = t[i + k + 1]
  <2>1. i \in 1 .. Len(t) - q + 1 /\ i + q - 1 = i + k + 1
    BY <1>1
  <2>. HIDE DEF q
  <2>. QED BY <1>4, <1>5, <2>1
<1>. QED BY <1>6, <1>7

(* There is always a piece, and each piece is a text. *)
LEMMA BlankSplitType ==
  ASSUME NEW t \in Texts
  PROVE  split(t, Blank) \in Seq(Texts) /\ split(t, Blank) # <<>>
<1>1. Blank \in Texts /\ Blank # <<>>
  BY NLIsToken DEF Texts, Blank
<1>. QED BY <1>1, SplitType

LEMMA FirstOfPieces ==
  ASSUME NEW a \in Texts, NEW q \in Seq(Texts)
  PROVE  /\ <<a>> \o q \in Seq(Texts) /\ Len(q) \in Nat /\ Len(<<a>> \o q) = Len(q) + 1
         /\ (<<a>> \o q)[1] = a
         /\ \A i \in 1 .. Len(q) : (<<a>> \o q)[i + 1] = q[i]
BY DEF Texts

(* A text that is more than line feeds has a piece that is not empty. *)
LEMMA SomePiece ==
  ASSUME NEW t \in Texts, NEW j \in 1 .. Len(t), t[j] # NL
  PROVE  \E i \in 1 .. Len(split(t, Blank)) : split(t, Blank)[i] # <<>>
<1>. DEFINE Empties(x) == \A i \in 1 .. Len(split(x, Blank)) : split(x, Blank)[i] = <<>>
            S == {n \in Nat : \E x \in Texts : /\ Len(x) = n /\ Empties(x)
                                               /\ \E l \in 1 .. Len(x) : x[l] # NL}
<1>1. S = {}
  <2>1. SUFFICES ASSUME S # {} PROVE FALSE
    OBVIOUS
  <2>2. PICK n \in S : \A m \in S : n <= m
    <3>1. S \in SUBSET Nat
      OBVIOUS
    <3>. HIDE DEF S
    <3>. QED BY <2>1, <3>1, LeastNatural
  <2>3. PICK x \in Texts : Len(x) = n /\ Empties(x) /\ \E l \in 1 .. Len(x) : x[l] # NL
    BY <2>2
  <2>4. PICK l \in 1 .. Len(x) : x[l] # NL
    BY <2>3
  <2>. HIDE DEF Empties, S
  <2>5. CASE \A p : ~BlankAt(x, p)
    <3>1. Blankless(x)
      BY <2>5 DEF Blankless, BlankAt
    <3>2. split(x, Blank) = <<x>>
      BY <3>1, SplitNoBlank
    <3>3. x = <<>>
      BY <2>3, <3>2 DEF Empties
    <3>4. Len(x) = 0
      BY <3>3
    <3>. QED BY <2>4, <3>4
  <2>6. CASE \E p : BlankAt(x, p)
    <3>1. PICK k : /\ BlankAt(x, k)
                   /\ split(x, Blank) = <<SubSeq(x, 1, k - 1)>> \o split(Behind(x, k), Blank)
      BY <2>6, FirstCut
    <3>2. /\ Behind(x, k) \in Texts /\ Len(x) \in Nat /\ k \in Nat
          /\ Len(Behind(x, k)) = Len(x) - k - 1
          /\ \A i \in 1 .. Len(x) - k - 1 : Behind(x, k)[i] = x[i + k + 1]
      BY <3>1, BehindText
    <3>. DEFINE y == Behind(x, k)
                a == SubSeq(x, 1, k - 1)
    <3>3. k \in 1 .. Len(x) - 1
      BY <3>1 DEF BlankAt
    <3>4. a \in Texts /\ Len(a) = k - 1
      BY <3>2, <3>3 DEF Texts
    <3>5. split(y, Blank) \in Seq(Texts)
      BY <3>2, BlankSplitType
    <3>6. /\ Len(split(x, Blank)) = Len(split(y, Blank)) + 1 /\ split(x, Blank)[1] = a
          /\ \A i \in 1 .. Len(split(y, Blank)) : split(x, Blank)[i + 1] = split(y, Blank)[i]
          /\ Len(split(y, Blank)) \in Nat
      <4>. HIDE DEF y, a
      <4>1. split(x, Blank) = <<a>> \o split(y, Blank)
        BY <3>1 DEF y, a
      <4>. QED BY <3>4, <3>5, <4>1, FirstOfPieces
    <3>. HIDE DEF y, a
    <3>7. a = <<>> /\ \A i \in 1 .. Len(split(y, Blank)) : split(y, Blank)[i] = <<>>
      BY <2>3, <3>6 DEF Empties
    <3>8. Empties(y)
      BY <3>7 DEF Empties
    <3>9. k = 1
      <4>1. Len(a) = 0
        BY <3>7
      <4>. QED BY <3>2, <3>4, <4>1
    <3>10. x[1] = NL /\ x[2] = NL
      BY <3>1, <3>9 DEF BlankAt
    <3>11. l \in 1 .. Len(x) /\ l # 1 /\ l # 2
      BY <2>4, <3>10
    <3>12. l - 2 \in 1 .. Len(x) - k - 1 /\ (l - 2) + k + 1 = l
      BY <3>2, <3>9, <3>11
    <3>13. l - 2 \in 1 .. Len(y) /\ y[l - 2] # NL
      BY <2>4, <3>2, <3>12 DEF y
    <3>14. Len(y) \in Nat /\ Len(y) < Len(x)
      BY <3>2, <3>3 DEF y
    <3>15. Len(y) \in S
      BY <3>2, <3>8, <3>13, <3>14 DEF S, y
    <3>. QED BY <2>2, <2>3, <3>2, <3>14, <3>15
  <2>. QED BY <2>5, <2>6
<1>2. Len(t) \in Nat
  BY DEF Texts
<1>3. Len(t) \notin S
  BY <1>1
<1>4. ~Empties(t)
  BY <1>2, <1>3
<1>. QED BY <1>4

(* Java's split keeps everything up to the last piece that is not empty. *)
LEMMA NonEmptyStays ==
  ASSUME NEW pieces \in Seq(Texts), NEW i \in 1 .. Len(pieces), pieces[i] # Empty
  PROVE  /\ DropEmptyEnd(pieces) \in Seq(Texts)
         /\ Len(DropEmptyEnd(pieces)) \in Nat /\ Len(DropEmptyEnd(pieces)) >= i
<1>. DEFINE K == {0} \cup {x \in DOMAIN pieces : pieces[x] # Empty}
            n == Len(pieces)
<1>1. n \in Nat /\ \A x : x \in DOMAIN pieces <=> x \in 1 .. n
  OBVIOUS
<1>2. CASE n = 1
  BY <1>1, <1>2 DEF DropEmptyEnd
<1>3. CASE n # 1
  <2>. DEFINE J == {0} \cup {x \in 1 .. n : pieces[x] # Empty}
  <2>1. K = J
    BY <1>1
  <2>2. i \in J /\ \A x \in J : x \in Nat /\ x <= n
    BY <1>1
  <2>. DEFINE N == {n - x : x \in J}
  <2>3. N \in SUBSET Nat /\ N # {}
    BY <1>1, <2>2
  <2>4. PICK y \in N : \A z \in N : y <= z
    <3>. HIDE DEF N
    <3>. QED BY <2>3, LeastNatural
  <2>5. PICK m \in J : \A x \in J : m >= x
    <3>1. PICK m \in J : y = n - m
      BY <2>4
    <3>2. \A x \in J : n - m <= n - x
      BY <2>4, <3>1
    <3>3. \A x \in J : x \in Nat
      BY <2>2
    <3>. HIDE DEF J, N
    <3>4. \A x \in J : m >= x
      BY <1>1, <3>2, <3>3
    <3>. QED BY <3>1, <3>4
  <2>6. Max(K) \in J /\ Max(K) >= i
    <3>. HIDE DEF J, K
    <3>. QED BY <2>1, <2>2, <2>5 DEF Max
  <2>7. Max(K) \in 0 .. n
    BY <1>1, <2>2, <2>6
  <2>. HIDE DEF K
  <2>8. DropEmptyEnd(pieces) = SubSeq(pieces, 1, Max(K))
    BY <1>3 DEF DropEmptyEnd, K
  <2>9. \A x \in 0 .. n : SubSeq(pieces, 1, x) \in Seq(Texts) /\ Len(SubSeq(pieces, 1, x)) = x
    OBVIOUS
  <2>. QED BY <2>6, <2>7, <2>8, <2>9
<1>. QED BY <1>2, <1>3

HasBlank(t) == \E p : BlankAt(t, p)

LEMMA NoBlankIsBlankless ==
  ASSUME NEW t \in Texts, ~HasBlank(t)
  PROVE  Blankless(t)
BY DEF HasBlank, BlankAt, Blankless

LEMMA BlankLeft ==
  ASSUME NEW x \in Texts, NEW y \in Texts, NEW p, BlankAt(x, p)
  PROVE  BlankAt(x \o y, p) /\ p + 1 <= Len(x) /\ p \in Nat
<1>1. p \in 1 .. Len(x) - 1 /\ x[p] = NL /\ x[p + 1] = NL
  BY DEF BlankAt
<1>2. /\ Len(x) \in Nat /\ Len(y) \in Nat /\ Len(x \o y) = Len(x) + Len(y)
      /\ \A i \in 1 .. Len(x) : (x \o y)[i] = x[i]
  BY TextConcat
<1>3. p \in 1 .. Len(x) /\ p + 1 \in 1 .. Len(x) /\ p \in 1 .. Len(x \o y) - 1
  BY <1>1, <1>2
<1>. QED BY <1>1, <1>2, <1>3 DEF BlankAt

LEMMA BlankRight ==
  ASSUME NEW x \in Texts, NEW y \in Texts, NEW p, BlankAt(y, p)
  PROVE  BlankAt(x \o y, Len(x) + p) /\ p \in Nat /\ Len(x) \in Nat
<1>1. p \in 1 .. Len(y) - 1 /\ y[p] = NL /\ y[p + 1] = NL
  BY DEF BlankAt
<1>2. /\ Len(x) \in Nat /\ Len(y) \in Nat /\ Len(x \o y) = Len(x) + Len(y)
      /\ \A i \in 1 .. Len(y) : (x \o y)[Len(x) + i] = y[i]
  BY TextConcat
<1>3. p \in 1 .. Len(y) /\ p + 1 \in 1 .. Len(y) /\ Len(x) + p \in 1 .. Len(x \o y) - 1
      /\ Len(x) + (p + 1) = (Len(x) + p) + 1
  BY <1>1, <1>2
<1>4. (x \o y)[Len(x) + p] = NL /\ (x \o y)[Len(x) + (p + 1)] = NL
  BY <1>1, <1>2, <1>3
<1>. QED BY <1>2, <1>3, <1>4 DEF BlankAt

LEMMA BlankInConcat ==
  ASSUME NEW x \in Texts, NEW y \in Texts, HasBlank(x) \/ HasBlank(y)
  PROVE  HasBlank(x \o y)
BY BlankLeft, BlankRight DEF HasBlank

(* y is what follows the blank line at k, and position j of t lies in it *)
CutBehind(t, p, j, y, k) ==
  /\ k <= p /\ k > 0 /\ j - k - 1 \in 1 .. Len(y)
  /\ Len(y) = Len(t) - k - 1 /\ \A i \in 1 .. Len(y) : y[i] = t[i + k + 1]
  /\ Len(split(y, Blank)) \in Nat
  /\ Len(split(t, Blank)) = Len(split(y, Blank)) + 1
  /\ \A i \in 1 .. Len(split(y, Blank)) : split(t, Blank)[i + 1] = split(y, Blank)[i]

(* What follows a blank line is split on. *)
LEMMA PiecesBehind ==
  ASSUME NEW t \in Texts, NEW p, BlankAt(t, p), NEW j \in Nat, j >= p + 2, j <= Len(t)
  PROVE  \E y \in Texts, k \in Nat : CutBehind(t, p, j, y, k)
<1>1. PICK k \in 1 .. p :
        /\ BlankAt(t, k)
        /\ split(t, Blank) = <<SubSeq(t, 1, k - 1)>> \o split(Behind(t, k), Blank)
  BY FirstCut
<1>. DEFINE y == Behind(t, k)
            a == SubSeq(t, 1, k - 1)
<1>2. /\ y \in Texts /\ Len(t) \in Nat /\ k \in Nat
      /\ Len(y) = Len(t) - k - 1
      /\ \A i \in 1 .. Len(t) - k - 1 : y[i] = t[i + k + 1]
  BY <1>1, BehindText
<1>3. a \in Texts
  BY <1>1 DEF Texts, BlankAt
<1>4. split(y, Blank) \in Seq(Texts)
  BY <1>2, BlankSplitType
<1>. HIDE DEF y, a
<1>5. split(t, Blank) = <<a>> \o split(y, Blank)
  BY <1>1 DEF y, a
<1>6. /\ Len(split(y, Blank)) \in Nat
      /\ Len(split(t, Blank)) = Len(split(y, Blank)) + 1
      /\ \A i \in 1 .. Len(split(y, Blank)) : split(t, Blank)[i + 1] = split(y, Blank)[i]
  BY <1>3, <1>4, <1>5, FirstOfPieces
<1>7. p \in Nat /\ k <= p /\ k > 0 /\ j - k - 1 \in 1 .. Len(t) - k - 1
  <2>1. p \in Nat /\ k <= p /\ k > 0
    BY <1>2 DEF BlankAt
  <2>2. Len(t) \in Nat /\ k \in Nat
    BY <1>2
  <2>. QED BY <2>1, <2>2
<1>8. CutBehind(t, p, j, y, k)
  BY <1>2, <1>6, <1>7 DEF CutBehind
<1>. QED BY <1>2, <1>8

(* A text with two blank lines apart from each other and something behind them has
   three pieces or more: extractFrame takes no body from it. *)
LEMMA ThreePieces ==
  ASSUME NEW t \in Texts, NEW p, BlankAt(t, p), NEW q \in Nat, BlankAt(t, q), q >= p + 2,
         NEW j \in Nat, j >= q + 2, j <= Len(t), t[j] # NL
  PROVE  Len(JavaSplit(t, Blank)) \in Nat /\ Len(JavaSplit(t, Blank)) >= 3
<1>0. p \in Nat /\ p > 0 /\ Len(t) \in Nat /\ q + 1 <= Len(t) /\ t[q] = NL /\ t[q + 1] = NL
  BY DEF BlankAt, Texts
<1>a. j >= p + 2
  BY <1>0
<1>b. PICK y \in Texts, k \in Nat : CutBehind(t, p, j, y, k)
  BY <1>0, <1>a, PiecesBehind
<1>1. /\ k <= p /\ k > 0 /\ j - k - 1 \in 1 .. Len(y)
      /\ Len(y) = Len(t) - k - 1 /\ \A i \in 1 .. Len(y) : y[i] = t[i + k + 1]
      /\ Len(split(y, Blank)) \in Nat
      /\ Len(split(t, Blank)) = Len(split(y, Blank)) + 1
      /\ \A i \in 1 .. Len(split(y, Blank)) : split(t, Blank)[i + 1] = split(y, Blank)[i]
  BY <1>b DEF CutBehind
<1>. DEFINE q1 == q - k - 1
            j1 == j - k - 1
<1>2. /\ q1 \in Nat /\ q1 \in 1 .. Len(y) - 1 /\ q1 + k + 1 = q /\ (q1 + 1) + k + 1 = q + 1
      /\ j1 \in Nat /\ j1 >= q1 + 2 /\ j1 <= Len(y) /\ j1 + k + 1 = j /\ Len(y) \in Nat
  <2>1. Len(y) = Len(t) - k - 1 /\ k <= p /\ k > 0
    BY <1>1
  <2>. QED BY <1>0, <2>1
<1>3. BlankAt(y, q1) /\ y[j1] # NL
  <2>1. q1 \in 1 .. Len(y) /\ q1 + 1 \in 1 .. Len(y) /\ j1 \in 1 .. Len(y)
    BY <1>2
  <2>. HIDE DEF q1, j1
  <2>2. y[q1] = t[q] /\ y[q1 + 1] = t[q + 1] /\ y[j1] = t[j]
    BY <1>1, <1>2, <2>1
  <2>. QED BY <1>0, <1>2, <2>2 DEF BlankAt
<1>. HIDE DEF q1, j1
<1>c. PICK z \in Texts, l \in Nat : CutBehind(y, q1, j1, z, l)
  BY <1>2, <1>3, PiecesBehind
<1>4. /\ l <= q1 /\ l > 0 /\ j1 - l - 1 \in 1 .. Len(z)
      /\ Len(z) = Len(y) - l - 1 /\ \A i \in 1 .. Len(z) : z[i] = y[i + l + 1]
      /\ Len(split(z, Blank)) \in Nat
      /\ Len(split(y, Blank)) = Len(split(z, Blank)) + 1
      /\ \A i \in 1 .. Len(split(z, Blank)) : split(y, Blank)[i + 1] = split(z, Blank)[i]
  BY <1>c DEF CutBehind
<1>5. z[j1 - l - 1] # NL /\ j1 - l - 1 \in 1 .. Len(z)
  <2>1. (j1 - l - 1) + l + 1 = j1
    BY <1>2
  <2>. DEFINE m == j1 - l - 1
  <2>2. m \in 1 .. Len(z) /\ m + l + 1 = j1
    BY <1>4, <2>1
  <2>. HIDE DEF m
  <2>3. z[m] = y[j1]
    BY <1>4, <2>2
  <2>. QED BY <1>3, <2>2, <2>3 DEF m
<1>6. PICK i \in 1 .. Len(split(z, Blank)) : split(z, Blank)[i] # <<>>
  BY <1>5, SomePiece
<1>. DEFINE nz == Len(split(z, Blank))
            ny == Len(split(y, Blank))
            nt == Len(split(t, Blank))
<1>7. nz \in Nat /\ ny = nz + 1 /\ nt = ny + 1
  BY <1>1, <1>4
<1>. HIDE DEF nz, ny, nt
<1>8. i \in Nat /\ i > 0 /\ i \in 1 .. nz /\ i + 1 \in 1 .. ny /\ (i + 1) + 1 \in 1 .. nt
       /\ i + 2 = (i + 1) + 1
  BY <1>6, <1>7 DEF nz
<1>9. split(y, Blank)[i + 1] = split(z, Blank)[i]
  BY <1>4, <1>8 DEF nz
<1>10. split(t, Blank)[(i + 1) + 1] = split(y, Blank)[i + 1]
  BY <1>1, <1>8 DEF ny
<1>11. split(t, Blank) \in Seq(Texts)
  BY BlankSplitType
<1>12. split(t, Blank)[(i + 1) + 1] # Empty /\ (i + 1) + 1 \in 1 .. Len(split(t, Blank))
  BY <1>6, <1>8, <1>9, <1>10 DEF Empty, nt
<1>13. Len(JavaSplit(t, Blank)) \in Nat /\ Len(JavaSplit(t, Blank)) >= (i + 1) + 1
  BY <1>11, <1>12, NonEmptyStays DEF JavaSplit
<1>. QED BY <1>8, <1>13

(* So it is when both a head and what follows it have one. *)
LEMMA BlanksAround ==
  ASSUME NEW x \in Texts, NEW y \in Texts, NEW r \in Texts, HasBlank(x), HasBlank(y),
         r # <<>>, r[1] # NL
  PROVE  /\ (x \o y) \o r \in Texts
         /\ Len(JavaSplit((x \o y) \o r, Blank)) \in Nat /\ Len(JavaSplit((x \o y) \o r, Blank)) >= 3
<1>1. PICK p : BlankAt(x, p)
  BY DEF HasBlank
<1>2. PICK q : BlankAt(y, q)
  BY DEF HasBlank
<1>. DEFINE s == x \o y
            t == s \o r
            m == Len(x) + q
            j == Len(s) + 1
<1>3. s \in Texts /\ t \in Texts /\ Len(s) \in Nat /\ Len(x) \in Nat /\ Len(y) \in Nat
      /\ Len(s) = Len(x) + Len(y) /\ Len(r) \in Nat
  BY TextConcat
<1>4. BlankAt(s, p) /\ p + 1 <= Len(x) /\ p \in Nat /\ BlankAt(s, m) /\ q \in Nat
  BY <1>1, <1>2, BlankLeft, BlankRight
<1>. HIDE DEF s
<1>5. BlankAt(t, p) /\ BlankAt(t, m) /\ m + 1 <= Len(s)
  BY <1>3, <1>4, BlankLeft
<1>6. q > 0
  BY <1>2 DEF BlankAt
<1>7. Len(r) > 0 /\ Len(t) = Len(s) + Len(r) /\ t[j] = r[1]
  <2>1. Len(r) > 0
    BY DEF Texts
  <2>2. Len(t) = Len(s) + Len(r) /\ \A i \in 1 .. Len(r) : t[Len(s) + i] = r[i]
    BY <1>3, TextConcat
  <2>3. 1 \in 1 .. Len(r)
    BY <1>3, <2>1
  <2>. QED BY <2>1, <2>2, <2>3
<1>8. /\ m \in Nat /\ m >= p + 2 /\ j \in Nat /\ j >= m + 2 /\ j <= Len(t)
  BY <1>3, <1>4, <1>5, <1>6, <1>7
<1>. HIDE DEF t, m, j
<1>9. t[j] # NL
  BY <1>7
<1>10. Len(JavaSplit(t, Blank)) \in Nat /\ Len(JavaSplit(t, Blank)) >= 3
  BY <1>3, <1>5, <1>8, <1>9, ThreePieces
<1>. QED BY <1>3, <1>10 DEF t, s

(* t is p and then a text that begins with the token c *)
GoesOn(p, c, t) == \E r \in Texts : r # <<>> /\ r[1] = c /\ t = p \o r

(* A concatenation begins as its first part does. *)
LEMMA FirstOfConcat ==
  ASSUME NEW r \in Texts, r # <<>>, NEW s \in Texts
  PROVE  r \o s \in Texts /\ r \o s # <<>> /\ (r \o s)[1] = r[1]
<1>1. Len(r) \in Nat /\ Len(r) > 0 /\ Len(s) \in Nat
  BY DEF Texts
<1>2. /\ Len(r \o s) = Len(r) + Len(s) /\ r \o s \in Texts
      /\ \A i \in 1 .. Len(r) : (r \o s)[i] = r[i]
  BY TextConcat
<1>3. 1 \in 1 .. Len(r) /\ Len(r \o s) > 0
  BY <1>1, <1>2
<1>. QED BY <1>2, <1>3

LEMMA GoesOnThere ==
  ASSUME NEW p \in Texts, NEW r \in Texts, r # <<>>
  PROVE  GoesOn(p, r[1], p \o r)
BY DEF GoesOn

LEMMA GoesOnStill ==
  ASSUME NEW p \in Texts, NEW c, NEW t, GoesOn(p, c, t), NEW s \in Texts
  PROVE  GoesOn(p, c, t \o s)
<1>1. PICK r \in Texts : r # <<>> /\ r[1] = c /\ t = p \o r
  BY DEF GoesOn
<1>2. (p \o r) \o s = p \o (r \o s)
  BY ConcatIsAssociative DEF Texts
<1>3. r \o s \in Texts /\ r \o s # <<>> /\ (r \o s)[1] = r[1]
  BY <1>1, FirstOfConcat
<1>. QED BY <1>1, <1>2, <1>3 DEF GoesOn

LEMMA LineIsText ==
  ASSUME NEW t \in Texts
  PROVE  Line(t) \in Texts /\ Line(t) # <<>>
<1>1. t \o <<NL>> \in Texts /\ Len(t) \in Nat /\ Len(t \o <<NL>>) = Len(t) + 1
  BY AddToken, NLIsToken
<1>. QED BY <1>1 DEF Line

LEMMA FirstOfWord ==
  ASSUME NEW w \in Tokens, NEW v \in Texts
  PROVE  <<w>> \o v \in Texts /\ <<w>> \o v # <<>> /\ (<<w>> \o v)[1] = w
<1>1. <<w>> \in Texts /\ <<w>> # <<>> /\ <<w>>[1] = w
  BY DEF Texts
<1>. QED BY <1>1, FirstOfConcat

(* A blank line does not come of parts with another token between them. *)
LEMMA BlankAcross ==
  ASSUME NEW a \in Texts, NEW b \in Texts, NEW c \in Tokens, c # NL, HasBlank((a \o <<c>>) \o b)
  PROVE  HasBlank(a) \/ HasBlank(b)
<1>. DEFINE m == a \o <<c>>
            t == m \o b
<1>1. /\ m \in Texts /\ Len(a) \in Nat /\ Len(m) = Len(a) + 1 /\ m[Len(a) + 1] = c
      /\ \A i \in 1 .. Len(a) : m[i] = a[i]
  BY AddToken
<1>. HIDE DEF m
<1>2. /\ Len(t) = Len(m) + Len(b) /\ Len(b) \in Nat
      /\ \A i \in 1 .. Len(m) : t[i] = m[i]
      /\ \A i \in 1 .. Len(b) : t[Len(m) + i] = b[i]
  BY <1>1, TextConcat
<1>3. PICK p : p \in 1 .. Len(t) - 1 /\ t[p] = NL /\ t[p + 1] = NL
  BY DEF HasBlank, BlankAt, m, t
<1>. HIDE DEF t
<1>4. t[Len(a) + 1] = c
  <2>1. Len(a) + 1 \in 1 .. Len(m)
    BY <1>1
  <2>. QED BY <1>1, <1>2, <2>1
<1>5. p # Len(a) + 1 /\ p + 1 # Len(a) + 1 /\ p \in Nat /\ p > 0 /\ p <= Len(t) - 1
  BY <1>1, <1>2, <1>3, <1>4
<1>6. CASE p < Len(a)
  <2>1. p \in 1 .. Len(a) /\ p + 1 \in 1 .. Len(a) /\ p \in 1 .. Len(m) /\ p + 1 \in 1 .. Len(m)
        /\ p \in 1 .. Len(a) - 1
    BY <1>1, <1>5, <1>6
  <2>2. a[p] = NL /\ a[p + 1] = NL
    BY <1>1, <1>2, <1>3, <2>1
  <2>. QED BY <2>1, <2>2 DEF HasBlank, BlankAt
<1>7. CASE ~(p < Len(a))
  <2>. DEFINE q == p - Len(m)
  <2>1. q \in 1 .. Len(b) - 1 /\ q \in 1 .. Len(b) /\ q + 1 \in 1 .. Len(b) /\ Len(m) + q = p
        /\ Len(m) + (q + 1) = p + 1
    BY <1>1, <1>2, <1>5, <1>7
  <2>. HIDE DEF q
  <2>2. b[q] = NL /\ b[q + 1] = NL
    BY <1>2, <1>3, <2>1
  <2>. QED BY <2>1, <2>2 DEF HasBlank, BlankAt
<1>. QED BY <1>6, <1>7

LEMMA NoBlankInWord ==
  ASSUME NEW c \in Tokens
  PROVE  ~HasBlank(<<c>>) /\ <<c>> \in Texts
BY DEF HasBlank, BlankAt, Texts

-----------------------------------------------------------------------------
(* What begins with the line of user u and has no blank line in it *)
SentBy(body, u) ==
  /\ Blankless(body)
  /\ \E rest \in Texts : body = (<<"user">> \o <<Colon>> \o u) \o <<NL>> \o rest

(* The first line of such a body names its sender. *)
LEMMA SentByNames ==
  ASSUME NEW u, InOneField(u), NEW body, SentBy(body, u)
  PROVE  Field(split(body, <<NL>>)[1], 2) = u /\ body \in Texts
<1>. DEFINE a == <<"user">> \o <<Colon>> \o u
<1>1. PICK rest \in Texts : body = a \o <<NL>> \o rest
  BY DEF SentBy
<1>2. InOneField(<<"user">>) /\ InOneLine(<<"user">>) /\ InOneLine(u)
  BY KeywordInField DEF InOneField, Keywords
<1>3. InOneLine(a)
  BY <1>2, LabelledLine
<1>4. Field(a, 2) = u
  BY <1>2, FieldsOfKeyLine
<1>. HIDE DEF a
<1>5. a \in Texts /\ NL \notin ToSet(a)
  BY <1>3 DEF InOneLine
<1>6. split(body, <<NL>>) = <<a>> \o split(rest, <<NL>>)
  BY <1>1, <1>5, SplitCut, NLIsToken
<1>7. <<NL>> \in Texts /\ <<NL>> # <<>>
  BY NLIsToken DEF Texts
<1>8. split(rest, <<NL>>) \in Seq(Texts)
  BY <1>7, SplitType
<1>9. split(body, <<NL>>)[1] = a
  BY <1>5, <1>6, <1>8, FirstOfPieces
<1>10. body \in Texts
  BY DEF SentBy, Blankless
<1>. QED BY <1>4, <1>9, <1>10

(* Of a text that begins with the user's line, the first piece does. *)
LEMMA FirstPieceSent ==
  ASSUME NEW u, InOneField(u), NEW body, NEW c, c # NL,
         GoesOn(Line(<<"user">> \o <<Colon>> \o u), c, body)
  PROVE  /\ body \in Texts
         /\ SentBy(split(body, Blank)[1], u)
<1>. DEFINE a == <<"user">> \o <<Colon>> \o u
            l == a \o <<NL>>
<1>1. InOneField(<<"user">>) /\ InOneLine(<<"user">>) /\ InOneLine(u)
  BY KeywordInField DEF InOneField, Keywords
<1>2. InOneLine(a)
  BY <1>1, LabelledLine
<1>3. PICK r \in Texts : r # <<>> /\ r[1] = c /\ body = l \o r
  BY DEF GoesOn, Line
<1>. HIDE DEF a
<1>4. a \in Texts /\ NL \notin ToSet(a)
  BY <1>2 DEF InOneLine
<1>5. /\ l \in Texts /\ Len(a) \in Nat /\ Len(l) = Len(a) + 1
      /\ \A i \in 1 .. Len(a) : l[i] = a[i]
  BY <1>4, AddToken, NLIsToken
<1>. HIDE DEF l
<1>6. /\ body \in Texts /\ Len(r) \in Nat /\ Len(body) = Len(l) + Len(r)
      /\ \A i \in 1 .. Len(l) : body[i] = l[i]
      /\ \A i \in 1 .. Len(r) : body[Len(l) + i] = r[i]
  BY <1>3, <1>5, TextConcat
<1>7. Len(r) > 0 /\ 1 \in 1 .. Len(r)
  BY <1>3, <1>6 DEF Texts
<1>8. \A i \in 1 .. Len(a) : body[i] # NL
  <2>. TAKE i \in 1 .. Len(a)
  <2>1. i \in 1 .. Len(l)
    BY <1>5
  <2>2. body[i] = a[i]
    BY <1>5, <1>6, <2>1
  <2>3. a[i] \in ToSet(a)
    BY <1>4 DEF ToSet, Texts
  <2>. QED BY <1>4, <2>2, <2>3
<1>9. body[Len(l) + 1] # NL
  BY <1>3, <1>6, <1>7
<1>10. \A k : BlankAt(body, k) => k > Len(l)
  <2>. SUFFICES ASSUME NEW k, BlankAt(body, k), ~(k > Len(l)) PROVE FALSE
    BY <1>5, <1>6 DEF BlankAt
  <2>1. k \in 1 .. Len(body) - 1 /\ body[k] = NL /\ body[k + 1] = NL
    BY DEF BlankAt
  <2>2. k \in Nat /\ k > 0 /\ k <= Len(l)
    BY <1>5, <1>6, <2>1
  <2>3. CASE k <= Len(a)
    <3>1. k \in 1 .. Len(a)
      BY <1>5, <2>2, <2>3
    <3>. QED BY <1>8, <2>1, <3>1
  <2>4. CASE ~(k <= Len(a))
    <3>1. k = Len(l)
      BY <1>5, <2>2, <2>4
    <3>. QED BY <1>9, <2>1, <3>1
  <2>. QED BY <2>3, <2>4
<1>11. CASE ~HasBlank(body)
  <2>1. Blankless(body)
    BY <1>6, <1>11, NoBlankIsBlankless
  <2>2. split(body, Blank) = <<body>>
    BY <2>1, SplitNoBlank
  <2>3. split(body, Blank)[1] = body
    BY <2>2
  <2>. QED BY <1>3, <1>6, <2>1, <2>3 DEF SentBy, l, a
<1>12. CASE HasBlank(body)
  <2>1. PICK p : BlankAt(body, p)
    BY <1>12 DEF HasBlank
  <2>2. PICK k \in 1 .. p :
           /\ BlankAt(body, k) /\ \A i \in 1 .. k - 1 : ~BlankAt(body, i)
           /\ split(body, Blank) = <<SubSeq(body, 1, k - 1)>> \o split(Behind(body, k), Blank)
    BY <1>6, <2>1, FirstCut
  <2>3. k \in Nat /\ k > Len(l) /\ k > 0 /\ k <= Len(body) - 1 /\ Len(body) \in Nat
    <3>1. k > Len(l)
      BY <1>10, <2>2
    <3>2. k \in 1 .. Len(body) - 1
      BY <2>2 DEF BlankAt
    <3>. QED BY <1>5, <1>6, <3>1, <3>2
  <2>. DEFINE s == SubSeq(body, 1, k - 1)
              m == k - 1 - Len(l)
              z == SubSeq(r, 1, m)
  <2>4. m \in Nat /\ m <= Len(r) /\ k - 1 = Len(l) + m
    BY <1>5, <1>6, <2>3
  <2>5. s \in Texts /\ Len(s) = k - 1 /\ \A i \in 1 .. k - 1 : s[i] = body[i]
    BY <1>6, <2>3 DEF Texts
  <2>6. z \in Texts /\ Len(z) = m /\ \A i \in 1 .. m : z[i] = r[i]
    BY <1>6, <2>4 DEF Texts
  <2>. HIDE DEF s, z, m
  <2>7. /\ l \o z \in Texts /\ Len(l \o z) = Len(l) + m
        /\ \A i \in 1 .. Len(l) : (l \o z)[i] = l[i]
        /\ \A i \in 1 .. m : (l \o z)[Len(l) + i] = z[i]
    BY <1>5, <2>6, TextConcat
  <2>8. s = l \o z
    <3>1. \A i \in 1 .. k - 1 : s[i] = (l \o z)[i]
      <4>. TAKE i \in 1 .. k - 1
      <4>1. CASE i <= Len(l)
        <5>1. i \in 1 .. Len(l)
          BY <1>5, <2>3, <4>1
        <5>. QED BY <1>6, <2>5, <2>7, <5>1
      <4>2. CASE ~(i <= Len(l))
        <5>. DEFINE j == i - Len(l)
        <5>1. j \in 1 .. m /\ j \in 1 .. Len(r) /\ Len(l) + j = i
          BY <1>5, <1>6, <2>3, <2>4, <4>2
        <5>. HIDE DEF j
        <5>2. s[i] = r[j]
          BY <1>6, <2>5, <5>1
        <5>3. (l \o z)[i] = r[j]
          BY <2>6, <2>7, <5>1
        <5>. QED BY <5>2, <5>3
      <4>. QED BY <4>1, <4>2
    <3>2. Len(l \o z) = k - 1
      BY <2>4, <2>7
    <3>. QED BY <2>5, <2>7, <3>1, <3>2, SeqEqual DEF Texts
  <2>9. ~HasBlank(s)
    <3>. SUFFICES ASSUME NEW q, BlankAt(s, q) PROVE FALSE
      BY DEF HasBlank
    <3>1. q \in 1 .. (k - 1) - 1 /\ s[q] = NL /\ s[q + 1] = NL
      BY <2>5 DEF BlankAt
    <3>2. q \in 1 .. k - 1 /\ q + 1 \in 1 .. k - 1 /\ q \in 1 .. Len(body) - 1
      BY <2>3, <3>1
    <3>3. BlankAt(body, q)
      BY <2>5, <3>1, <3>2 DEF BlankAt
    <3>. QED BY <2>2, <3>2, <3>3
  <2>10. Blankless(s)
    BY <2>5, <2>9, NoBlankIsBlankless
  <2>11. SentBy(s, u)
    BY <2>6, <2>8, <2>10 DEF SentBy, l, a
  <2>12. Behind(body, k) \in Texts
    BY <1>6, <2>2, BehindText
  <2>13. split(Behind(body, k), Blank) \in Seq(Texts)
    BY <2>12, BlankSplitType
  <2>14. split(body, Blank)[1] = s
    BY <2>2, <2>5, <2>13, FirstOfPieces DEF s
  <2>. QED BY <1>6, <2>11, <2>14
<1>. QED BY <1>11, <1>12

(* A map of texts *)
TextMap(map) ==
  /\ IsFiniteSet(DOMAIN map)
  /\ \A k \in DOMAIN map : k \in Texts /\ map[k] \in Texts

(* Its lines are a text. *)
LEMMA KeyLinesAreText ==
  ASSUME NEW map, TextMap(map), NEW S \in SUBSET DOMAIN map
  PROVE  KeyLines(map, S) \in Texts
<1>. DEFINE Good(T) == KeyLines(map, T) \in Texts
            N == {n \in Nat : \A T \in SUBSET DOMAIN map : Cardinality(T) = n => Good(T)}
<1>0. \A T \in SUBSET DOMAIN map : IsFiniteSet(T) /\ Cardinality(T) \in Nat
  BY FS_Subset, FS_CardinalityType DEF TextMap
<1>1. 0 \in N
  <2>1. Good({})
    <3>1. KeyLines(map, {}) = <<>>
      BY NoKeyLines DEF Empty
    <3>2. <<>> \in Texts
      BY DEF Texts
    <3>. QED BY <3>1, <3>2
  <2>2. \A T \in SUBSET DOMAIN map : Cardinality(T) = 0 => T = {}
    BY <1>0, FS_EmptySet
  <2>. HIDE DEF Good
  <2>. QED BY <2>1, <2>2
<1>2. ASSUME NEW n \in N PROVE n + 1 \in N
  <2>. SUFFICES ASSUME NEW T \in SUBSET DOMAIN map, Cardinality(T) = n + 1 PROVE Good(T)
    OBVIOUS
  <2>. DEFINE k == Taken(T)
              R == T \ {k}
              a == KeyLineText(map, k)
  <2>1. T # {} /\ IsFiniteSet(T)
    BY <1>0, FS_EmptySet
  <2>2. k \in T /\ KeyLines(map, T) = KeyLines(map, R) \o Line(a)
    BY <2>1, KeyLinesStep DEF KeyLine, KeyLineText
  <2>3. Cardinality(R) = n
    BY <2>1, TakenSmaller
  <2>4. Good(R)
    <3>. HIDE DEF Good
    <3>. QED BY <2>3
  <2>5. a \in Texts
    <3>1. k \in Texts /\ map[k] \in Texts
      BY <2>2 DEF TextMap
    <3>. HIDE DEF k
    <3>2. k \o <<Colon>> \in Texts
      BY <3>1, AddToken, NLIsToken
    <3>. QED BY <3>1, <3>2, TextConcat DEF KeyLineText
  <2>. HIDE DEF a, k, R
  <2>6. Line(a) \in Texts
    BY <2>5, LineIsText
  <2>. QED BY <2>2, <2>4, <2>6, TextConcat
<1>3. Cardinality(S) \in N
  <2>. N \in SUBSET Nat
    OBVIOUS
  <2>1. N = Nat
    <3>. HIDE DEF N
    <3>. QED BY <1>1, <1>2, NaturalsAreAll
  <2>. HIDE DEF N
  <2>. QED BY <1>0, <2>1
<1>. QED BY <1>3

(* A report of texts, which may contain any separator; only the user's name is a field *)
TextReport(u, names, event) ==
  /\ InOneField(u) /\ names.team_a \in Texts /\ names.team_b \in Texts
  /\ event.name \in Texts /\ ToString(event.time) \in Tokens /\ event.description \in Texts
  /\ TextMap(event.game) /\ TextMap(event.team_a) /\ TextMap(event.team_b)

LEMMA LabelTextIsText ==
  ASSUME NEW k \in Texts, NEW v \in Texts
  PROVE  k \o <<Colon>> \in Texts /\ k \o <<Colon>> \o v \in Texts
<1>1. k \o <<Colon>> \in Texts
  BY AddToken, NLIsToken
<1>. QED BY <1>1, TextConcat

LEMMA KeywordIsText ==
  ASSUME NEW w \in Keywords
  PROVE  <<w>> \in Texts /\ w \in Tokens
<1>1. w \in Tokens
  BY DEF Tokens
<1>. QED BY <1>1, NoBlankInWord

(* The first lines of a body *)
UserLine(u) == <<"user">> \o <<Colon>> \o u
TeamALine(names) == TeamA \o <<Colon>> \o names.team_a
TeamBLine(names) == TeamB \o <<Colon>> \o names.team_b
NameLine(event) == <<"event name">> \o <<Colon>> \o event.name

(* A body is a text that begins with the lines of the user, the teams and the event. *)
LEMMA BodyOfTexts ==
  ASSUME NEW u, NEW names, NEW event, TextReport(u, names, event)
  PROVE  /\ ReportBody(u, names, event) \in Texts
         /\ GoesOn(Line(UserLine(u)), "team a", ReportBody(u, names, event))
         /\ GoesOn(Line(UserLine(u)) \o Line(TeamALine(names)) \o Line(TeamBLine(names)), "event name",
                   ReportBody(u, names, event))
<1>1. /\ "user" \in Keywords /\ "team a" \in Keywords /\ "team b" \in Keywords
          /\ "event name" \in Keywords
      /\ "time" \in Keywords /\ "general game updates" \in Keywords
      /\ "team a updates" \in Keywords /\ "team b updates" \in Keywords /\ "description" \in Keywords
  BY DEF Keywords
<1>2. u \in Texts
  BY DEF TextReport, InOneField, InOneLine
<1>3. /\ names.team_a \in Texts /\ names.team_b \in Texts /\ event.name \in Texts
      /\ ToString(event.time) \in Tokens /\ event.description \in Texts
  BY DEF TextReport
<1>. DEFINE L1 == UserLine(u)
            L2 == TeamALine(names)
            L3 == TeamBLine(names)
            L4 == NameLine(event)
            L5 == TimeLine(event.time)
            U1 == UpdateLines(event.game)
            U2 == UpdateLines(event.team_a)
            U3 == UpdateLines(event.team_b)
<1>4. ReportBody(u, names, event) =
        Line(L1) \o Line(L2) \o Line(L3) \o Line(L4) \o Line(L5)
          \o Heading(GeneralLabel) \o U1 \o Heading(TeamALabel) \o U2
          \o Heading(TeamBLabel) \o U3 \o Heading(DescriptionLabel) \o Line(event.description)
  <2>1. <<"user", Colon>> \o u = L1 /\ <<"event name", Colon>> \o event.name = L4
    BY <1>1, <1>2, <1>3, WordLineIs DEF UserLine, NameLine
  <2>2. <<"time", Colon, ToString(event.time)>> = L5
    BY <1>3, TimeLineIs
  <2>. QED BY <2>1, <2>2 DEF ReportBody, TeamALine, TeamBLine
<1>5. L1 \in Texts /\ L2 \in Texts /\ L3 \in Texts /\ L4 \in Texts /\ L5 \in Texts
  <2>1. TimeText(event.time) \in Texts
    BY <1>3, NoBlankInWord DEF TimeText
  <2>. QED BY <1>1, <1>2, <1>3, <2>1, KeywordIsText, LabelTextIsText
           DEF UserLine, TeamALine, TeamBLine, NameLine, TimeLine, TeamA, TeamB
<1>6. U1 \in Texts /\ U2 \in Texts /\ U3 \in Texts
  BY HeaderLinesAreKeyLines, KeyLinesAreText DEF TextReport
<1>7. ASSUME NEW w \in Keywords PROVE Heading(<<w>>) \in Texts
  <2>1. <<w>> \o <<Colon>> \in Texts
    BY KeywordIsText, AddToken, NLIsToken
  <2>. QED BY <2>1, LineIsText DEF Heading
<1>8. /\ Heading(GeneralLabel) \in Texts /\ Heading(TeamALabel) \in Texts
      /\ Heading(TeamBLabel) \in Texts /\ Heading(DescriptionLabel) \in Texts
  BY <1>1, <1>7 DEF GeneralLabel, TeamALabel, TeamBLabel, DescriptionLabel
<1>9. Line(L1) \in Texts /\ Line(L2) \in Texts /\ Line(L3) \in Texts /\ Line(L4) \in Texts
      /\ Line(L5) \in Texts /\ Line(event.description) \in Texts
  BY <1>3, <1>5, LineIsText
<1>10. Line(L2) # <<>> /\ Line(L2)[1] = "team a" /\ Line(L4) # <<>> /\ Line(L4)[1] = "event name"
  <2>1. ASSUME NEW w \in Keywords, NEW v \in Texts
        PROVE  Line(<<w>> \o <<Colon>> \o v) # <<>> /\ Line(<<w>> \o <<Colon>> \o v)[1] = w
    <3>1. <<w>> \in Texts /\ <<w>> # <<>> /\ <<w>>[1] = w /\ <<Colon>> \in Texts /\ <<NL>> \in Texts
      BY KeywordIsText, NLIsToken, NoBlankInWord
    <3>2. /\ <<w>> \o <<Colon>> \in Texts /\ <<w>> \o <<Colon>> # <<>>
          /\ (<<w>> \o <<Colon>>)[1] = w
      BY <3>1, FirstOfConcat
    <3>. DEFINE b == <<w>> \o <<Colon>>
    <3>3. b \in Texts /\ b # <<>> /\ b[1] = w
      BY <3>2
    <3>. HIDE DEF b
    <3>4. b \o v \in Texts /\ b \o v # <<>> /\ (b \o v)[1] = w
      BY <3>3, FirstOfConcat
    <3>. DEFINE e == b \o v
    <3>5. e \in Texts /\ e # <<>> /\ e[1] = w
      BY <3>4
    <3>. HIDE DEF e
    <3>6. e \o <<NL>> # <<>> /\ (e \o <<NL>>)[1] = w
      BY <3>1, <3>5, FirstOfConcat
    <3>. QED BY <3>6 DEF e, b, Line
  <2>. QED BY <1>1, <1>3, <2>1 DEF TeamALine, NameLine, TeamA
<1>. HIDE DEF L1, L2, L3, L4, L5, U1, U2, U3
<1>. DEFINE y2 == Line(L1) \o Line(L2)
            y3 == y2 \o Line(L3)
            y4 == y3 \o Line(L4)
            y5 == y4 \o Line(L5)
            y6 == y5 \o Heading(GeneralLabel)
            y7 == y6 \o U1
            y8 == y7 \o Heading(TeamALabel)
            y9 == y8 \o U2
            y10 == y9 \o Heading(TeamBLabel)
            y11 == y10 \o U3
            y12 == y11 \o Heading(DescriptionLabel)
            y13 == y12 \o Line(event.description)
<1>11. ReportBody(u, names, event) = y13
  BY <1>4
<1>12. y2 \in Texts /\ GoesOn(Line(L1), "team a", y2)
  <2>1. y2 \in Texts
    BY <1>9, TextConcat
  <2>2. GoesOn(Line(L1), Line(L2)[1], y2)
    BY <1>9, <1>10, GoesOnThere
  <2>. QED BY <1>10, <2>1, <2>2
<1>13. y3 \in Texts /\ GoesOn(Line(L1), "team a", y3)
  <2>. HIDE DEF y2
  <2>. QED BY <1>9, <1>12, GoesOnStill, TextConcat
<1>14. y4 \in Texts /\ GoesOn(Line(L1), "team a", y4) /\ GoesOn(y3, "event name", y4)
  <2>. HIDE DEF y3
  <2>1. y4 \in Texts /\ GoesOn(Line(L1), "team a", y4)
    BY <1>9, <1>13, GoesOnStill, TextConcat
  <2>2. GoesOn(y3, Line(L4)[1], y4)
    BY <1>9, <1>10, <1>13, GoesOnThere
  <2>. QED BY <1>10, <2>1, <2>2
<1>. DEFINE Both(t) == t \in Texts /\ GoesOn(Line(L1), "team a", t) /\ GoesOn(y3, "event name", t)
<1>15. Both(y4)
  BY <1>14
<1>. HIDE DEF y3
<1>16. ASSUME NEW t, Both(t), NEW s \in Texts PROVE Both(t \o s)
  BY <1>9, <1>13, <1>16, GoesOnStill, TextConcat
<1>. HIDE DEF Both
<1>17. Both(y5)
  <2>. HIDE DEF y4
  <2>. QED BY <1>9, <1>15, <1>16
<1>18. Both(y7)
  <2>. HIDE DEF y5
  <2>1. Both(y6)
    BY <1>8, <1>16, <1>17
  <2>. HIDE DEF y6
  <2>. QED BY <1>6, <1>16, <2>1
<1>19. Both(y9)
  <2>. HIDE DEF y7
  <2>1. Both(y8)
    BY <1>8, <1>16, <1>18
  <2>. HIDE DEF y8
  <2>. QED BY <1>6, <1>16, <2>1
<1>20. Both(y11)
  <2>. HIDE DEF y9
  <2>1. Both(y10)
    BY <1>8, <1>16, <1>19
  <2>. HIDE DEF y10
  <2>. QED BY <1>6, <1>16, <2>1
<1>21. Both(y13)
  <2>. HIDE DEF y11
  <2>1. Both(y12)
    BY <1>8, <1>16, <1>20
  <2>. HIDE DEF y12
  <2>. QED BY <1>9, <1>16, <2>1
<1>. HIDE DEF y13
<1>. QED BY <1>11, <1>21 DEF Both, y3, y2, L1, L2, L3

(* What the server makes of a text of user u: the body, if any is left, is one that
   begins with the line of u. *)
ReadsAs(f, u) == f = Throws \/ f.body = Empty \/ SentBy(f.body, u)

(* Java's split leaves the pieces as they are. *)
LEMMA PiecesKept ==
  ASSUME NEW pieces \in Seq(Texts), pieces # <<>>
  PROVE  /\ DropEmptyEnd(pieces) \in Seq(Texts)
         /\ \A i \in 1 .. Len(DropEmptyEnd(pieces)) :
              i \in 1 .. Len(pieces) /\ DropEmptyEnd(pieces)[i] = pieces[i]
<1>1. CASE Len(pieces) = 1
  BY <1>1 DEF DropEmptyEnd
<1>2. CASE Len(pieces) # 1
  <2>. DEFINE S == {0} \cup {i \in DOMAIN pieces : pieces[i] # Empty}
              m == Max(S)
  <2>1. S \in SUBSET Nat /\ 0 \in S /\ \A i \in S : i <= Len(pieces)
    OBVIOUS
  <2>2. m \in S
    <3>1. \E x \in S : \A y \in S : y <= x
      <4>1. IsFiniteSet(S)
        <5>1. S \in SUBSET (0 .. Len(pieces))
          OBVIOUS
        <5>2. IsFiniteSet(0 .. Len(pieces))
          BY FS_Interval
        <5>. QED BY <5>1, <5>2, FS_Subset
      <4>. DEFINE D == {Len(pieces) - i : i \in S}
      <4>2. D \in SUBSET Nat /\ D # {}
        BY <2>1
      <4>3. PICK d \in D : \A e \in D : d <= e
        <5>. HIDE DEF D
        <5>. QED BY <4>2, LeastNatural
      <4>4. PICK x \in S : d = Len(pieces) - x
        BY <4>3
      <4>5. \A y \in S : y <= x
        <5>. TAKE y \in S
        <5>1. Len(pieces) - y \in D
          OBVIOUS
        <5>2. Len(pieces) - x <= Len(pieces) - y
          BY <4>3, <4>4, <5>1
        <5>3. Len(pieces) \in Nat /\ x \in Nat /\ y \in Nat
          BY <2>1
        <5>. HIDE DEF S, D
        <5>. QED BY <5>2, <5>3
      <4>. QED BY <4>5
    <3>. HIDE DEF S
    <3>. QED BY <3>1 DEF Max
  <2>3. m \in Nat /\ m <= Len(pieces)
    <3>. HIDE DEF S
    <3>. QED BY <2>1, <2>2
  <2>4. DropEmptyEnd(pieces) = SubSeq(pieces, 1, m)
    BY <1>2 DEF DropEmptyEnd
  <2>. HIDE DEF m, S
  <2>. QED BY <2>3, <2>4
<1>. QED BY <1>1, <1>2

(* extractFrame takes a body only from a text of two pieces. *)
LEMMA DecodedBody ==
  ASSUME NEW pieces
  PROVE  \/ DecodedPieces(pieces) = Throws
         \/ DecodedPieces(pieces).body = IF Len(pieces) = 2 THEN pieces[2] ELSE Empty
<1>. DEFINE b == IF Len(pieces) = 2 THEN pieces[2] ELSE Empty
            l == JavaSplit(pieces[1], <<NL>>)
<1>1. DecodedPieces(pieces) = Throws \/ DecodedPieces(pieces) = DecodedLines(l, b)
  BY DEF DecodedPieces
<1>2. DecodedLines(l, b) = Throws \/ DecodedLines(l, b).body = b
  <2>. HIDE DEF l, b
  <2>. QED BY DEF DecodedLines, Frame
<1>. QED BY <1>1, <1>2

(* The head of a report's frame *)
DestinationLine(game) == <<"destination">> \o <<Colon>> \o game
SendHead(game) == Line(<<"SEND">>) \o Line(DestinationLine(game))

(* The text of a report's frame: its head, a blank line and its body *)
LEMMA ReportTextIs ==
  ASSUME NEW game \in Texts, NEW body \in Texts
  PROVE  frameToString(Frame(<<"SEND">>, [h \in {<<"destination">>} |-> game], body))
           = SendHead(game) \o <<NL>> \o body
<1>. DEFINE d == [h \in {<<"destination">>} |-> game]
            k == <<"destination">>
<1>1. DOMAIN d = {k} /\ d[k] = game
  OBVIOUS
<1>2. HeaderLines(d) = KeyLines(d, {k})
  BY <1>1, HeaderLinesAreKeyLines
<1>. HIDE DEF d
<1>. HIDE DEF k
<1>3. IsFiniteSet({k}) /\ {k} # {}
  BY FS_Singleton
<1>4. Taken({k}) \in {k} /\ KeyLines(d, {k}) = KeyLines(d, {k} \ {Taken({k})}) \o KeyLine(d, Taken({k}))
  BY <1>3, KeyLinesStep
<1>5. Taken({k}) = k /\ {k} \ {k} = {}
  BY <1>4
<1>6. KeyLines(d, {k}) = <<>> \o KeyLine(d, k)
  BY <1>4, <1>5, NoKeyLines DEF Empty
<1>7. KeyLine(d, k) = Line(DestinationLine(game))
  BY <1>1 DEF KeyLine, DestinationLine, k
<1>8. DestinationLine(game) \in Texts
  BY KeywordIsText, LabelTextIsText DEF DestinationLine, Keywords
<1>9. Line(DestinationLine(game)) \in Texts
  BY <1>8, LineIsText
<1>10. HeaderLines(d) = Line(DestinationLine(game))
  <2>1. <<>> \o Line(DestinationLine(game)) = Line(DestinationLine(game))
    BY <1>9 DEF Texts
  <2>. QED BY <1>2, <1>6, <1>7, <2>1
<1>. QED BY <1>10 DEF frameToString, Frame, SendHead, d, k

LEMMA HeadOfTexts ==
  ASSUME NEW game \in Texts
  PROVE  /\ DestinationLine(game) \in Texts /\ Line(<<"SEND">>) \in Texts
         /\ Line(<<"SEND">>) \o DestinationLine(game) \in Texts
         /\ SendHead(game) = (Line(<<"SEND">>) \o DestinationLine(game)) \o <<NL>>
         /\ SendHead(game) \in Texts
<1>1. DestinationLine(game) \in Texts
  BY KeywordIsText, LabelTextIsText DEF DestinationLine, Keywords
<1>2. Line(<<"SEND">>) \in Texts
  BY KeywordIsText, LineIsText DEF Keywords
<1>3. Line(DestinationLine(game)) \in Texts
  BY <1>1, LineIsText
<1>4. <<NL>> \in Texts
  BY NLIsToken, NoBlankInWord
<1>5. SendHead(game) = (Line(<<"SEND">>) \o DestinationLine(game)) \o <<NL>>
  BY <1>1, <1>2, <1>4, ConcatIsAssociative DEF SendHead, Texts, Line
<1>. QED BY <1>1, <1>2, <1>3, <1>5, TextConcat DEF SendHead

Associate(a, b, c) == (a \o b) \o c = a \o (b \o c)

LEMMA TextsAssociate ==
  ASSUME NEW a \in Texts, NEW b \in Texts, NEW c \in Texts
  PROVE  Associate(a, b, c)
BY ConcatIsAssociative DEF Associate, Texts

(* The head of a frame has a blank line only where a name of a team has one or ends
   with a line feed. *)
LEMMA BlankInHead ==
  ASSUME NEW a \in Texts, NEW b \in Texts, HasBlank(SendHead(a \o <<Underscore>> \o b))
  PROVE  HasBlank(a) \/ HasBlank(Line(b))
<1>. DEFINE game == a \o <<Underscore>> \o b
            s == <<"SEND">> \o <<NL>> \o <<"destination">>
<1>1. /\ <<NL>> \in Texts /\ <<"SEND">> \in Texts /\ <<"destination">> \in Texts /\ <<Colon>> \in Texts
      /\ "SEND" \in Tokens /\ "destination" \in Tokens /\ <<Underscore>> \in Texts
  BY NLIsToken, NoBlankInWord, KeywordIsText DEF Keywords
<1>2. /\ <<"SEND">> \o <<NL>> \in Texts /\ s \in Texts /\ s \o <<Colon>> \in Texts
          /\ s \o <<Colon>> \o a \in Texts
      /\ a \o <<Underscore>> \in Texts /\ Line(b) \in Texts /\ game \in Texts
      /\ <<"destination">> \o <<Colon>> \in Texts /\ b \o <<NL>> \in Texts
  BY <1>1, TextConcat, LineIsText
<1>3. SendHead(game) = ((s \o <<Colon>> \o a) \o <<Underscore>>) \o Line(b)
  <2>. DEFINE p == <<"SEND">> \o <<NL>>
              d == <<"destination">>
              c == <<Colon>>
              m == <<Underscore>>
              n == <<NL>>
  <2>1. /\ p \in Texts /\ d \in Texts /\ c \in Texts /\ m \in Texts
        /\ n \in Texts /\ a \in Texts /\ b \in Texts
    BY <1>1, <1>2
  <2>2. SendHead(game) = p \o (((d \o c) \o ((a \o m) \o b)) \o n)
    BY DEF SendHead, Line, DestinationLine
  <2>3. s \o <<Colon>> \o a = ((p \o d) \o c) \o a /\ Line(b) = b \o n
    BY DEF Line
  <2>. HIDE DEF p, d, c, m, n, s, game
  <2>4. d \o c \in Texts /\ a \o m \in Texts
    BY <2>1, TextConcat
  <2>. DEFINE e == (d \o c) \o a
  <2>5. e \in Texts /\ e \o m \in Texts /\ b \o n \in Texts /\ p \in Texts
    BY <2>1, <2>4, TextConcat
  <2>6. (e \o m) \o b \in Texts
    BY <2>1, <2>5, TextConcat
  <2>7. /\ Associate(d \o c, a \o m, b) /\ Associate(d \o c, a, m)
        /\ Associate(p, d \o c, a) /\ Associate(p, d, c)
    BY <2>1, <2>4, TextsAssociate
  <2>8. /\ Associate(e \o m, b, n) /\ Associate(p, e \o m, b \o n) /\ Associate(p, e, m)
    BY <2>1, <2>5, TextsAssociate
  <2>9. (d \o c) \o ((a \o m) \o b) = (e \o m) \o b
    BY <2>7 DEF Associate
  <2>10. p \o e = ((p \o d) \o c) \o a
    BY <2>7 DEF Associate
  <2>11. SendHead(game) = p \o (((e \o m) \o b) \o n)
    BY <2>2, <2>9
  <2>. HIDE DEF e
  <2>12. p \o (((e \o m) \o b) \o n) = ((p \o e) \o m) \o (b \o n)
    BY <2>8 DEF Associate
  <2>. QED BY <2>3, <2>10, <2>11, <2>12 DEF m
<1>4. Colon # NL /\ Underscore # NL /\ "SEND" # NL /\ "destination" # NL
  BY DEF Colon, NL, Underscore
<1>. DEFINE e == s \o <<Colon>> \o a
<1>5. e \in Texts /\ HasBlank((e \o <<Underscore>>) \o Line(b))
  BY <1>2, <1>3
<1>6. ~HasBlank(s)
  BY <1>4 DEF HasBlank, BlankAt
<1>. HIDE DEF s
<1>7. HasBlank(e) => HasBlank(a)
  BY <1>2, <1>4, <1>6, BlankAcross, NLIsToken
<1>. HIDE DEF e
<1>8. HasBlank(e) \/ HasBlank(Line(b))
  BY <1>2, <1>4, <1>5, BlankAcross, NLIsToken
<1>. QED BY <1>7, <1>8

(* When there is one blank line in the head, the body is the piece behind it. *)
LEMMA ReadPiece ==
  ASSUME NEW h \in Texts, NEW ps \in Seq(Texts), ps # <<>>, NEW u, SentBy(ps[1], u),
         NEW text, split(text, Blank) = <<h>> \o ps
  PROVE  ReadsAs(extractFrame(text), u)
<1>. DEFINE q == <<h>> \o ps
            d == DropEmptyEnd(q)
<1>1. /\ q \in Seq(Texts) /\ Len(ps) \in Nat /\ Len(q) = Len(ps) + 1
      /\ \A i \in 1 .. Len(ps) : q[i + 1] = ps[i]
  BY FirstOfPieces
<1>2. Len(ps) > 0 /\ 1 \in 1 .. Len(ps) /\ q # <<>>
  <2>1. Len(ps) > 0
    OBVIOUS
  <2>. QED BY <1>1, <2>1
<1>3. q[2] = ps[1]
  <2>1. q[1 + 1] = ps[1]
    BY <1>1, <1>2
  <2>. QED BY <2>1
<1>. HIDE DEF q
<1>4. \A i \in 1 .. Len(d) : i \in 1 .. Len(q) /\ d[i] = q[i]
  BY <1>1, <1>2, PiecesKept
<1>5. Len(d) = 2 => d[2] = ps[1]
  <2>. SUFFICES ASSUME Len(d) = 2 PROVE d[2] = ps[1]
    OBVIOUS
  <2>1. 2 \in 1 .. Len(d)
    OBVIOUS
  <2>. QED BY <1>3, <1>4, <2>1
<1>. DEFINE f == DecodedPieces(d)
<1>6. f = Throws \/ f.body = IF Len(d) = 2 THEN d[2] ELSE Empty
  BY DecodedBody
<1>7. extractFrame(text) = f
  BY DEF extractFrame, JavaSplit, q, Blank
<1>. HIDE DEF f, d
<1>. QED BY <1>5, <1>6, <1>7 DEF ReadsAs

(* However a report of user u reads, what the server takes for the body of its text,
   if anything, begins with the line of u and has no blank line. *)
THEOREM ServerReads ==
  ASSUME NEW u, NEW names, NEW event, TextReport(u, names, event)
  PROVE  /\ frameToString(ReportFrame(u, names, event)) \in Texts
         /\ ReadsAs(extractFrame(frameToString(ReportFrame(u, names, event))), u)
<1>. DEFINE a == names.team_a
            b == names.team_b
            game == a \o <<Underscore>> \o b
            body == ReportBody(u, names, event)
            text == frameToString(ReportFrame(u, names, event))
            x == SendHead(game)
            h == Line(<<"SEND">>) \o DestinationLine(game)
            y == Line(UserLine(u)) \o Line(TeamALine(names)) \o Line(TeamBLine(names))
<1>1. a \in Texts /\ b \in Texts /\ InOneField(u) /\ u \in Texts
  BY DEF TextReport, InOneField, InOneLine
<1>2. body \in Texts /\ GoesOn(Line(UserLine(u)), "team a", body) /\ GoesOn(y, "event name", body)
  BY BodyOfTexts
<1>3. game \in Texts
  <2>. HIDE DEF a, b
  <2>1. a \o <<Underscore>> \in Texts
    BY <1>1, AddToken, NLIsToken
  <2>. QED BY <1>1, <2>1, TextConcat
<1>4. /\ DestinationLine(game) \in Texts /\ Line(<<"SEND">>) \in Texts
      /\ h \in Texts /\ x = h \o <<NL>> /\ x \in Texts
  BY <1>3, HeadOfTexts
<1>5. text = x \o <<NL>> \o body
  BY <1>2, <1>3, ReportTextIs DEF ReportFrame, GameName
<1>6. x \o <<NL>> \in Texts
  BY <1>4, AddToken, NLIsToken
<1>7. text \in Texts
  BY <1>2, <1>5, <1>6, TextConcat
<1>8. CASE ~HasBlank(x)
  <2>1. "team a" # NL
    BY DEF NL
  <2>2. SentBy(split(body, Blank)[1], u)
    BY <1>1, <1>2, <2>1, FirstPieceSent DEF UserLine
  <2>3. split(body, Blank) \in Seq(Texts) /\ split(body, Blank) # <<>>
    BY <1>2, BlankSplitType
  <2>4. Line(<<"SEND">>) # <<>>
    BY KeywordIsText, LineIsText DEF Keywords
  <2>5. h # <<>>
    BY <1>4, <2>4, FirstOfConcat
  <2>. HIDE DEF text, h, x, body
  <2>6. Blankless(h) /\ h[Len(h)] # NL
    <3>1. /\ Len(h) \in Nat /\ Len(h \o <<NL>>) = Len(h) + 1 /\ (h \o <<NL>>)[Len(h) + 1] = NL
          /\ \A i \in 1 .. Len(h) : (h \o <<NL>>)[i] = h[i]
      BY <1>4, AddToken, NLIsToken
    <3>2. ~HasBlank(h)
      BY <1>4, <1>8, NLIsToken, NoBlankInWord, BlankInConcat
    <3>3. Len(h) > 0
      BY <1>4, <2>5 DEF Texts
    <3>4. h[Len(h)] # NL
      <4>. SUFFICES ASSUME h[Len(h)] = NL PROVE FALSE
        OBVIOUS
      <4>1. Len(h) \in 1 .. Len(h) /\ Len(h) \in 1 .. Len(h \o <<NL>>) - 1
        BY <3>1, <3>3
      <4>2. BlankAt(x, Len(h))
        BY <1>4, <3>1, <4>1 DEF BlankAt
      <4>. QED BY <1>8, <4>2 DEF HasBlank
    <3>. QED BY <1>4, <3>2, <3>4, NoBlankIsBlankless
  <2>7. split(text, Blank) = <<h>> \o split(body, Blank)
    BY <1>2, <1>4, <1>5, <2>5, <2>6, SplitBlank
  <2>8. ReadsAs(extractFrame(text), u)
    BY <1>4, <2>2, <2>3, <2>7, ReadPiece
  <2>. QED BY <1>7, <2>8 DEF text
<1>9. CASE HasBlank(x)
  <2>1. HasBlank(a) \/ HasBlank(Line(b))
    BY <1>1, <1>9, BlankInHead
  <2>2. /\ TeamA \o <<Colon>> \in Texts /\ TeamB \o <<Colon>> \in Texts
        /\ TeamALine(names) \in Texts /\ TeamBLine(names) \in Texts /\ UserLine(u) \in Texts
    BY <1>1, KeywordIsText, LabelTextIsText DEF TeamALine, TeamBLine, UserLine, TeamA, TeamB, Keywords
  <2>3. /\ Line(TeamALine(names)) \in Texts /\ Line(TeamBLine(names)) \in Texts
        /\ Line(UserLine(u)) \in Texts /\ Line(b) \in Texts
    BY <1>1, <2>2, LineIsText
  <2>4. HasBlank(a) => HasBlank(Line(TeamALine(names)))
    <3>1. HasBlank(a) => HasBlank(TeamALine(names))
      BY <1>1, <2>2, BlankInConcat DEF TeamALine
    <3>. QED BY <2>2, <3>1, NLIsToken, NoBlankInWord, BlankInConcat DEF Line
  <2>5. HasBlank(Line(b)) => HasBlank(Line(TeamBLine(names)))
    <3>1. Associate(TeamB \o <<Colon>>, b, <<NL>>)
      BY <1>1, <2>2, NLIsToken, NoBlankInWord, TextsAssociate
    <3>2. Line(TeamBLine(names)) = (TeamB \o <<Colon>>) \o Line(b)
      BY <3>1 DEF Associate, Line, TeamBLine
    <3>. QED BY <2>2, <2>3, <3>2, BlankInConcat
  <2>. DEFINE l1 == Line(UserLine(u))
              l2 == Line(TeamALine(names))
              l3 == Line(TeamBLine(names))
  <2>6. HasBlank(y) /\ y \in Texts
    <3>1. (HasBlank(l2) \/ HasBlank(l3)) /\ l1 \in Texts /\ l2 \in Texts /\ l3 \in Texts
      BY <2>1, <2>3, <2>4, <2>5
    <3>. HIDE DEF l1, l2, l3
    <3>2. l1 \o l2 \in Texts
      BY <3>1, TextConcat
    <3>3. HasBlank(l2) => HasBlank(l1 \o l2)
      BY <3>1, BlankInConcat
    <3>4. HasBlank((l1 \o l2) \o l3) /\ (l1 \o l2) \o l3 \in Texts
      BY <3>1, <3>2, <3>3, BlankInConcat, TextConcat
    <3>. QED BY <3>4 DEF l1, l2, l3
  <2>. HIDE DEF y, x, text, body, game, h
  <2>7. HasBlank(x \o <<NL>>)
    BY <1>4, <1>9, NLIsToken, NoBlankInWord, BlankInConcat
  <2>8. PICK r \in Texts : r # <<>> /\ r[1] = "event name" /\ body = y \o r
    BY <1>2 DEF GoesOn
  <2>. DEFINE z == x \o <<NL>>
  <2>9. z \in Texts /\ HasBlank(z) /\ text = z \o (y \o r)
    BY <1>5, <1>6, <2>7, <2>8
  <2>. HIDE DEF z
  <2>10. text = (z \o y) \o r
    <3>1. Associate(z, y, r)
      BY <2>6, <2>9, TextsAssociate
    <3>. QED BY <2>9, <3>1 DEF Associate
  <2>11. r[1] # NL
    BY <2>8 DEF NL
  <2>12. Len(JavaSplit(text, Blank)) \in Nat /\ Len(JavaSplit(text, Blank)) >= 3
    BY <2>6, <2>8, <2>9, <2>10, <2>11, BlanksAround
  <2>13. ASSUME NEW pieces, Len(pieces) \in Nat, Len(pieces) >= 3
         PROVE  ReadsAs(DecodedPieces(pieces), u)
    <3>1. \/ DecodedPieces(pieces) = Throws
          \/ DecodedPieces(pieces).body = IF Len(pieces) = 2 THEN pieces[2] ELSE Empty
      BY DecodedBody
    <3>. DEFINE n == Len(pieces)
    <3>a. n \in Nat /\ n >= 3
      BY <2>13
    <3>. HIDE DEF n
    <3>b. n # 2
      BY <3>a
    <3>2. Len(pieces) # 2
      BY <3>b DEF n
    <3>. QED BY <3>1, <3>2 DEF ReadsAs
  <2>14. extractFrame(text) = DecodedPieces(JavaSplit(text, Blank))
    BY DEF extractFrame, Blank
  <2>16. ReadsAs(extractFrame(text), u)
    BY <2>12, <2>13, <2>14
  <2>. QED BY <1>7, <2>16 DEF text
<1>. QED BY <1>8, <1>9

(* An empty body names no sender. *)
LEMMA EmptyNamesNobody ==
  Field(split(Empty, <<NL>>)[1], 2) = Throws
<1>1. <<>> \in Texts
  BY DEF Texts
<1>2. ToSet(<<>>) = {}
  BY DEF ToSet
<1>3. split(<<>>, <<NL>>) = << <<>> >> /\ split(<<>>, <<Colon>>) = << <<>> >>
  BY <1>1, <1>2, SplitWhole, NLIsToken
<1>4. split(<<>>, <<NL>>)[1] = <<>>
  BY <1>3
<1>5. 2 \notin DOMAIN << <<>> >>
  OBVIOUS
<1>. QED BY <1>3, <1>4, <1>5 DEF Field, Element, Empty
===============================================================================
