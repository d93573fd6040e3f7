---------------------------- MODULE JsonParserProofs ----------------------------
(*****************************************************************************)
(* The theorem that the two stacks of the parser agree, for files of any     *)
(* length and values of any depth.                                           *)
(*                                                                           *)
(* Of the value so far only the part along the pointer to the structure that *)
(* is being filled matters: what is stored leaves that part standing (Held), *)
(* whatever hangs on it.  Along and Stored are recursive functions, unfolded *)
(* once each.                                                                *)
(*****************************************************************************)
EXTENDS JsonGrammar, TLAPS, WellFoundedInduction, SequenceTheorems

-------------------------------------------------------------------------------
(* Sequences whose elements are of no one kind: paths and arrays *)

IsSeq(e) == Len(e) \in Nat /\ e = [i \in 1 .. Len(e) |-> e[i]]

LEMMA EmptyIsSeq == Len(<<>>) = 0 /\ IsSeq(<<>>)
BY DEF IsSeq

LEMMA NotEmpty == ASSUME NEW e, Len(e) # 0 PROVE e # <<>>
OBVIOUS

LEMMA LastOfBooleans ==
  ASSUME NEW s \in Seq(BOOLEAN), NEW b \in BOOLEAN
  PROVE  /\ Append(s, b) \in Seq(BOOLEAN) /\ Append(s, b) # <<>>
         /\ Last(Append(s, b)) = b
         /\ \A i \in DOMAIN s : Append(s, b)[i] = s[i] /\ i \in 1 .. Len(Append(s, b))
<1>1. Append(s, b) \in Seq(BOOLEAN) /\ Len(Append(s, b)) = Len(s) + 1
      /\ Append(s, b)[Len(s) + 1] = b /\ Len(s) \in Nat
  OBVIOUS
<1>. QED BY <1>1 DEF Last

LEMMA SeqOver ==
  ASSUME NEW e, IsSeq(e)
  PROVE  e \in Seq({e[i] : i \in 1 .. Len(e)})
<1>. DEFINE S == {e[i] : i \in 1 .. Len(e)}
<1>1. e \in [1 .. Len(e) -> S]
  BY DEF IsSeq
<1>. QED BY <1>1, SeqDef DEF IsSeq

LEMMA SubSeqIs ==
  ASSUME NEW p, IsSeq(p), NEW n \in 0 .. Len(p)
  PROVE  SubSeq(p, 1, n) = [i \in 1 .. n |-> p[i]] /\ Len(SubSeq(p, 1, n)) = n
         /\ IsSeq(SubSeq(p, 1, n))
<1>1. p \in Seq({p[i] : i \in 1 .. Len(p)})
  BY SeqOver
<1>. DEFINE S == {p[i] : i \in 1 .. Len(p)}
<1>. HIDE DEF S
<1>. p \in Seq(S)
  BY <1>1 DEF S
<1>2. n \in Nat /\ n <= Len(p) /\ Len(p) \in Nat
  BY DEF IsSeq
<1>3. SubSeq(p, 1, n) \in Seq(S) /\ Len(SubSeq(p, 1, n)) = n
      /\ \A i \in 1 .. n : SubSeq(p, 1, n)[i] = p[i]
  BY <1>2
<1>4. SubSeq(p, 1, n) = [i \in 1 .. n |-> p[i]]
  BY <1>3, <1>2
<1>. QED BY <1>2, <1>3, <1>4 DEF IsSeq

LEMMA AppendIs ==
  ASSUME NEW e, IsSeq(e), NEW x
  PROVE  /\ Append(e, x) = [i \in 1 .. Len(e) + 1 |-> IF i = Len(e) + 1 THEN x ELSE e[i]]
         /\ Len(Append(e, x)) = Len(e) + 1
         /\ IsSeq(Append(e, x))
         /\ Append(e, x) # <<>>
         /\ Last(Append(e, x)) = x
         /\ Front(Append(e, x)) = e
<1>. DEFINE S == {e[i] : i \in 1 .. Len(e)} \cup {x}
<1>1. e \in Seq(S)
  <2>1. e \in [1 .. Len(e) -> S]
    BY DEF IsSeq
  <2>. QED BY <2>1, SeqDef DEF IsSeq
<1>. HIDE DEF S
<1>2. x \in S
  BY DEF S
<1>3. Append(e, x) \in Seq(S) /\ Len(Append(e, x)) = Len(e) + 1
      /\ \A i \in 1 .. Len(e) + 1 : Append(e, x)[i] = IF i = Len(e) + 1 THEN x ELSE e[i]
  BY <1>1, <1>2
<1>4. Append(e, x) = [i \in 1 .. Len(e) + 1 |-> IF i = Len(e) + 1 THEN x ELSE e[i]]
  <2>1. Append(e, x) \in [1 .. Len(e) + 1 -> S]
    BY <1>3, LenProperties
  <2>. QED BY <2>1, <1>3
<1>5. Len(e) \in Nat /\ Len(e) + 1 # 0
  BY <1>1
<1>6. Last(Append(e, x)) = x
  BY <1>3, <1>5 DEF Last
<1>7. Front(Append(e, x)) = e
  <2>1. Front(Append(e, x)) = SubSeq(Append(e, x), 1, Len(e))
    BY <1>3, <1>5 DEF Front
  <2>2. IsSeq(Append(e, x)) /\ Len(e) \in 0 .. Len(Append(e, x))
    BY <1>3, <1>4, <1>5 DEF IsSeq
  <2>3. SubSeq(Append(e, x), 1, Len(e)) = [i \in 1 .. Len(e) |-> Append(e, x)[i]]
    BY <2>2, SubSeqIs
  <2>4. \A i \in 1 .. Len(e) : Append(e, x)[i] = e[i]
    BY <1>3, <1>5
  <2>. QED BY <2>1, <2>3, <2>4 DEF IsSeq
<1>. QED BY <1>3, <1>4, <1>5, <1>6, <1>7 DEF IsSeq

LEMMA FrontIs ==
  ASSUME NEW p, IsSeq(p), p # <<>>
  PROVE  /\ Len(p) >= 1
         /\ Front(p) = [i \in 1 .. Len(p) - 1 |-> p[i]]
         /\ Len(Front(p)) = Len(p) - 1
         /\ IsSeq(Front(p))
<1>1. Len(p) \in Nat /\ Len(p) # 0
  BY DEF IsSeq
<1>2. Len(p) - 1 \in 0 .. Len(p)
  BY <1>1
<1>3. Front(p) = SubSeq(p, 1, Len(p) - 1)
  BY DEF Front
<1>4. SubSeq(p, 1, Len(p) - 1) = [i \in 1 .. Len(p) - 1 |-> p[i]]
      /\ Len(SubSeq(p, 1, Len(p) - 1)) = Len(p) - 1 /\ IsSeq(SubSeq(p, 1, Len(p) - 1))
  BY <1>2, SubSeqIs
<1>. HIDE DEF IsSeq
<1>. QED BY <1>1, <1>3, <1>4

-------------------------------------------------------------------------------
(* What a path leads to, and what stands at its end once a value is stored *)

(* Least elements stand in for induction: a theorem with an operator for a parameter
   cannot be instantiated by the provers, well-foundedness of < can. *)
LEMMA LeastNatural ==
  ASSUME NEW S \in SUBSET Nat, S # {}
  PROVE  \E m \in S : \A k \in S : m <= k
<1>1. PICK x \in S : \A y \in S : ~ (<<y, x>> \in OpToRel(<,Nat))
  BY NatLessThanWellFounded, WFMin
<1>2. \A y \in S : ~(y < x)
  BY <1>1 DEF OpToRel
<1>. QED BY <1>2

(* Induction, over a set instead of a predicate *)
LEMMA NaturalsAreAll ==
  ASSUME NEW S \in SUBSET Nat, 0 \in S, \A n \in S : n + 1 \in S
  PROVE  S = Nat
<1>. SUFFICES ASSUME NEW x \in Nat, x \notin S PROVE FALSE
  OBVIOUS
<1>1. PICK m \in Nat \ S : \A k \in Nat \ S : m <= k
  BY LeastNatural
<1>2. m - 1 \in Nat /\ m - 1 \notin Nat \ S
  BY <1>1
<1>. QED BY <1>1, <1>2

IsAlong(to, value, path) ==
  to = [i \in 0 .. Len(path) |-> IF i = 0 THEN value ELSE Child(to[i - 1], path[i])]

LEMMA AlongExists ==
  ASSUME NEW path, Len(path) \in Nat, NEW value
  PROVE  \E to : IsAlong(to, value, path)
<1>. DEFINE n == Len(path)
            Good(f, j) == /\ f = [i \in 0 .. n |-> f[i]]
                          /\ f[0] = value
                          /\ \A i \in 1 .. n : i <= j => f[i] = Child(f[i - 1], path[i])
            S == {j \in Nat : \E f : Good(f, j)}
<1>1. 0 \in S
  <2>1. Good([i \in 0 .. n |-> value], 0)
    OBVIOUS
  <2>. QED BY <2>1
<1>2. ASSUME NEW j \in S PROVE j + 1 \in S
  <2>. PICK f : Good(f, j)
    OBVIOUS
  <2>. DEFINE v == Child(f[j], path[j + 1])
              g == [i \in 0 .. n |-> IF i = j + 1 THEN v ELSE f[i]]
  <2>. HIDE DEF v
  <2>1. ASSUME NEW i \in 1 .. n, i <= j + 1 PROVE g[i] = Child(g[i - 1], path[i])
    <3>1. CASE i = j + 1
      <4>1. g[i] = v /\ g[i - 1] = f[j]
        BY <3>1
      <4>. QED BY <4>1, <3>1 DEF v
    <3>2. CASE i # j + 1
      <4>1. g[i] = f[i] /\ g[i - 1] = f[i - 1] /\ i <= j
        BY <3>2, <2>1
      <4>. HIDE DEF g
      <4>. QED BY <4>1
    <3>. QED BY <3>1, <3>2
  <2>2. g[0] = value
    OBVIOUS
  <2>3. Good(g, j + 1)
    BY <2>1, <2>2
  <2>4. \E h : Good(h, j + 1)
    BY <2>3
  <2>. HIDE DEF Good
  <2>. QED BY <2>4
<1>3. n \in S
  <2>. HIDE DEF Good
  <2>. S \in SUBSET Nat
    OBVIOUS
  <2>. HIDE DEF S
  <2>. QED BY <1>1, <1>2, NaturalsAreAll
<1>4. PICK f : Good(f, n)
  BY <1>3
<1>5. IsAlong(f, value, path)
  <2>1. \A i \in 0 .. n : f[i] = IF i = 0 THEN value ELSE Child(f[i - 1], path[i])
    BY <1>4
  <2>. QED BY <2>1, <1>4 DEF IsAlong
<1>. QED BY <1>5

LEMMA AlongIs ==
  ASSUME NEW path, Len(path) \in Nat, NEW value
  PROVE  /\ Along(value, path)[0] = value
         /\ \A i \in 1 .. Len(path) :
              Along(value, path)[i] = Child(Along(value, path)[i - 1], path[i])
<1>1. Along(value, path) = CHOOSE to : IsAlong(to, value, path)
  BY DEF Along, IsAlong
<1>2. IsAlong(Along(value, path), value, path)
  BY <1>1, AlongExists
<1>. DEFINE a == Along(value, path)
<1>3. a = [i \in 0 .. Len(path) |-> IF i = 0 THEN value ELSE Child(a[i - 1], path[i])]
  BY <1>2 DEF IsAlong
<1>. HIDE DEF a
<1>4. a[0] = value /\ \A i \in 1 .. Len(path) : a[i] = Child(a[i - 1], path[i])
  BY <1>3
<1>. QED BY <1>4 DEF a

(* A path is followed step by step: what lies behind a step does not count before it. *)
LEMMA AlongTheSame ==
  ASSUME NEW path, NEW beginning, Len(path) \in Nat, Len(beginning) \in 0 .. Len(path), NEW value,
         \A i \in 1 .. Len(beginning) : beginning[i] = path[i]
  PROVE  \A i \in 0 .. Len(beginning) : Along(value, beginning)[i] = Along(value, path)[i]
<1>. DEFINE a == Along(value, path)
            b == Along(value, beginning)
            S == {i \in Nat : i <= Len(beginning) => b[i] = a[i]}
<1>0. Len(beginning) \in Nat
  OBVIOUS
<1>1. /\ a[0] = value /\ \A i \in 1 .. Len(path) : a[i] = Child(a[i - 1], path[i])
      /\ b[0] = value /\ \A i \in 1 .. Len(beginning) : b[i] = Child(b[i - 1], beginning[i])
  BY <1>0, AlongIs
<1>. HIDE DEF a, b
<1>2. 0 \in S
  BY <1>1
<1>3. ASSUME NEW i \in S PROVE i + 1 \in S
  <2>. SUFFICES ASSUME i + 1 <= Len(beginning) PROVE b[i + 1] = a[i + 1]
    OBVIOUS
  <2>1. b[i] = a[i] /\ i + 1 \in 1 .. Len(beginning) /\ i + 1 \in 1 .. Len(path) /\ i + 1 - 1 = i
    BY <1>0
  <2>2. b[i + 1] = Child(b[i], beginning[i + 1]) /\ a[i + 1] = Child(a[i], path[i + 1])
    BY <1>1, <2>1
  <2>. QED BY <2>1, <2>2
<1>4. S = Nat
  <2>. S \in SUBSET Nat
    OBVIOUS
  <2>. HIDE DEF S
  <2>. QED BY <1>2, <1>3, NaturalsAreAll
<1>5. \A i \in 0 .. Len(beginning) : b[i] = a[i]
  BY <1>4, <1>0
<1>. QED BY <1>5 DEF a, b

IsStored(from, above, path, value) ==
  from = [i \in 0 .. Len(path) |->
            IF i = Len(path) THEN value ELSE WithChild(above[i], path[i + 1], from[i + 1])]

LEMMA StoredExists ==
  ASSUME NEW path, Len(path) \in Nat, NEW above, NEW value
  PROVE  \E from : IsStored(from, above, path, value)
<1>. DEFINE n == Len(path)
            Good(f, j) == /\ f = [i \in 0 .. n |-> f[i]]
                          /\ f[n] = value
                          /\ \A i \in 0 .. n - 1 :
                               i >= n - j => f[i] = WithChild(above[i], path[i + 1], f[i + 1])
            S == {j \in Nat : \E f : Good(f, j)}
<1>1. 0 \in S
  <2>1. Good([i \in 0 .. n |-> value], 0)
    OBVIOUS
  <2>. QED BY <2>1
<1>2. ASSUME NEW j \in S PROVE j + 1 \in S
  <2>. PICK f : Good(f, j)
    OBVIOUS
  <2>. DEFINE m == n - (j + 1)
              v == WithChild(above[m], path[m + 1], f[m + 1])
              g == [i \in 0 .. n |-> IF i = m THEN v ELSE f[i]]
  <2>. HIDE DEF v
  <2>0. j \in Nat /\ m \in Int /\ m < n
    OBVIOUS
  <2>1. ASSUME NEW i \in 0 .. n - 1, i >= n - (j + 1)
        PROVE  g[i] = WithChild(above[i], path[i + 1], g[i + 1])
    <3>1. CASE i = m
      <4>1. g[i] = v /\ g[i + 1] = f[m + 1]
        BY <3>1, <2>0
      <4>. QED BY <4>1, <3>1 DEF v
    <3>2. CASE i # m
      <4>1. g[i] = f[i] /\ g[i + 1] = f[i + 1] /\ i >= n - j
        BY <3>2, <2>1, <2>0
      <4>. HIDE DEF g
      <4>. QED BY <4>1
    <3>. QED BY <3>1, <3>2
  <2>2. g[n] = value
    BY <2>0
  <2>3. Good(g, j + 1)
    BY <2>1, <2>2
  <2>4. \E h : Good(h, j + 1)
    BY <2>3
  <2>. HIDE DEF Good
  <2>. QED BY <2>4
<1>3. n \in S
  <2>. HIDE DEF Good
  <2>. S \in SUBSET Nat
    OBVIOUS
  <2>. HIDE DEF S
  <2>. QED BY <1>1, <1>2, NaturalsAreAll
<1>4. PICK f : Good(f, n)
  BY <1>3
<1>5. IsStored(f, above, path, value)
  <2>1. f[n] = value /\ \A i \in 0 .. n - 1 : f[i] = WithChild(above[i], path[i + 1], f[i + 1])
    <3>1. \A i \in 0 .. n - 1 : i >= n - n
      OBVIOUS
    <3>. QED BY <3>1, <1>4
  <2>2. \A i \in 0 .. n : i = n \/ i \in 0 .. n - 1
    OBVIOUS
  <2>3. \A i \in 0 .. n : f[i] = IF i = n THEN value ELSE WithChild(above[i], path[i + 1], f[i + 1])
    BY <2>1, <2>2
  <2>. QED BY <2>3, <1>4 DEF IsStored
<1>. QED BY <1>5

(* From the value to be stored outwards, what its path leads to *)
Built(from, path, value) ==
  /\ from[Len(path)] = value
  /\ \A i \in 0 .. Len(path) - 1 :
       from[i] = WithChild(Along(root, Front(path))[i], path[i + 1], from[i + 1])

LEMMA StoredIs ==
  ASSUME NEW path, Len(path) \in Nat, NEW value
  PROVE  \E from : Stored(path, value) = from[0] /\ Built(from, path, value)
<1>. DEFINE above == Along(root, Front(path))
            from == CHOOSE from : IsStored(from, above, path, value)
<1>1. Stored(path, value) = from[0]
  BY DEF Stored, IsStored
<1>2. IsStored(from, above, path, value)
  BY StoredExists
<1>3. from = [i \in 0 .. Len(path) |->
                IF i = Len(path) THEN value ELSE WithChild(above[i], path[i + 1], from[i + 1])]
  BY <1>2 DEF IsStored
<1>. HIDE DEF from, above
<1>4. from[Len(path)] = value
      /\ \A i \in 0 .. Len(path) - 1 : from[i] = WithChild(above[i], path[i + 1], from[i + 1])
  BY <1>3
<1>5. Built(from, path, value)
  BY <1>4 DEF Built, above
<1>. QED BY <1>1, <1>5

-------------------------------------------------------------------------------
(* What is being filled, from the root inwards: each structure but the last holds the
   next, an array as its last element. *)

Structured(v) ==
  \/ v.type = "array" /\ IsSeq(v.elements)
  \/ v.type = "object"

Held(v, step) ==
  IF v.type = "array" THEN v.elements # <<>> /\ step = Len(v.elements)
  ELSE step \in DOMAIN v.members

Spine(value, path) ==
  /\ \A i \in 0 .. Len(path) : Structured(Along(value, path)[i])
  /\ \A i \in 1 .. Len(path) : Held(Along(value, path)[i - 1], path[i])

(* Where in v something may be put *)
HasRoom(v, step) ==
  v.type = "array" =>
    \/ step = Len(v.elements) + 1
    \/ step = Len(v.elements) /\ v.elements # <<>>

LEMMA WithChildIs ==
  ASSUME NEW v, Structured(v), NEW step, HasRoom(v, step), NEW child
  PROVE  /\ WithChild(v, step, child).type = v.type
         /\ Structured(WithChild(v, step, child))
         /\ Held(WithChild(v, step, child), step)
         /\ Child(WithChild(v, step, child), step) = child
<1>. DEFINE w == WithChild(v, step, child)
<1>1. CASE v.type = "object"
  <2>. DEFINE f == [name \in {step} \cup DOMAIN v.members |->
                      IF name = step THEN child ELSE v.members[name]]
  <2>1. w = Object(f)
    BY <1>1 DEF WithChild
  <2>2. step \in DOMAIN f /\ f[step] = child
    OBVIOUS
  <2>. HIDE DEF f, w
  <2>3. w.type = "object" /\ w.members = f
    BY <2>1 DEF Object
  <2>4. Structured(w) /\ Held(w, step) /\ Child(w, step) = child
    BY <2>2, <2>3 DEF Structured, Held, Child
  <2>. QED BY <1>1, <2>3, <2>4 DEF w
<1>2. CASE v.type = "array"
  <2>. DEFINE n == Len(v.elements)
  <2>0. IsSeq(v.elements) /\ n \in Nat /\ v.elements = [i \in 1 .. n |-> v.elements[i]]
    BY <1>2 DEF Structured, IsSeq
  <2>1. PICK e : w = Array(e) /\ IsSeq(e) /\ e # <<>> /\ Len(e) = step /\ e[step] = child
    <3>1. CASE step = n + 1
      <4>. DEFINE e == Append(v.elements, child)
      <4>1. step \notin DOMAIN v.elements
        BY <3>1, <2>0
      <4>2. w = Array(e)
        BY <4>1, <1>2 DEF WithChild
      <4>3. IsSeq(e) /\ e # <<>> /\ Len(e) = step /\ Last(e) = child
        BY <3>1, <2>0, AppendIs
      <4>4. e[step] = child
        BY <4>3 DEF Last
      <4>. HIDE DEF e
      <4>. QED BY <4>2, <4>3, <4>4
    <3>2. CASE step = n /\ v.elements # <<>>
      <4>. DEFINE e == [v.elements EXCEPT ![step] = child]
      <4>0. n # 0
        BY <3>2, <2>0
      <4>1. step \in DOMAIN v.elements
        BY <3>2, <2>0, <4>0
      <4>2. w = Array(e)
        BY <4>1, <1>2 DEF WithChild
      <4>3. e = [i \in 1 .. n |-> IF i = step THEN child ELSE v.elements[i]]
        BY <2>0
      <4>4. e \in Seq({v.elements[i] : i \in 1 .. n} \cup {child}) /\ Len(e) = n
        <5>. DEFINE T == {v.elements[i] : i \in 1 .. n} \cup {child}
        <5>1. e \in [1 .. n -> T]
          BY <4>3
        <5>. HIDE DEF T, e
        <5>2. e \in Seq(T)
          BY <5>1, <2>0, SeqDef
        <5>3. Len(e) = n
          BY <5>1, <5>2, <2>0
        <5>. QED BY <5>2, <5>3 DEF T
      <4>5. e[step] = child
        BY <4>3, <3>2, <4>0, <2>0
      <4>6. IsSeq(e)
        BY <4>3, <4>4, <2>0 DEF IsSeq
      <4>7. e # <<>>
        BY <4>4, <4>0
      <4>. HIDE DEF e
      <4>. QED BY <4>2, <4>4, <4>5, <4>6, <4>7, <3>2
    <3>. QED BY <3>1, <3>2, <1>2 DEF HasRoom
  <2>. HIDE DEF w
  <2>3. w.type = "array" /\ w.elements = e
    BY <2>1 DEF Array
  <2>4. Structured(w) /\ Held(w, step) /\ Child(w, step) = child
    BY <2>1, <2>3 DEF Structured, Held, Child
  <2>. QED BY <1>2, <2>3, <2>4 DEF w
<1>. QED BY <1>1, <1>2 DEF Structured

(* A step along a path: the last but one leads to what the last is a step of. *)
LEMMA AlongAppend ==
  ASSUME NEW p, IsSeq(p), NEW x, NEW value
  PROVE  /\ \A i \in 0 .. Len(p) : Along(value, Append(p, x))[i] = Along(value, p)[i]
         /\ \A i \in 1 .. Len(p) : Append(p, x)[i] = p[i]
         /\ Append(p, x)[Len(p) + 1] = x
         /\ Len(Append(p, x)) = Len(p) + 1
<1>0. Len(p) \in Nat
  BY DEF IsSeq
<1>1. Len(Append(p, x)) = Len(p) + 1 /\ \A i \in 1 .. Len(p) : Append(p, x)[i] = p[i]
  BY <1>0, AppendIs
<1>2. Append(p, x)[Len(p) + 1] = x
  BY <1>0, AppendIs
<1>3. Len(Append(p, x)) \in Nat /\ Len(p) \in 0 .. Len(Append(p, x))
  BY <1>0, <1>1
<1>4. \A i \in 0 .. Len(p) : Along(value, p)[i] = Along(value, Append(p, x))[i]
  <2>. DEFINE q == Append(p, x)
  <2>. HIDE DEF q
  <2>1. Len(q) \in Nat /\ Len(p) \in 0 .. Len(q) /\ \A i \in 1 .. Len(p) : p[i] = q[i]
    BY <1>1, <1>3 DEF q
  <2>2. \A i \in 0 .. Len(p) : Along(value, p)[i] = Along(value, q)[i]
    BY <2>1, AlongTheSame
  <2>. QED BY <2>2 DEF q
<1>. QED BY <1>1, <1>2, <1>4

(* What a path leads to stays as it is when something is stored behind its end, but that
   it holds it then. *)
LEMMA StoredStands ==
  ASSUME NEW p, IsSeq(p), Spine(root, p), NEW x, HasRoom(Pointee(p), x), NEW value,
         NEW r, r = Stored(Append(p, x), value)
  PROVE  /\ Along(r, Append(p, x))[Len(p) + 1] = value
         /\ \A i \in 0 .. Len(p) :
              /\ Along(r, p)[i].type = Along(root, p)[i].type
              /\ Structured(Along(r, p)[i])
              /\ Held(Along(r, p)[i], Append(p, x)[i + 1])
<1>. DEFINE q == Append(p, x)
            n == Len(p)
            a == Along(root, p)
            b == Along(r, q)
<1>1. n \in Nat /\ Len(q) = n + 1 /\ Front(q) = p /\ q[n + 1] = x /\ \A i \in 1 .. n : q[i] = p[i]
  BY AppendIs, AlongAppend DEF IsSeq
<1>2. PICK from : /\ r = from[0]
                  /\ from[n + 1] = value
                  /\ \A i \in 0 .. n : from[i] = WithChild(a[i], q[i + 1], from[i + 1])
  <2>1. Len(q) \in Nat /\ Len(q) - 1 = n
    BY <1>1
  <2>. HIDE DEF q
  <2>2. PICK from : Stored(q, value) = from[0] /\ Built(from, q, value)
    BY <2>1, StoredIs
  <2>3. r = from[0] /\ from[n + 1] = value
    BY <2>2, <1>1 DEF q, Built
  <2>4. \A i \in 0 .. n : from[i] = WithChild(a[i], q[i + 1], from[i + 1])
    BY <2>1, <2>2, <1>1 DEF Built
  <2>. QED BY <2>3, <2>4
<1>3. /\ b[0] = r
      /\ \A i \in 1 .. n + 1 : b[i] = Child(b[i - 1], q[i])
  <2>. HIDE DEF q
  <2>. QED BY <1>1, AlongIs
<1>4. \A i \in 0 .. n : Structured(a[i]) /\ HasRoom(a[i], q[i + 1])
  <2>. SUFFICES ASSUME NEW i \in 0 .. n PROVE Structured(a[i]) /\ HasRoom(a[i], q[i + 1])
    OBVIOUS
  <2>1. Structured(a[i])
    BY DEF Spine
  <2>2. CASE i = n
    <3>1. a[i] = Pointee(p) /\ q[i + 1] = x
      BY <2>2, <1>1 DEF Pointee
    <3>. QED BY <2>1, <3>1
  <2>3. CASE i # n
    <3>1. i + 1 \in 1 .. n /\ i + 1 - 1 = i
      BY <2>3, <1>1
    <3>2. Held(a[i], p[i + 1]) /\ q[i + 1] = p[i + 1]
      BY <3>1, <1>1 DEF Spine
    <3>. QED BY <2>1, <3>2 DEF Held, HasRoom
  <2>. QED BY <2>2, <2>3
<1>. HIDE DEF a, b, q
<1>5. \A i \in 0 .. n : /\ from[i].type = a[i].type
                        /\ Structured(from[i])
                        /\ Held(from[i], q[i + 1])
                        /\ Child(from[i], q[i + 1]) = from[i + 1]
  BY <1>2, <1>4, WithChildIs
<1>6. \A i \in 0 .. n + 1 : b[i] = from[i]
  <2>. DEFINE S == {i \in Nat : i <= n + 1 => b[i] = from[i]}
  <2>1. 0 \in S
    BY <1>2, <1>3
  <2>2. ASSUME NEW i \in S PROVE i + 1 \in S
    <3>. SUFFICES ASSUME i + 1 <= n + 1 PROVE b[i + 1] = from[i + 1]
      OBVIOUS
    <3>1. i \in 0 .. n /\ i + 1 \in 1 .. n + 1 /\ i + 1 - 1 = i /\ b[i] = from[i]
      BY <1>1
    <3>2. b[i + 1] = Child(b[i], q[i + 1])
      BY <3>1, <1>3
    <3>. QED BY <3>1, <3>2, <1>5
  <2>3. S = Nat
    <3>. S \in SUBSET Nat
      OBVIOUS
    <3>. HIDE DEF S
    <3>. QED BY <2>1, <2>2, NaturalsAreAll
  <2>. QED BY <2>3, <1>1
<1>7. b[n + 1] = value
  BY <1>1, <1>2, <1>6
<1>8. \A i \in 0 .. n : Along(r, p)[i] = b[i]
  BY AlongAppend DEF b, q
<1>9. \A i \in 0 .. n : b[i] = from[i]
  BY <1>1, <1>6
<1>. QED BY <1>5, <1>7, <1>8, <1>9 DEF a, b, q

-------------------------------------------------------------------------------
(* Pointers to structures, each in the one before it, and whether each is an array *)

Pointers(path) == [i \in 1 .. Len(path) + 1 |-> SubSeq(path, 1, i - 1)]

Agree(pointers, value, arrays) ==
  /\ arrays \in Seq(BOOLEAN)
  /\ Len(pointers) = Len(arrays)
  /\ pointers # <<>> =>
       /\ IsSeq(Last(pointers))
       /\ pointers = Pointers(Last(pointers))
       /\ Spine(value, Last(pointers))
       /\ \A i \in 0 .. Len(Last(pointers)) :
            (Along(value, Last(pointers))[i].type = "array") = arrays[i + 1]

LEMMA PointersAre ==
  ASSUME NEW p, IsSeq(p)
  PROVE  /\ Len(Pointers(p)) = Len(p) + 1
         /\ IsSeq(Pointers(p))
         /\ Pointers(p) # <<>>
         /\ Last(Pointers(p)) = p
<1>. DEFINE n == Len(p)
            s == Pointers(p)
            T == {SubSeq(p, 1, i - 1) : i \in 1 .. n + 1}
<1>0. n \in Nat
  BY DEF IsSeq
<1>1. s \in [1 .. n + 1 -> T]
  BY DEF Pointers
<1>. HIDE DEF s, T
<1>2. s \in Seq(T)
  BY <1>0, <1>1, SeqDef
<1>3. Len(s) = n + 1
  BY <1>0, <1>1, <1>2
<1>4. s = [i \in 1 .. n + 1 |-> s[i]]
  BY <1>1
<1>5. s[n + 1] = SubSeq(p, 1, n)
  BY <1>0 DEF s, Pointers
<1>6. SubSeq(p, 1, n) = p
  <2>1. n \in 0 .. n
    BY <1>0
  <2>2. SubSeq(p, 1, n) = [i \in 1 .. n |-> p[i]]
    BY <2>1, SubSeqIs
  <2>. QED BY <2>2 DEF IsSeq
<1>7. Last(s) = p
  BY <1>3, <1>5, <1>6 DEF Last
<1>8. s # <<>>
  BY <1>3, <1>0
<1>. QED BY <1>0, <1>3, <1>4, <1>7, <1>8 DEF s, IsSeq

(* One more pointer, to what a step leads to *)
LEMMA PointersAppend ==
  ASSUME NEW p, IsSeq(p), NEW x
  PROVE  Pointers(Append(p, x)) = Append(Pointers(p), Append(p, x))
<1>. DEFINE n == Len(p)
            q == Append(p, x)
<1>0. n \in Nat
  BY DEF IsSeq
<1>1. IsSeq(q) /\ Len(q) = n + 1 /\ \A i \in 1 .. n : q[i] = p[i]
  BY AlongAppend, AppendIs
<1>. HIDE DEF q
<1>2. \A i \in 1 .. n + 1 : SubSeq(q, 1, i - 1) = SubSeq(p, 1, i - 1)
  <2>. SUFFICES ASSUME NEW i \in 1 .. n + 1 PROVE SubSeq(q, 1, i - 1) = SubSeq(p, 1, i - 1)
    OBVIOUS
  <2>1. i - 1 \in 0 .. Len(p) /\ i - 1 \in 0 .. Len(q)
    BY <1>0, <1>1
  <2>2. SubSeq(q, 1, i - 1) = [j \in 1 .. i - 1 |-> q[j]]
    BY <2>1, <1>1, SubSeqIs
  <2>3. SubSeq(p, 1, i - 1) = [j \in 1 .. i - 1 |-> p[j]]
    BY <2>1, SubSeqIs
  <2>4. \A j \in 1 .. i - 1 : q[j] = p[j]
    BY <1>1, <1>0
  <2>. QED BY <2>2, <2>3, <2>4
<1>3. SubSeq(q, 1, n + 1) = q
  <2>1. n + 1 \in 0 .. Len(q)
    BY <1>0, <1>1
  <2>2. SubSeq(q, 1, n + 1) = [i \in 1 .. n + 1 |-> q[i]]
    BY <2>1, <1>1, SubSeqIs
  <2>. QED BY <2>2, <1>1 DEF IsSeq
<1>4. Pointers(q) = [i \in 1 .. n + 2 |-> SubSeq(q, 1, i - 1)]
  <2>1. Len(q) + 1 = n + 2
    BY <1>0, <1>1
  <2>. QED BY <2>1 DEF Pointers
<1>5. \A i \in 1 .. n + 1 : Pointers(p)[i] = SubSeq(p, 1, i - 1)
  BY DEF Pointers
<1>6. Append(Pointers(p), q) = [i \in 1 .. n + 2 |-> IF i = n + 2 THEN q ELSE Pointers(p)[i]]
  <2>1. Len(Pointers(p)) + 1 = n + 2 /\ IsSeq(Pointers(p))
    BY <1>0, PointersAre
  <2>2. Append(Pointers(p), q) =
          [i \in 1 .. Len(Pointers(p)) + 1 |->
             IF i = Len(Pointers(p)) + 1 THEN q ELSE Pointers(p)[i]]
    BY <2>1, AppendIs
  <2>. QED BY <2>1, <2>2
<1>7. \A i \in 1 .. n + 2 : SubSeq(q, 1, i - 1) = IF i = n + 2 THEN q ELSE Pointers(p)[i]
  <2>. SUFFICES ASSUME NEW i \in 1 .. n + 2
                PROVE  SubSeq(q, 1, i - 1) = IF i = n + 2 THEN q ELSE Pointers(p)[i]
    OBVIOUS
  <2>1. CASE i = n + 2
    <3>1. i - 1 = n + 1
      BY <2>1, <1>0
    <3>. QED BY <3>1, <2>1, <1>3
  <2>2. CASE i # n + 2
    <3>1. i \in 1 .. n + 1
      BY <2>2, <1>0
    <3>. QED BY <3>1, <2>2, <1>2, <1>5
  <2>. QED BY <2>1, <2>2
<1>8. Pointers(q) = Append(Pointers(p), q)
  BY <1>4, <1>6, <1>7
<1>. QED BY <1>8 DEF q

(* Without its last, the pointers lead to what the last but one is in. *)
LEMMA PointersFront ==
  ASSUME NEW p, IsSeq(p)
  PROVE  Front(Pointers(p)) = IF p = <<>> THEN <<>> ELSE Pointers(Front(p))
<1>1. CASE p = <<>>
  <2>1. Len(Pointers(p)) = 1 /\ IsSeq(Pointers(p))
    <3>1. Len(p) = 0
      BY <1>1
    <3>2. Len(Pointers(p)) = Len(p) + 1 /\ IsSeq(Pointers(p))
      BY PointersAre
    <3>. QED BY <3>1, <3>2
  <2>2. SubSeq(Pointers(p), 1, 0) = <<>>
    <3>1. SubSeq(Pointers(p), 1, 0) = [i \in 1 .. 0 |-> Pointers(p)[i]]
      BY <2>1, SubSeqIs
    <3>. QED BY <3>1
  <2>3. Front(Pointers(p)) = SubSeq(Pointers(p), 1, 0)
    <3>1. Len(Pointers(p)) - 1 = 0
      BY <2>1
    <3>. QED BY <3>1 DEF Front
  <2>. QED BY <1>1, <2>2, <2>3
<1>2. CASE p # <<>>
  <2>. DEFINE q == Front(p)
              x == p[Len(p)]
  <2>1. IsSeq(q) /\ Len(q) = Len(p) - 1 /\ Len(p) >= 1 /\ Len(p) \in Nat
        /\ \A i \in 1 .. Len(p) - 1 : q[i] = p[i]
    BY <1>2, FrontIs DEF IsSeq
  <2>. HIDE DEF q
  <2>2. Append(q, x) = p
    <3>1. Append(q, x) = [i \in 1 .. Len(p) |-> IF i = Len(p) THEN x ELSE q[i]]
      <4>1. Len(q) + 1 = Len(p)
        BY <2>1
      <4>2. Append(q, x) = [i \in 1 .. Len(q) + 1 |-> IF i = Len(q) + 1 THEN x ELSE q[i]]
        BY <2>1, AppendIs
      <4>. QED BY <4>1, <4>2
    <3>2. \A i \in 1 .. Len(p) : p[i] = IF i = Len(p) THEN x ELSE q[i]
      BY <2>1
    <3>. QED BY <3>1, <3>2 DEF IsSeq
  <2>3. Pointers(p) = Append(Pointers(q), p)
    BY <2>1, <2>2, PointersAppend
  <2>4. Front(Append(Pointers(q), p)) = Pointers(q)
    BY <2>1, PointersAre, AppendIs
  <2>. QED BY <1>2, <2>3, <2>4 DEF q
<1>. QED BY <1>1, <1>2

(* Where something may be stored while these pointers lead to what is being filled *)
Open(pointers, value, path) ==
  IF pointers = <<>> THEN path = <<>>
  ELSE \E x : /\ path = Append(Last(pointers), x)
              /\ HasRoom(Along(value, Last(pointers))[Len(Last(pointers))], x)

(* Nothing that is stored there changes what the pointers lead to. *)
LEMMA StoredKeepsAgree ==
  ASSUME NEW pointers, NEW arrays, Agree(pointers, root, arrays), NEW path,
         Open(pointers, root, path), NEW value, NEW r, r = Stored(path, value)
  PROVE  Agree(pointers, r, arrays)
<1>1. CASE pointers = <<>>
  BY <1>1 DEF Agree
<1>2. CASE pointers # <<>>
  <2>. DEFINE p == Last(pointers)
  <2>1. IsSeq(p) /\ Len(p) \in Nat /\ Spine(root, p)
        /\ \A i \in 0 .. Len(p) : (Along(root, p)[i].type = "array") = arrays[i + 1]
    BY <1>2 DEF Agree, IsSeq
  <2>2. PICK x : path = Append(p, x) /\ HasRoom(Along(root, p)[Len(p)], x)
    BY <1>2 DEF Open
  <2>. HIDE DEF p
  <2>3. \A i \in 0 .. Len(p) :
          /\ Along(r, p)[i].type = Along(root, p)[i].type
          /\ Structured(Along(r, p)[i])
          /\ Held(Along(r, p)[i], path[i + 1])
    BY <2>1, <2>2, StoredStands DEF Pointee
  <2>4. \A i \in 1 .. Len(p) : Held(Along(r, p)[i - 1], p[i])
    <3>. SUFFICES ASSUME NEW i \in 1 .. Len(p) PROVE Held(Along(r, p)[i - 1], p[i])
      OBVIOUS
    <3>1. i - 1 \in 0 .. Len(p) /\ i - 1 + 1 = i
      BY <2>1
    <3>2. path[i] = p[i]
      BY <2>1, <2>2, AlongAppend
    <3>. QED BY <3>1, <3>2, <2>3
  <2>5. Spine(r, p)
    BY <2>3, <2>4 DEF Spine
  <2>6. \A i \in 0 .. Len(p) : (Along(r, p)[i].type = "array") = arrays[i + 1]
    BY <2>1, <2>3
  <2>. QED BY <1>2, <2>5, <2>6 DEF Agree, p
<1>. QED BY <1>1, <1>2

(* A structure that is stored there is the next to be filled. *)
LEMMA StartKeepsAgree ==
  ASSUME NEW pointers, NEW arrays, Agree(pointers, root, arrays), NEW path,
         Open(pointers, root, path), NEW value, Structured(value), NEW r, r = Stored(path, value)
  PROVE  Agree(Append(pointers, path), r, Append(arrays, value.type = "array"))
<1>. DEFINE more == Append(arrays, value.type = "array")
            on == Append(pointers, path)
<1>0. /\ arrays \in Seq(BOOLEAN) /\ more \in Seq(BOOLEAN) /\ Len(more) = Len(arrays) + 1
      /\ more[Len(arrays) + 1] = (value.type = "array")
      /\ \A i \in 1 .. Len(arrays) : more[i] = arrays[i]
      /\ Len(arrays) \in Nat /\ Len(pointers) = Len(arrays)
  <2>1. arrays \in Seq(BOOLEAN) /\ Len(pointers) = Len(arrays)
    BY DEF Agree
  <2>2. (value.type = "array") \in BOOLEAN
    OBVIOUS
  <2>. QED BY <2>1, <2>2
<1>1. CASE pointers = <<>>
  <2>1. path = <<>> /\ on = <<<<>>>> /\ Len(arrays) = 0
    BY <1>0, <1>1 DEF Open
  <2>2. Len(<<>>) = 0 /\ IsSeq(<<>>)
    BY DEF IsSeq
  <2>3. r = value
    <3>1. PICK from : Stored(path, value) = from[0] /\ Built(from, path, value)
      BY <2>1, <2>2, StoredIs
    <3>2. from[0] = value
      BY <3>1, <2>1, <2>2 DEF Built
    <3>. QED BY <3>1, <3>2
  <2>4. Along(r, <<>>)[0] = value
    BY <2>2, <2>3, AlongIs
  <2>5. Spine(r, <<>>)
    BY <2>2, <2>4 DEF Spine
  <2>6. on = Pointers(<<>>)
    <3>1. Pointers(<<>>) = [i \in 1 .. 1 |-> SubSeq(<<>>, 1, i - 1)]
      BY <2>2 DEF Pointers
    <3>2. \A i \in 1 .. 1 : SubSeq(<<>>, 1, i - 1) = <<>>
      <4>1. SubSeq(<<>>, 1, 0) = [i \in 1 .. 0 |-> <<>>[i]]
        BY <2>2, SubSeqIs
      <4>2. SubSeq(<<>>, 1, 0) = <<>>
        BY <4>1
      <4>. QED BY <4>2
    <3>3. Pointers(<<>>) = [i \in 1 .. 1 |-> <<>>]
      BY <3>1, <3>2
    <3>4. Append(<<>>, <<>>) =
            [i \in 1 .. Len(<<>>) + 1 |-> IF i = Len(<<>>) + 1 THEN <<>> ELSE <<>>[i]]
      BY <2>2, AppendIs
    <3>5. Append(<<>>, <<>>) = [i \in 1 .. 1 |-> <<>>]
      BY <3>4, <2>2
    <3>6. on = Append(<<>>, <<>>)
      BY <1>1, <2>1
    <3>. QED BY <3>3, <3>5, <3>6
  <2>7. \A i \in 0 .. 0 : (Along(r, <<>>)[i].type = "array") = more[i + 1]
    BY <1>0, <2>1, <2>4
  <2>8. Len(on) = Len(more) /\ on # <<>> /\ Last(on) = <<>>
    BY <1>0, <2>1 DEF Last
  <2>. HIDE DEF on, more
  <2>9. Agree(on, r, more)
    BY <1>0, <2>2, <2>5, <2>6, <2>7, <2>8 DEF Agree
  <2>. QED BY <2>9 DEF on, more
<1>2. CASE pointers # <<>>
  <2>. DEFINE p == Last(pointers)
              n == Len(p)
  <2>1. /\ IsSeq(p) /\ n \in Nat /\ Spine(root, p) /\ pointers = Pointers(p)
        /\ \A i \in 0 .. n : (Along(root, p)[i].type = "array") = arrays[i + 1]
    BY <1>2 DEF Agree, IsSeq
  <2>2. PICK x : path = Append(p, x) /\ HasRoom(Along(root, p)[Len(p)], x)
    BY <1>2 DEF Open
  <2>. HIDE DEF p
  <2>3. /\ Along(r, path)[n + 1] = value
        /\ \A i \in 0 .. n :
             /\ Along(r, p)[i].type = Along(root, p)[i].type
             /\ Structured(Along(r, p)[i])
             /\ Held(Along(r, p)[i], path[i + 1])
    BY <2>1, <2>2, StoredStands DEF Pointee
  <2>4. Len(path) = n + 1 /\ IsSeq(path) /\ \A i \in 0 .. n : Along(r, path)[i] = Along(r, p)[i]
    BY <2>1, <2>2, AlongAppend, AppendIs
  <2>5. Spine(r, path)
    <3>1. \A i \in 0 .. n + 1 : Structured(Along(r, path)[i])
      <4>1. \A i \in 0 .. n + 1 : i = n + 1 \/ i \in 0 .. n
        BY <2>1
      <4>. QED BY <4>1, <2>3, <2>4
    <3>2. ASSUME NEW i \in 1 .. n + 1 PROVE Held(Along(r, path)[i - 1], path[i])
      <4>1. i - 1 \in 0 .. n /\ i - 1 + 1 = i
        BY <2>1
      <4>. QED BY <4>1, <2>3, <2>4
    <3>. QED BY <3>1, <3>2, <2>4 DEF Spine
  <2>6. Len(arrays) = n + 1
    BY <2>1, <1>0, PointersAre
  <2>7. \A i \in 0 .. n + 1 : (Along(r, path)[i].type = "array") = more[i + 1]
    <3>. SUFFICES ASSUME NEW i \in 0 .. n + 1
                  PROVE  (Along(r, path)[i].type = "array") = more[i + 1]
      OBVIOUS
    <3>1. CASE i = n + 1
      BY <3>1, <2>3, <2>6, <1>0
    <3>2. CASE i # n + 1
      <4>1. i \in 0 .. n /\ i + 1 \in 1 .. Len(arrays)
        BY <3>2, <2>1, <2>6
      <4>2. more[i + 1] = arrays[i + 1]
        BY <4>1, <1>0
      <4>. HIDE DEF more
      <4>. QED BY <4>1, <4>2, <2>1, <2>3, <2>4
    <3>. QED BY <3>1, <3>2
  <2>8. on = Pointers(path)
    BY <2>1, <2>2, PointersAppend
  <2>9. Len(on) = Len(more) /\ on # <<>> /\ Last(on) = path
    <3>1. Len(Pointers(path)) = n + 2 /\ Pointers(path) # <<>> /\ Last(Pointers(path)) = path
      <4>1. n + 1 + 1 = n + 2
        BY <2>1
      <4>. QED BY <4>1, <2>4, PointersAre
    <3>2. Len(more) = n + 2
      BY <1>0, <2>6, <2>1
    <3>. HIDE DEF on, more
    <3>. QED BY <3>1, <3>2, <2>8
  <2>. HIDE DEF on, more
  <2>10. Agree(on, r, more)
    BY <1>0, <2>4, <2>5, <2>7, <2>8, <2>9 DEF Agree
  <2>. QED BY <2>10 DEF on, more
<1>. QED BY <1>1, <1>2

(* The structure that ends was the last of both stacks. *)
LEMMA EndKeepsAgree ==
  ASSUME NEW pointers, NEW arrays, NEW value, Agree(pointers, value, arrays), arrays # <<>>
  PROVE  Agree(Front(pointers), value, Front(arrays))
<1>. DEFINE p == Last(pointers)
            less == Front(arrays)
            on == Front(pointers)
<1>1. arrays \in Seq(BOOLEAN) /\ Len(arrays) \in Nat /\ Len(arrays) # 0
      /\ Len(pointers) = Len(arrays)
  BY DEF Agree
<1>2. pointers # <<>>
  BY <1>1
<1>3. /\ IsSeq(p) /\ Len(p) \in Nat /\ Spine(value, p) /\ pointers = Pointers(p)
      /\ \A i \in 0 .. Len(p) : (Along(value, p)[i].type = "array") = arrays[i + 1]
  BY <1>2 DEF Agree, IsSeq
<1>. HIDE DEF p
<1>4. Len(arrays) = Len(p) + 1
  BY <1>1, <1>3, PointersAre
<1>5. less \in Seq(BOOLEAN) /\ Len(less) = Len(p) /\ \A i \in 1 .. Len(p) : less[i] = arrays[i]
  BY <1>1, <1>3, <1>4 DEF Front
<1>6. CASE p = <<>>
  <2>1. on = <<>> /\ Len(p) = 0
    BY <1>3, <1>6, PointersFront
  <2>. HIDE DEF less, on
  <2>2. Agree(on, value, less)
    BY <1>5, <2>1 DEF Agree
  <2>. QED BY <2>2 DEF less, on
<1>7. CASE p # <<>>
  <2>. DEFINE q == Front(p)
  <2>1. IsSeq(q) /\ Len(q) = Len(p) - 1 /\ Len(p) >= 1 /\ \A i \in 1 .. Len(q) : q[i] = p[i]
    BY <1>3, <1>7, FrontIs
  <2>2. on = Pointers(q)
    BY <1>3, <1>7, PointersFront
  <2>. HIDE DEF q
  <2>3. on # <<>> /\ Last(on) = q /\ Len(on) = Len(p)
    <3>1. Len(q) + 1 = Len(p)
      BY <2>1, <1>3
    <3>. QED BY <3>1, <2>1, <2>2, PointersAre
  <2>4. \A i \in 0 .. Len(q) : Along(value, q)[i] = Along(value, p)[i]
    <3>1. Len(p) \in Nat /\ Len(q) \in 0 .. Len(p) /\ \A i \in 1 .. Len(q) : q[i] = p[i]
      BY <2>1, <1>3
    <3>. QED BY <3>1, AlongTheSame
  <2>5. \A i \in 0 .. Len(q) : i \in 0 .. Len(p) /\ i + 1 \in 1 .. Len(p)
    BY <2>1, <1>3
  <2>6. Spine(value, q)
    <3>1. \A i \in 0 .. Len(q) : Structured(Along(value, q)[i])
      BY <1>3, <2>4, <2>5 DEF Spine
    <3>2. ASSUME NEW i \in 1 .. Len(q) PROVE Held(Along(value, q)[i - 1], q[i])
      <4>1. i - 1 \in 0 .. Len(q) /\ i \in 1 .. Len(p)
        BY <2>1, <1>3
      <4>2. Held(Along(value, p)[i - 1], p[i])
        BY <4>1, <1>3 DEF Spine
      <4>. QED BY <4>1, <4>2, <2>1, <2>4
    <3>. QED BY <3>1, <3>2 DEF Spine
  <2>7. \A i \in 0 .. Len(q) : (Along(value, q)[i].type = "array") = less[i + 1]
    BY <1>3, <1>5, <2>4, <2>5
  <2>. HIDE DEF less, on
  <2>8. Agree(on, value, less)
    BY <1>5, <2>1, <2>2, <2>3, <2>6, <2>7 DEF Agree
  <2>. QED BY <2>8 DEF less, on
<1>. QED BY <1>6, <1>7

-------------------------------------------------------------------------------
(* The invariant *)

(* For each structure the loop is in, the one just opened included: is it an array *)
Opened ==
  IF expecting = "first_element" THEN Append(states, TRUE)
  ELSE IF expecting \in {"first_key", "first_separator"} THEN Append(states, FALSE)
  ELSE states

WithinArray == {"next_element"}
WithinObject == {"next_member", "key", "separator"}
Places == {"value", "first_element", "first_key", "first_separator", "end"}
            \cup WithinArray \cup WithinObject

StacksInv ==
  result = "reading" =>
    /\ expecting \in Places
    /\ states \in Seq(BOOLEAN)
    /\ Agree(ref_stack, root, Opened)
    /\ expecting \in WithinArray => states # <<>> /\ Last(states)
    /\ expecting \in WithinObject => states # <<>> /\ ~Last(states)
    /\ ExpectsMember => \E name \in DOMAIN Pointee(Last(ref_stack)).members :
                          object_element = Append(Last(ref_stack), name)

(* What is being filled is the structure the loop is in. *)
LEMMA TheInnermost ==
  ASSUME Agree(ref_stack, root, Opened), Opened # <<>>
  PROVE  /\ ref_stack # <<>>
         /\ IsSeq(Last(ref_stack))
         /\ Structured(Pointee(Last(ref_stack)))
         /\ Last(Opened) = (Pointee(Last(ref_stack)).type = "array")
<1>. DEFINE p == Last(ref_stack)
<1>1. Opened \in Seq(BOOLEAN) /\ Len(Opened) # 0 /\ Len(ref_stack) = Len(Opened)
  BY DEF Agree
<1>2. ref_stack # <<>>
  BY <1>1
<1>3. /\ IsSeq(p) /\ Len(p) \in Nat /\ Spine(root, p) /\ ref_stack = Pointers(p)
      /\ \A i \in 0 .. Len(p) : (Along(root, p)[i].type = "array") = Opened[i + 1]
  BY <1>2 DEF Agree, IsSeq
<1>. HIDE DEF p
<1>4. Len(Opened) = Len(p) + 1
  BY <1>1, <1>3, PointersAre
<1>5. Len(p) \in 0 .. Len(p)
  BY <1>3
<1>6. Last(Opened) = (Along(root, p)[Len(p)].type = "array")
  BY <1>3, <1>4, <1>5 DEF Last
<1>7. Structured(Along(root, p)[Len(p)])
  BY <1>3, <1>5 DEF Spine
<1>. QED BY <1>2, <1>3, <1>6, <1>7 DEF p, Pointee

(* handle_value puts the next value where there is room for it. *)
LEMMA TargetIsOpen ==
  ASSUME StacksInv, result = "reading", expecting \in {"value", "first_element"}
  PROVE  Open(ref_stack, root, Target)
<1>. DEFINE p == Last(ref_stack)
<1>0. states \in Seq(BOOLEAN) /\ Agree(ref_stack, root, Opened)
  BY DEF StacksInv
<1>1. CASE ref_stack = <<>>
  BY <1>1 DEF Open, Target
<1>2. CASE ref_stack # <<>> /\ Pointee(p).type = "array"
  <2>1. Target = Append(p, Len(Pointee(p).elements) + 1)
    BY <1>2 DEF Target
  <2>2. HasRoom(Pointee(p), Len(Pointee(p).elements) + 1)
    BY DEF HasRoom
  <2>. QED BY <1>2, <2>1, <2>2 DEF Open, Pointee
<1>3. CASE ref_stack # <<>> /\ Pointee(p).type # "array"
  <2>1. Opened # <<>>
    <3>1. IsSeq(p) /\ ref_stack = Pointers(p) /\ Len(ref_stack) = Len(Opened)
      BY <1>0, <1>3 DEF Agree
    <3>. HIDE DEF p
    <3>2. Len(Opened) = Len(p) + 1 /\ Len(p) \in Nat
      BY <3>1, PointersAre DEF IsSeq
    <3>3. Len(Opened) # 0
      BY <3>2, SMT
    <3>. QED BY <3>3, NotEmpty
  <2>2. ~Last(Opened)
    BY <1>0, <1>3, <2>1, TheInnermost
  <2>3. expecting = "value"
    <3>1. Last(Append(states, TRUE)) = TRUE
      BY <1>0, LastOfBooleans
    <3>. QED BY <2>2, <3>1 DEF Opened
  <2>4. Opened = states
    BY <2>3 DEF Opened
  <2>5. ExpectsMember
    BY <2>1, <2>2, <2>3, <2>4 DEF ExpectsMember
  <2>6. PICK name : object_element = Append(p, name)
    BY <2>5 DEF StacksInv
  <2>7. Target = Append(p, name)
    BY <1>3, <2>6 DEF Target
  <2>8. HasRoom(Pointee(p), name)
    BY <1>3 DEF HasRoom
  <2>. QED BY <1>3, <2>7, <2>8 DEF Open, Pointee
<1>. QED BY <1>1, <1>2, <1>3

(* When a value is complete the loop goes on in what it is part of. *)
LEMMA EvaluateKeepsStacksInv ==
  ASSUME NEW stack, Agree(ref_stack', root', stack), Evaluate(stack)
  PROVE  StacksInv'
<1>1. states' = stack /\ stack \in Seq(BOOLEAN)
  BY DEF Evaluate, Goto, Agree
<1>2. CASE stack = <<>>
  <2>1. expecting' = "end"
    BY <1>2 DEF Evaluate, Goto
  <2>2. Opened' = states' /\ ~ExpectsMember'
    BY <2>1 DEF Opened, ExpectsMember
  <2>. QED BY <1>1, <2>1, <2>2 DEF StacksInv, Places, WithinArray, WithinObject
<1>3. CASE stack # <<>> /\ Last(stack)
  <2>1. expecting' = "next_element"
    BY <1>3 DEF Evaluate, Goto
  <2>2. Opened' = states' /\ ~ExpectsMember'
    BY <2>1 DEF Opened, ExpectsMember
  <2>. QED BY <1>1, <1>3, <2>1, <2>2 DEF StacksInv, Places, WithinArray, WithinObject
<1>4. CASE stack # <<>> /\ ~Last(stack)
  <2>1. expecting' = "next_member"
    BY <1>4 DEF Evaluate, Goto
  <2>2. Opened' = states' /\ ~ExpectsMember'
    BY <2>1 DEF Opened, ExpectsMember
  <2>. QED BY <1>1, <1>4, <2>1, <2>2 DEF StacksInv, Places, WithinArray, WithinObject
<1>. QED BY <1>2, <1>3, <1>4

LEMMA ValueKeepsStacksInv ==
  ASSUME StacksInv, result = "reading", expecting \in {"value", "first_element"},
         NEW token, Value(token, Opened)
  PROVE  StacksInv'
<1>0. Agree(ref_stack, root, Opened) /\ Open(ref_stack, root, Target) /\ Opened \in Seq(BOOLEAN)
  BY TargetIsOpen DEF StacksInv, Agree
<1>1. ASSUME NEW structure, NEW place, start(structure), Goto(place, Opened),
             \/ structure.type = "object" /\ place = "first_key"
             \/ structure.type = "array" /\ structure.elements = <<>> /\ place = "first_element"
      PROVE  StacksInv'
  <2>1. root' = Stored(Target, structure) /\ ref_stack' = Append(ref_stack, Target)
    BY <1>1 DEF start
  <2>2. Structured(structure)
    BY <1>1, EmptyIsSeq DEF Structured
  <2>3. Agree(ref_stack', root', Append(Opened, structure.type = "array"))
    BY <1>0, <2>1, <2>2, StartKeepsAgree
  <2>4. expecting' = place /\ states' = Opened
    BY <1>1 DEF Goto
  <2>5. Opened' = Append(Opened, structure.type = "array") /\ ~ExpectsMember'
    BY <1>1, <2>4 DEF Opened, ExpectsMember
  <2>. QED BY <1>0, <1>1, <2>3, <2>4, <2>5 DEF StacksInv, Places, WithinArray, WithinObject
<1>2. ASSUME token = "begin_object", start(Object(<<>>)), Goto("first_key", Opened)
      PROVE  StacksInv'
  <2>1. Object(<<>>).type = "object"
    BY DEF Object
  <2>. QED BY <1>1, <1>2, <2>1
<1>3. ASSUME token = "begin_array", start(Array(<<>>)), Goto("first_element", Opened)
      PROVE  StacksInv'
  <2>1. Array(<<>>).type = "array" /\ Array(<<>>).elements = <<>>
    BY DEF Array
  <2>. QED BY <1>1, <1>3, <2>1
<1>4. ASSUME handle_value(Scalar(token)), Evaluate(Opened)
      PROVE  StacksInv'
  <2>1. root' = Stored(Target, Scalar(token)) /\ ref_stack' = ref_stack
    BY <1>4 DEF handle_value
  <2>2. Agree(ref_stack', root', Opened)
    BY <1>0, <2>1, StoredKeepsAgree
  <2>. QED BY <1>4, <2>2, EvaluateKeepsStacksInv
<1>5. ASSUME Refuse PROVE StacksInv'
  BY <1>5 DEF Refuse, StacksInv
<1>. QED BY <1>2, <1>3, <1>4, <1>5 DEF Value

(* Nothing but the place in the text of the structure changes. *)
LEMMA ReadOnKeepsStacksInv ==
  ASSUME StacksInv, result = "reading", UNCHANGED <<ref_stack, root, object_element, result>>,
         Opened' = Opened, states' \in Seq(BOOLEAN), expecting' \in Places,
         expecting' \in WithinArray => states' # <<>> /\ Last(states'),
         expecting' \in WithinObject => states' # <<>> /\ ~Last(states'),
         ExpectsMember' => ExpectsMember
  PROVE  StacksInv'
BY DEF StacksInv, Pointee

LEMMA EndKeepsStacksInv ==
  ASSUME StacksInv, result = "reading", Opened # <<>>, end, Evaluate(Front(Opened))
  PROVE  StacksInv'
<1>1. Agree(ref_stack', root', Front(Opened))
  <2>1. Agree(ref_stack, root, Opened) /\ ref_stack' = Front(ref_stack) /\ root' = root
    BY DEF StacksInv, end
  <2>. QED BY <2>1, EndKeepsAgree
<1>. QED BY <1>1, EvaluateKeepsStacksInv

LEMMA FrontOfBooleans ==
  ASSUME NEW s \in Seq(BOOLEAN), NEW b \in BOOLEAN
  PROVE  Front(Append(s, b)) = s
<1>1. Len(s) \in Nat /\ s = [i \in 1 .. Len(s) |-> s[i]]
  OBVIOUS
<1>. QED BY <1>1, AppendIs DEF IsSeq

(* A key names a member of the object the loop is in, which holds it from then on. *)
LEMMA KeyKeepsStacksInv ==
  ASSUME StacksInv, result = "reading", NEW name, key(name), Opened # <<>>, ~Last(Opened),
         states' \in Seq(BOOLEAN), Opened' = Opened, UNCHANGED result,
         expecting' \in Places, expecting' \notin WithinArray,
         expecting' \in WithinObject => states' # <<>> /\ ~Last(states')
  PROVE  StacksInv'
<1>. DEFINE p == Last(ref_stack)
<1>1. /\ ref_stack # <<>> /\ IsSeq(p) /\ Structured(Pointee(p)) /\ Pointee(p).type # "array"
      /\ Agree(ref_stack, root, Opened)
  BY TheInnermost DEF StacksInv
<1>2. /\ object_element' = Append(p, name) /\ ref_stack' = ref_stack
      /\ root' = IF name \in DOMAIN Pointee(p).members THEN root ELSE Stored(Append(p, name), Null)
  BY DEF key
<1>3. Spine(root, p) /\ HasRoom(Pointee(p), name) /\ Len(p) \in Nat
  BY <1>1 DEF Agree, HasRoom, IsSeq
<1>4. Agree(ref_stack, root', Opened) /\ name \in DOMAIN Along(root', p)[Len(p)].members
  <2>1. CASE name \in DOMAIN Pointee(p).members
    BY <2>1, <1>1, <1>2 DEF Pointee
  <2>2. CASE name \notin DOMAIN Pointee(p).members
    <3>1. root' = Stored(Append(p, name), Null)
      BY <2>2, <1>2
    <3>2. Open(ref_stack, root, Append(p, name))
      BY <1>1, <1>3 DEF Open, Pointee
    <3>3. Agree(ref_stack, root', Opened)
      BY <1>1, <3>1, <3>2, StoredKeepsAgree
    <3>. HIDE DEF p
    <3>4. \A i \in 0 .. Len(p) :
            /\ Along(root', p)[i].type = Along(root, p)[i].type
            /\ Held(Along(root', p)[i], Append(p, name)[i + 1])
      BY <1>1, <1>3, <3>1, StoredStands
    <3>5. Len(p) \in 0 .. Len(p) /\ Append(p, name)[Len(p) + 1] = name
      BY <1>1, <1>3, AlongAppend
    <3>6. Along(root', p)[Len(p)].type # "array" /\ Held(Along(root', p)[Len(p)], name)
      BY <3>4, <3>5, <1>1 DEF Pointee
    <3>. QED BY <3>3, <3>6 DEF Held
  <2>. QED BY <2>1, <2>2
<1>5. name \in DOMAIN Pointee(p)'.members /\ p' = p
  BY <1>2, <1>4 DEF Pointee
<1>. HIDE DEF p
<1>6. \E n \in DOMAIN Pointee(p)'.members : object_element' = Append(p', n)
  BY <1>2, <1>5
<1>. QED BY <1>2, <1>4, <1>6 DEF StacksInv, p

(* Whatever the file, in every state that is still reading: what the pointers lead to
   stands, and is of the kind the loop takes it to be (sax_parse_internal with
   json_sax_dom_parser). *)
THEOREM StacksInvariant == Spec => []StacksInv
<1>1. Init => StacksInv
  <2>. SUFFICES ASSUME Init PROVE StacksInv
    OBVIOUS
  <2>1. expecting = "value" /\ states = <<>> /\ ref_stack = <<>>
    BY DEF Init
  <2>2. Opened = <<>> /\ ~ExpectsMember
    BY <2>1 DEF Opened, ExpectsMember
  <2>3. Agree(ref_stack, root, Opened)
    BY <2>1, <2>2 DEF Agree
  <2>. QED BY <2>1, <2>2, <2>3 DEF StacksInv, Places, WithinArray, WithinObject
<1>2. StacksInv /\ [Next]_vars => StacksInv'
  <2>. SUFFICES ASSUME StacksInv, [Next]_vars PROVE StacksInv'
    OBVIOUS
  <2>1. ASSUME UNCHANGED parserVars PROVE StacksInv'
    BY <2>1 DEF parserVars, dom, StacksInv, Opened, ExpectsMember, Pointee
  <2>2. ASSUME result = "reading", NEW token, sax_parse_internal(token) PROVE StacksInv'
    <3>0. /\ expecting \in Places /\ states \in Seq(BOOLEAN) /\ Opened \in Seq(BOOLEAN)
          /\ expecting \in WithinArray => states # <<>> /\ Last(states)
          /\ expecting \in WithinObject => states # <<>> /\ ~Last(states)
      BY <2>2 DEF StacksInv, Agree
    <3>1. ASSUME Refuse PROVE StacksInv'
      BY <3>1 DEF Refuse, StacksInv
    <3>2. CASE expecting = "value"
      <4>1. Value(token, Opened)
        BY <2>2, <3>2 DEF sax_parse_internal, Opened
      <4>. QED BY <2>2, <3>2, <4>1, ValueKeepsStacksInv
    <3>3. CASE expecting = "first_element"
      <4>1. Opened = Append(states, TRUE)
        BY <3>3 DEF Opened
      <4>2. Opened # <<>> /\ Front(Opened) = states
        BY <3>0, <4>1, LastOfBooleans, FrontOfBooleans
      <4>3. CASE token = "end_array"
        <5>1. end /\ Evaluate(Front(Opened))
          BY <2>2, <3>3, <4>2, <4>3 DEF sax_parse_internal
        <5>. QED BY <2>2, <4>2, <5>1, EndKeepsStacksInv
      <4>4. CASE token # "end_array"
        <5>1. Value(token, Opened)
          BY <2>2, <3>3, <4>1, <4>4 DEF sax_parse_internal
        <5>. QED BY <2>2, <3>3, <5>1, ValueKeepsStacksInv
      <4>. QED BY <4>3, <4>4
    <3>4. CASE expecting = "next_element"
      <4>1. Opened = states /\ states # <<>> /\ Last(states)
        BY <3>0, <3>4 DEF Opened, WithinArray
      <4>2. NextElement(token)
        BY <2>2, <3>4 DEF sax_parse_internal
      <4>3. CASE token = "value_separator"
        <5>1. expecting' = "value" /\ states' = states /\ result' = result /\ UNCHANGED dom
          BY <4>2, <4>3 DEF NextElement, Goto
        <5>2. Opened' = Opened /\ ~ExpectsMember'
          BY <4>1, <5>1 DEF Opened, ExpectsMember
        <5>. QED BY <2>2, <3>0, <5>1, <5>2, ReadOnKeepsStacksInv
             DEF dom, Places, WithinArray, WithinObject
      <4>4. CASE token = "end_array"
        <5>1. end /\ Evaluate(Front(Opened))
          BY <4>1, <4>2, <4>4 DEF NextElement
        <5>. QED BY <2>2, <4>1, <5>1, EndKeepsStacksInv
      <4>5. CASE token \notin {"value_separator", "end_array"}
        BY <3>1, <4>2, <4>5 DEF NextElement
      <4>. QED BY <4>3, <4>4, <4>5
    <3>5. CASE expecting = "next_member"
      <4>1. Opened = states /\ states # <<>> /\ ~Last(states)
        BY <3>0, <3>5 DEF Opened, WithinObject
      <4>2. NextMember(token)
        BY <2>2, <3>5 DEF sax_parse_internal
      <4>3. CASE token = "value_separator"
        <5>1. expecting' = "key" /\ states' = states /\ result' = result /\ UNCHANGED dom
          BY <4>2, <4>3 DEF NextMember, Goto
        <5>2. Opened' = Opened /\ ~ExpectsMember'
          BY <4>1, <5>1 DEF Opened, ExpectsMember
        <5>. QED BY <2>2, <3>0, <4>1, <5>1, <5>2, ReadOnKeepsStacksInv
             DEF dom, Places, WithinArray, WithinObject
      <4>4. CASE token = "end_object"
        <5>1. end /\ Evaluate(Front(Opened))
          BY <4>1, <4>2, <4>4 DEF NextMember
        <5>. QED BY <2>2, <4>1, <5>1, EndKeepsStacksInv
      <4>5. CASE token \notin {"value_separator", "end_object"}
        BY <3>1, <4>2, <4>5 DEF NextMember
      <4>. QED BY <4>3, <4>4, <4>5
    <3>6. CASE expecting = "first_key"
      <4>1. Opened = Append(states, FALSE)
        BY <3>6 DEF Opened
      <4>2. Opened # <<>> /\ ~Last(Opened) /\ Front(Opened) = states
        BY <3>0, <4>1, LastOfBooleans, FrontOfBooleans
      <4>3. CASE token = "end_object"
        <5>1. end /\ Evaluate(Front(Opened))
          BY <2>2, <3>6, <4>2, <4>3 DEF sax_parse_internal
        <5>. QED BY <2>2, <4>2, <5>1, EndKeepsStacksInv
      <4>4. CASE token # "end_object"
        <5>1. Key(token, "first_separator")
          BY <2>2, <3>6, <4>4 DEF sax_parse_internal
        <5>2. CASE token = "value_string"
          <6>1. /\ key(token_buffer') /\ expecting' = "first_separator" /\ states' = states
                /\ result' = result
            BY <5>1, <5>2 DEF Key, Goto
          <6>2. Opened' = Opened
            BY <4>1, <6>1 DEF Opened
          <6>. QED BY <2>2, <3>0, <4>2, <6>1, <6>2, KeyKeepsStacksInv
               DEF Places, WithinArray, WithinObject
        <5>. QED BY <3>1, <5>1, <5>2 DEF Key
      <4>. QED BY <4>3, <4>4
    <3>7. CASE expecting = "key"
      <4>1. Opened = states /\ states # <<>> /\ ~Last(states)
        BY <3>0, <3>7 DEF Opened, WithinObject
      <4>2. Key(token, "separator")
        BY <2>2, <3>7 DEF sax_parse_internal
      <4>3. CASE token = "value_string"
        <5>1. /\ key(token_buffer') /\ expecting' = "separator" /\ states' = states
              /\ result' = result
          BY <4>2, <4>3 DEF Key, Goto
        <5>2. Opened' = Opened
          BY <4>1, <5>1 DEF Opened
        <5>. QED BY <2>2, <3>0, <4>1, <5>1, <5>2, KeyKeepsStacksInv
             DEF Places, WithinArray, WithinObject
      <4>. QED BY <3>1, <4>2, <4>3 DEF Key
    <3>8. CASE expecting \in {"first_separator", "separator"}
      <4>1. /\ Opened = IF expecting = "separator" THEN states ELSE Append(states, FALSE)
            /\ Separator(token, Opened) /\ ExpectsMember
        BY <2>2, <3>8 DEF sax_parse_internal, Opened, ExpectsMember
      <4>2. CASE token = "name_separator"
        <5>1. expecting' = "value" /\ states' = Opened /\ result' = result /\ UNCHANGED dom
          BY <4>1, <4>2 DEF Separator, Goto
        <5>2. Opened' = Opened
          BY <5>1 DEF Opened
        <5>. QED BY <2>2, <3>0, <4>1, <5>1, <5>2, ReadOnKeepsStacksInv
             DEF dom, Places, WithinArray, WithinObject
      <4>. QED BY <3>1, <4>1, <4>2 DEF Separator
    <3>9. CASE expecting = "end"
      <4>1. Strict(token)
        BY <2>2, <3>9 DEF sax_parse_internal
      <4>2. CASE token = "end_of_input"
        BY <4>1, <4>2 DEF Strict, StacksInv
      <4>. QED BY <3>1, <4>1, <4>2 DEF Strict
    <3>. QED BY <3>0, <3>2, <3>3, <3>4, <3>5, <3>6, <3>7, <3>8, <3>9
         DEF Places, WithinArray, WithinObject
  <2>3. ASSUME NEW c, Read(c) PROVE StacksInv'
    <3>1. result = "reading" /\ (UNCHANGED parserVars \/ sax_parse_internal(last_token'))
      BY <2>3 DEF Read
    <3>. QED BY <2>1, <2>2, <3>1
  <2>4. CASE UNCHANGED vars
    BY <2>1, <2>4 DEF vars
  <2>. QED BY <2>3, <2>4 DEF Next
<1>. QED BY <1>1, <1>2, PTL DEF Spec

(* The parser's two stacks go together, in files of any length: the pointers lead from
   the root inwards, an element that is being filled is the last of its array, and what
   comes next in an object is a member of it (handle_value, key, start and end). *)
THEOREM TheStacksAgree == Spec => []StacksAgree
<1>1. StacksInv => StacksAgree
  <2>. SUFFICES ASSUME StacksInv, result = "reading"
                PROVE  /\ Len(ref_stack) = Len(states) + (IF JustOpened THEN 1 ELSE 0)
                       /\ \A i \in DOMAIN states : IsArray(ref_stack[i]) = states[i]
                       /\ \A i \in DOMAIN ref_stack \ {1} :
                            /\ Front(ref_stack[i]) = ref_stack[i - 1]
                            /\ IsArray(ref_stack[i - 1]) =>
                                 Last(ref_stack[i]) = Len(Pointee(ref_stack[i - 1]).elements)
                       /\ ExpectsMember =>
                            /\ Front(object_element) = Last(ref_stack)
                            /\ Last(object_element) \in DOMAIN Pointee(Last(ref_stack)).members
    BY DEF StacksAgree
  <2>. DEFINE p == Last(ref_stack)
              n == Len(p)
  <2>0. /\ states \in Seq(BOOLEAN) /\ Opened \in Seq(BOOLEAN) /\ Agree(ref_stack, root, Opened)
        /\ Len(ref_stack) = Len(Opened)
    BY DEF StacksInv, Agree
  <2>1. Len(ref_stack) = Len(states) + (IF JustOpened THEN 1 ELSE 0)
    BY <2>0 DEF JustOpened, Opened
  <2>2. \A i \in DOMAIN states : Opened[i] = states[i] /\ i \in 1 .. Len(Opened)
    <3>1. \A b \in BOOLEAN : \A i \in DOMAIN states :
            Append(states, b)[i] = states[i] /\ i \in 1 .. Len(Append(states, b))
      BY <2>0, LastOfBooleans
    <3>2. \A i \in DOMAIN states : i \in 1 .. Len(states)
      BY <2>0
    <3>. QED BY <3>1, <3>2 DEF Opened
  <2>3. CASE ref_stack = <<>>
    <3>1. Len(states) = 0 /\ DOMAIN states = {}
      BY <2>0, <2>1, <2>3
    <3>2. ~ExpectsMember
      <4>1. Opened = <<>>
        BY <2>0, <2>3
      <4>2. Append(states, FALSE) # <<>>
        BY <2>0, LastOfBooleans
      <4>3. expecting # "first_separator" /\ states = <<>>
        <5>1. states = <<>>
          BY <3>1, <2>0
        <5>. QED BY <4>1, <4>2, <5>1 DEF Opened
      <4>4. expecting # "separator"
        BY <4>3 DEF StacksInv, WithinObject
      <4>. QED BY <4>3, <4>4 DEF ExpectsMember
    <3>. QED BY <2>1, <2>3, <3>1, <3>2
  <2>4. CASE ref_stack # <<>>
    <3>1. /\ IsSeq(p) /\ n \in Nat /\ Spine(root, p) /\ ref_stack = Pointers(p)
          /\ \A i \in 0 .. n : (Along(root, p)[i].type = "array") = Opened[i + 1]
      BY <2>0, <2>4 DEF Agree, IsSeq
    <3>. HIDE DEF p
    <3>2. Len(Opened) = n + 1
      BY <2>0, <3>1, PointersAre
    <3>3. ASSUME NEW i \in 1 .. n + 1
          PROVE  /\ ref_stack[i] = SubSeq(p, 1, i - 1)
                 /\ IsSeq(ref_stack[i]) /\ Len(ref_stack[i]) = i - 1
                 /\ \A j \in 1 .. i - 1 : ref_stack[i][j] = p[j]
                 /\ Pointee(ref_stack[i]) = Along(root, p)[i - 1]
      <4>1. ref_stack[i] = SubSeq(p, 1, i - 1)
        BY <3>1 DEF Pointers
      <4>2. i - 1 \in 0 .. n /\ i - 1 \in Nat
        BY <3>1
      <4>3. SubSeq(p, 1, i - 1) = [j \in 1 .. i - 1 |-> p[j]] /\ Len(SubSeq(p, 1, i - 1)) = i - 1
            /\ IsSeq(SubSeq(p, 1, i - 1))
        BY <3>1, <4>2, SubSeqIs
      <4>. DEFINE q == ref_stack[i]
      <4>4. IsSeq(q) /\ Len(q) = i - 1 /\ \A j \in 1 .. i - 1 : q[j] = p[j]
        BY <4>1, <4>3
      <4>. HIDE DEF q
      <4>5. Len(p) \in Nat /\ Len(q) \in 0 .. Len(p) /\ \A j \in 1 .. Len(q) : q[j] = p[j]
        BY <3>1, <4>2, <4>4
      <4>6. \A j \in 0 .. Len(q) : Along(root, q)[j] = Along(root, p)[j]
        BY <4>5, AlongTheSame
      <4>7. Along(root, q)[Len(q)] = Along(root, p)[i - 1]
        BY <4>2, <4>4, <4>6
      <4>. QED BY <4>1, <4>4, <4>7 DEF q, Pointee
    <3>4. \A i \in DOMAIN states : IsArray(ref_stack[i]) = states[i]
      <4>. SUFFICES ASSUME NEW i \in DOMAIN states PROVE IsArray(ref_stack[i]) = states[i]
        OBVIOUS
      <4>1. i \in 1 .. n + 1 /\ i - 1 \in 0 .. n /\ i - 1 + 1 = i
        BY <2>2, <3>1, <3>2
      <4>2. Opened[i] = states[i]
        BY <2>2
      <4>. QED BY <3>1, <3>3, <4>1, <4>2 DEF IsArray
    <3>5. ASSUME NEW i \in DOMAIN ref_stack \ {1}
          PROVE  /\ Front(ref_stack[i]) = ref_stack[i - 1]
                 /\ IsArray(ref_stack[i - 1]) =>
                      Last(ref_stack[i]) = Len(Pointee(ref_stack[i - 1]).elements)
      <4>1. i \in 2 .. n + 1 /\ i \in 1 .. n + 1 /\ i - 1 \in 1 .. n + 1 /\ i - 1 \in 1 .. n
            /\ i - 1 - 1 \in 0 .. n /\ i - 1 # 0
        BY <3>1 DEF Pointers
      <4>2. IsSeq(ref_stack[i]) /\ Len(ref_stack[i]) = i - 1 /\ ref_stack[i] # <<>>
            /\ \A j \in 1 .. i - 1 : ref_stack[i][j] = p[j]
        BY <3>3, <4>1, NotEmpty
      <4>3. /\ IsSeq(ref_stack[i - 1]) /\ Len(ref_stack[i - 1]) = i - 1 - 1
            /\ \A j \in 1 .. i - 1 - 1 : ref_stack[i - 1][j] = p[j]
            /\ Pointee(ref_stack[i - 1]) = Along(root, p)[i - 1 - 1]
        BY <3>3, <4>1
      <4>4. Front(ref_stack[i]) = ref_stack[i - 1]
        <5>. DEFINE s == ref_stack[i]
                    t == ref_stack[i - 1]
        <5>1. Front(s) = [j \in 1 .. Len(s) - 1 |-> s[j]]
          BY <4>2, FrontIs
        <5>2. t = [j \in 1 .. Len(t) |-> t[j]]
          BY <4>3 DEF IsSeq
        <5>. HIDE DEF s, t
        <5>3. Len(s) - 1 = Len(t) /\ \A j \in 1 .. Len(t) : s[j] = t[j]
          <6>1. /\ Len(s) = i - 1 /\ \A j \in 1 .. i - 1 : s[j] = p[j]
                /\ Len(t) = i - 1 - 1 /\ \A j \in 1 .. i - 1 - 1 : t[j] = p[j]
            BY <4>2, <4>3 DEF s, t
          <6>2. i \in Nat /\ \A j \in 1 .. i - 1 - 1 : j \in 1 .. i - 1
            BY <4>1
          <6>. QED BY <6>1, <6>2
        <5>4. Front(s) = t
          BY <5>1, <5>2, <5>3
        <5>. QED BY <5>4 DEF s, t
      <4>5. Last(ref_stack[i]) = p[i - 1]
        BY <4>1, <4>2 DEF Last
      <4>6. Held(Along(root, p)[i - 1 - 1], p[i - 1])
        BY <3>1, <4>1 DEF Spine
      <4>7. Held(Pointee(ref_stack[i - 1]), Last(ref_stack[i]))
        <5>1. Pointee(ref_stack[i - 1]) = Along(root, p)[i - 1 - 1]
          BY <4>3
        <5>. QED BY <5>1, <4>5, <4>6 DEF Held
      <4>8. IsArray(ref_stack[i - 1]) =>
              Last(ref_stack[i]) = Len(Pointee(ref_stack[i - 1]).elements)
        BY <4>7 DEF IsArray, Held
      <4>. QED BY <4>4, <4>8
    <3>6. ASSUME ExpectsMember
          PROVE  /\ Front(object_element) = p
                 /\ Last(object_element) \in DOMAIN Pointee(p).members
      <4>1. PICK name \in DOMAIN Pointee(p).members : object_element = Append(p, name)
        BY <3>6 DEF StacksInv, p
      <4>. QED BY <3>1, <4>1, AppendIs
    <3>. QED BY <2>1, <3>4, <3>5, <3>6 DEF p
  <2>. QED BY <2>3, <2>4
<1>. QED BY <1>1, StacksInvariant, PTL
================================================================================
