------------------------------- MODULE JsonGrammar -----------------------------
(***************************************************************************)
(* What json::parse should take and give: the grammar of RFC 8259, as the  *)
(* sets of all texts of one length and their values, and what follows from *)
(* it for the parser.                                                      *)
(***************************************************************************)
EXTENDS JsonParser

Means(t, v) == [text |-> t, value |-> v]

(* All of S followed by all of T, where each value is made of the two by op *)
Followed(S, separator, T, op(_, _)) ==
  {Means(s.text \o separator \o t.text, op(s.value, t.value)) : s \in S, t \in T}

-----------------------------------------------------------------------------
(* Strings: what one character may look like and what its bytes are *)

Lead == <<0, 192, 224, 240, 248>>            \* the least first byte, by length
Least == <<0, 128, 2048, 65536>>

Decoded(bytes) ==
  FoldLeft(LAMBDA n, b : 64 * n + b - 128, bytes[1] - Lead[Len(bytes)], Tail(bytes))

IsCharacter(bytes) ==
  Decoded(bytes) \in Least[Len(bytes)] .. 1114111 /\ Decoded(bytes) \notin 55296 .. 57343

Raw(a, n) ==
  LET leads == IF n = 1 THEN 32 .. 127 ELSE Lead[n] .. Lead[n + 1] - 1
      spelt == {<<c>> \o t : c \in (a \cap leads) \ {34, 92}, t \in [1 .. n - 1 -> a \cap (128 .. 191)]}
  IN  {Means(b, b) : b \in {b \in spelt : IsCharacter(b)}}

UnitsOf(a) == {c - Unit(0) : c \in {c \in a : IsUnit(c)}}

Written(a, n) ==
  CASE n = 2 -> {Means(<<92, c>>, <<Escapes[c]>>) : c \in a \cap DOMAIN Escapes}
    [] n = 3 -> {Means(<<92, 117, Unit(u)>>, Utf8(u)) : u \in UnitsOf(a) \ (55296 .. 57343)}
    [] n = 6 -> {Means(<<92, 117, Unit(h), 92, 117, Unit(l)>>,
                       Utf8(65536 + (h - 55296) * 1024 + (l - 56320))) :
                   h \in UnitsOf(a) \cap (55296 .. 56319), l \in UnitsOf(a) \cap (56320 .. 57343)}
    [] OTHER -> {}

Characters(a, n) ==
  (IF n <= 4 THEN Raw(a, n) ELSE {}) \cup (IF {92, 117} \subseteq a THEN Written(a, n) ELSE {})

-----------------------------------------------------------------------------
(* Numbers *)

DigitsOf(a, n) == [1 .. n -> a \cap Digits]

Ints(a, n) == IF n = 0 THEN {} ELSE {s \in DigitsOf(a, n) : s[1] = Ascii.zero => n = 1}

Fractions(a, n) ==
  IF n = 0 THEN {<<>>}
  ELSE IF n = 1 \/ Ascii.point \notin a THEN {} ELSE {<<Ascii.point>> \o s : s \in DigitsOf(a, n - 1)}

Exponents(a, n) ==
  LET es == a \cap {Ascii.e, Ascii.E}
      signs == a \cap {Ascii.plus, Ascii.minus}
  IN  IF n = 0 THEN {<<>>}
      ELSE {<<e>> \o s : e \in es, s \in IF n = 1 THEN {} ELSE DigitsOf(a, n - 1)}
             \cup {<<e, sign>> \o s : e \in es, sign \in signs, s \in IF n < 3 THEN {} ELSE DigitsOf(a, n - 2)}

Unsigned(a, n) ==
  UNION {{i \o f \o e : i \in Ints(a, p[1]), f \in Fractions(a, p[2]),
                         e \in Exponents(a, n - p[1] - p[2])} :
         p \in {p \in (1 .. n) \X (0 .. n) : p[1] + p[2] <= n}}

Signed(a, n) ==
  Unsigned(a, n) \cup {<<Ascii.minus>> \o s : s \in IF Ascii.minus \in a THEN Unsigned(a, n - 1) ELSE {}}

NumberType(s) ==
  IF ToSet(s) \cap {Ascii.point, Ascii.e, Ascii.E} # {} THEN "value_float"
  ELSE Converted(IF s[1] = Ascii.minus THEN "value_integer" ELSE "value_unsigned", s)

Numbers(a, n) ==
  {Means(s, Number(NumberType(s), s)) :
     s \in {s \in Signed(a, n) : NumberType(s) = "value_float" => IsFinite(s)}}

-----------------------------------------------------------------------------
(* Texts of n characters over the alphabet a, given those of fewer in g *)

Constants(a, n) ==
  {Means(Literals[type], IF type = "literal_null" THEN Null ELSE Boolean(type = "literal_true")) :
     type \in {type \in DOMAIN Literals : Len(Literals[type]) = n /\ ToSet(Literals[type]) \subseteq a}}

Strings(a, g, n) ==
  IF Ascii.quote \notin a \/ n + 2 > MaxLength[a] THEN {} ELSE IF n = 0 THEN {Means(<<>>, <<>>)}
  ELSE UNION {Followed(g[n - k].strings, <<>>, Characters(a, k), LAMBDA s, c : s \o c) : k \in 1 .. n}

Names(a, g, n) ==
  {Means(<<c>>, <<c>>) : c \in {c \in a : n = 1 /\ IsWord(c)}}
    \cup {Means(<<34>> \o s.text \o <<34>>, s.value) :
            s \in IF n > 1 /\ 34 \in a THEN g[n - 2].strings ELSE {}}

Spaces(a, n) == {Means(s, <<>>) : s \in [1 .. n -> a \cap Blanks]}

(* Brackets around what may be between them, or around nothing *)
Between(a, open, close, g, n, insides(_)) ==
  {Means(<<open>> \o s.text \o <<close>>, s.value) :
     s \in IF n > 1 /\ {open, close} \subseteq a THEN insides(g[n - 2]) \cup Spaces(a, n - 2) ELSE {}}

Values(a, g, n) ==
  Constants(a, n) \cup Numbers(a, n)
    \cup {Means(s.text, String(s.value)) : s \in Names(a, g, n)}
    \cup {Means(s.text, Array(s.value)) : s \in Between(a, 91, 93, g, n, LAMBDA l : l.elements)}
    \cup {Means(s.text, Object(s.value)) : s \in Between(a, 123, 125, g, n, LAMBDA l : l.members)}

Level(a, g, n) ==
  LET values == Values(a, g, n)
      names == Names(a, g, n)
      padded(inner(_), own) ==
        own \cup UNION {Followed(Spaces(a, 1), <<>>, inner(g[n - 1]), LAMBDA s, v : v),
                        Followed(inner(g[n - 1]), <<>>, Spaces(a, 1), LAMBDA v, s : v)}
      texts == IF n = 0 THEN {} ELSE padded(LAMBDA l : l.texts, values)
      keys == IF n = 0 THEN {} ELSE padded(LAMBDA l : l.keys, names)
      pairs == UNION {Followed(g[k].keys, <<58>>, g[n - k - 1].texts, LAMBDA k1, v : k1 :> v) :
                        k \in 0 .. n - 1}
  IN  [strings |-> Strings(a, g, n), texts |-> texts, keys |-> keys, pairs |-> pairs,
       elements |-> {Means(t.text, <<t.value>>) : t \in texts}
         \cup UNION {Followed(g[k].elements, <<44>>, g[n - k - 1].texts, Append) : k \in 0 .. n - 1},
       members |-> pairs
         \cup UNION {Followed(g[k].members, <<44>>, g[n - k - 1].pairs, LAMBDA m, p : p @@ m) :
                        k \in 0 .. n - 1}]

Levels(a) ==
  FoldLeft(LAMBDA g, n : (n :> Level(a, g, n)) @@ g, <<>>, [i \in 1 .. MaxLength[a] + 1 |-> i - 1])

(* All documents over an alphabet, with or without a byte order mark *)
Documents ==
  [a \in Alphabets |->
     LET levels == Levels(a)
         plain == UNION {levels[n].texts : n \in 0 .. MaxLength[a]}
     IN  plain \cup {Means(BOM \o m.text, m.value) :
                       m \in {m \in plain : ToSet(BOM) \subseteq a /\ Len(m.text) + 3 <= MaxLength[a]}}]

(* What documents begin with *)
Openings == [a \in Alphabets |-> UNION {Prefixes(m.text) : m \in Documents[a]}]

(* What the characters read are, the end left out *)
Content == IF text # <<>> /\ Last(text) \in {EOF, Ascii.NUL} THEN Front(text) ELSE text

Ended == text # <<>> /\ Last(text) \in {EOF, Ascii.NUL}

-----------------------------------------------------------------------------
(* Properties *)

(* A file that is accepted is one document to its end, and its value is what the
   grammar gives for it (sax_parse_internal, json_sax_dom_parser, scan). *)
AcceptedMeansItsValue ==
  result = "accepted" => Ended /\ Means(Content, root) \in Documents[alphabet]

(* A file is refused only where no document goes on as it does (every parse_error). *)
RefusedIsNoDocument ==
  result = "refused" =>
    IF Ended THEN \A m \in Documents[alphabet] : m.text # Content
    ELSE text \notin Openings[alphabet]

IsArray(path) == Pointee(path).type = "array"

(* Its loop has read `[` or `{` and the stack of states has not taken that in yet. *)
JustOpened == expecting \in {"first_key", "first_separator", "first_element"}

ExpectsMember ==
  \/ expecting \in {"first_separator", "separator"}
  \/ expecting = "value" /\ states # <<>> /\ ~Last(states)

(* The parser keeps two stacks, of what its loop is in and of pointers to what is being
   filled.  They go together, and a pointer to an element stays good: nothing is put
   behind that element while it is being filled, so that its vector cannot move.  A
   member's value goes into the structure the loop is in (handle_value, key). *)
StacksAgree ==
  result = "reading" =>
    /\ Len(ref_stack) = Len(states) + (IF JustOpened THEN 1 ELSE 0)
    /\ \A i \in DOMAIN states : IsArray(ref_stack[i]) = states[i]
    /\ \A i \in DOMAIN ref_stack \ {1} :
         /\ Front(ref_stack[i]) = ref_stack[i - 1]
         /\ IsArray(ref_stack[i - 1]) =>
              Last(ref_stack[i]) = Len(Pointee(ref_stack[i - 1]).elements)
    /\ ExpectsMember =>
         /\ Front(object_element) = Last(ref_stack)
         /\ Last(object_element) \in DOMAIN Pointee(Last(ref_stack)).members
===============================================================================
