------------------------------- MODULE JsonLexer -------------------------------
(***************************************************************************)
(* The lexer of json.hpp, one character at a time.                         *)
(*                                                                         *)
(* A character is a byte, or one of two abbreviations: a code unit, which  *)
(* stands for the four hexadecimal digits behind \u, and a word, a whole   *)
(* string without escapes.  The characters of the file are chosen as they  *)
(* are read.                                                               *)
(***************************************************************************)
EXTENDS Integers, SequencesExt, TLC

EOF == -1
Ascii == [NUL |-> 0, quote |-> 34, plus |-> 43, comma |-> 44, minus |-> 45, point |-> 46,
          zero |-> 48, colon |-> 58, E |-> 69, openArray |-> 91, backslash |-> 92,
          closeArray |-> 93, e |-> 101, u |-> 117, openObject |-> 123, closeObject |-> 125]
Blanks == {32, 9, 10, 13}
Digits == 48 .. 57
HexDigits == Digits \cup (65 .. 70) \cup (97 .. 102)
BOM == <<239, 187, 191>>

Unit(n) == 256 + n
IsUnit(c) == c \in Unit(0) .. Unit(65535)
Word(i) == Unit(65536) + i
IsWord(c) == c >= Word(0)

CONSTANTS
  Alphabets,       \* sets of characters, of which each file keeps to one
  MaxLength,       \* bound: the characters of a file, for each alphabet
  NumberBits,      \* bits of number_integer_t and number_unsigned_t
  MaxExponent      \* a number with more digits before its point is infinite as a double

ASSUME LexerAssumption ==
  /\ MaxLength \in [Alphabets -> Nat]
  /\ NumberBits \in Nat \ {0}
  /\ MaxExponent \in Nat
  /\ \A a \in Alphabets : {Ascii.backslash, Ascii.u} \subseteq a => a \cap HexDigits = {}

VARIABLES
  alphabet,
  text,            \* history: what was read; the last of it is `current`
  next_unget,      \* `current` is to be read again
  scanning,        \* where the lexer is, and what it still expects: [at, rest]
  number_type,
  token_buffer,
  last_token       \* "uninitialized" within a token

lexerVars == <<alphabet, text, next_unget, scanning, number_type, token_buffer, last_token>>

Place(at, rest) == [at |-> at, rest |-> rest]

LexerInit ==
  /\ alphabet \in Alphabets
  /\ text = <<>>
  /\ next_unget = FALSE
  /\ scanning = Place("bom", <<>>)
  /\ number_type = "value_unsigned"
  /\ token_buffer = <<>>
  /\ last_token = "uninitialized"

-----------------------------------------------------------------------------
(* Steps within a token and at its end *)

At(place) == scanning.at = place

(* get(): a character read again, the next of the file, or its end *)
Readable ==
  {c \in alphabet : (IsUnit(c) => At("codepoint")) /\ (IsWord(c) => At("start"))}

Get(c) ==
  \/ next_unget /\ c = Last(text) /\ UNCHANGED text
  \/ /\ ~next_unget
     /\ c = EOF \/ (c \in Readable /\ Len(text) < MaxLength[alphabet])
     /\ text' = Append(text, c)

Advance == next_unget' = FALSE
unget == next_unget' = TRUE

Stay(at, rest) == scanning' = Place(at, rest) /\ last_token' = "uninitialized"
Token(type) == scanning' = Place("start", <<>>) /\ last_token' = type

reset(characters) == token_buffer' = characters
add(characters) == token_buffer' = token_buffer \o characters
Keep == UNCHANGED <<token_buffer, number_type>>

-----------------------------------------------------------------------------
(* Byte order mark and literals *)

Expect(c, type) ==
  IF c # Head(scanning.rest) THEN Token("parse_error")
  ELSE IF Len(scanning.rest) > 1 THEN Stay(scanning.at, Tail(scanning.rest))
  ELSE IF type = "bom" THEN Stay("start", <<>>) ELSE Token(type)

skip_bom(c) ==
  \/ /\ At("bom") /\ Keep
     /\ IF c = Head(BOM) THEN Stay("rest of bom", Tail(BOM)) /\ Advance
        ELSE Stay("start", <<>>) /\ unget
  \/ At("rest of bom") /\ Expect(c, "bom") /\ Advance /\ Keep

Literals == [literal_true  |-> <<116, 114, 117, 101>>,
             literal_false |-> <<102, 97, 108, 115, 101>>,
             literal_null  |-> <<110, 117, 108, 108>>]

scan_literal(c) ==
  scanning.at \in DOMAIN Literals /\ Expect(c, scanning.at) /\ Advance /\ Keep

-----------------------------------------------------------------------------
(* Strings *)

(* Behind a backslash: " \ / b f n r t *)
Escapes == [c \in {34, 92, 47, 98, 102, 110, 114, 116} |->
  CASE c = 98 -> 8 [] c = 102 -> 12 [] c = 110 -> 10 [] c = 114 -> 13 [] c = 116 -> 9 [] OTHER -> c]

HighSurrogates == 55296 .. 56319
LowSurrogates == 56320 .. 57343

(* The code point of a pair of surrogates *)
CodePoint(high, low) == high * 1024 + low - 56613888

(* The bytes of a code point *)
Utf8(n) ==
  LET continuing(unit) == 128 + ((n \div unit) % 64) IN
  IF n < 128 THEN <<n>>
  ELSE IF n < 2048 THEN <<192 + (n \div 64), continuing(1)>>
  ELSE IF n < 65536 THEN <<224 + (n \div 4096), continuing(64), continuing(1)>>
  ELSE <<240 + (n \div 262144), continuing(4096), continuing(64), continuing(1)>>

FirstBytes == (32 .. 127) \cup (194 .. 244)
Continuing == 128 .. 191

(* Mutant: a third byte may begin with what gives a surrogate. *)
FollowingWithSurrogates(c) ==
  CASE c \in 32 .. 127   -> <<>>
    [] c \in 194 .. 223  -> <<Continuing>>
    [] c \in 224 .. 239  -> <<IF c = 224 THEN 160 .. 191 ELSE Continuing, Continuing>>
    [] c \in 240 .. 244  -> <<IF c = 240 THEN 144 .. 191 ELSE IF c = 244 THEN 128 .. 143
                              ELSE Continuing, Continuing, Continuing>>

(* The ranges of the bytes behind a first byte, for next_byte_in_range *)
Following(c) ==
  CASE c \in 32 .. 127   -> <<>>
    [] c \in 194 .. 223  -> <<Continuing>>
    [] c \in 224 .. 239  -> <<IF c = 224 THEN 160 .. 191 ELSE IF c = 237 THEN 128 .. 159
                              ELSE Continuing, Continuing>>
    [] c \in 240 .. 244  -> <<IF c = 240 THEN 144 .. 191 ELSE IF c = 244 THEN 128 .. 143
                              ELSE Continuing, Continuing, Continuing>>

(* Between two characters of a string *)
NextOfString(c) ==
  \/ c = Ascii.quote /\ Token("value_string") /\ add(<<>>)
  \/ c = Ascii.backslash /\ Stay("escape", <<>>) /\ add(<<>>)
  \/ /\ c \in FirstBytes \ {Ascii.quote, Ascii.backslash}
     /\ Stay(IF Following(c) = <<>> THEN "string" ELSE "bytes", Following(c)) /\ add(<<c>>)
  \/ c \notin FirstBytes /\ Token("parse_error") /\ add(<<>>)

next_byte_in_range(c) ==
  IF c \notin Head(scanning.rest) THEN Token("parse_error") /\ add(<<>>)
  ELSE /\ Stay(IF Len(scanning.rest) = 1 THEN "string" ELSE "bytes", Tail(scanning.rest))
       /\ add(<<c>>)

Escape(c) ==
  \/ c \in DOMAIN Escapes /\ Stay("string", <<>>) /\ add(<<Escapes[c]>>)
  \/ c = Ascii.u /\ Stay("codepoint", <<>>) /\ add(<<>>)
  \/ c \notin DOMAIN Escapes \cup {Ascii.u} /\ Token("parse_error") /\ add(<<>>)

(* get_codepoint, first or, behind a high surrogate, second *)
Codepoint(c) ==
  LET n == c - Unit(0)
      high == scanning.rest IN
  \/ /\ IsUnit(c) /\ high = <<>> /\ n \in HighSurrogates
     /\ Stay("backslash", <<n>>) /\ add(<<>>)
  \/ /\ IsUnit(c) /\ high = <<>> /\ n \notin HighSurrogates \cup LowSurrogates
     /\ Stay("string", <<>>) /\ add(Utf8(n))
  \/ /\ IsUnit(c) /\ high # <<>> /\ n \in LowSurrogates
     /\ Stay("string", <<>>) /\ add(Utf8(CodePoint(high[1], n)))
  \/ /\ ~IsUnit(c) \/ (high = <<>>) = (n \in LowSurrogates)
     /\ Token("parse_error") /\ add(<<>>)

(* Behind a high surrogate comes \u. *)
SecondEscape(c) ==
  /\ add(<<>>)
  /\ IF c = Ascii.backslash /\ At("backslash") THEN Stay("u", scanning.rest)
     ELSE IF c = Ascii.u /\ At("u") THEN Stay("codepoint", scanning.rest)
     ELSE Token("parse_error")

scan_string(c) ==
  /\ \/ At("string") /\ NextOfString(c)
     \/ At("bytes") /\ next_byte_in_range(c)
     \/ At("escape") /\ Escape(c)
     \/ At("codepoint") /\ Codepoint(c)
     \/ scanning.at \in {"backslash", "u"} /\ SecondEscape(c)
  /\ Advance /\ UNCHANGED number_type

-----------------------------------------------------------------------------
(* Numbers *)

To(characters, at) == [c \in characters |-> at]

(* Mutant: no sign is taken behind an e. *)
NumberPlacesUnsigned(at) ==
  CASE at = "minus"    -> To({Ascii.zero}, "zero") @@ To(Digits, "any1")
    [] at = "zero"     -> To({Ascii.point}, "decimal1") @@ To({Ascii.e, Ascii.E}, "exponent")
    [] at = "any1"     -> To(Digits, "any1") @@ To({Ascii.point}, "decimal1")
                            @@ To({Ascii.e, Ascii.E}, "exponent")
    [] at = "decimal1" -> To(Digits, "decimal2")
    [] at = "decimal2" -> To(Digits, "decimal2") @@ To({Ascii.e, Ascii.E}, "exponent")
    [] at \in {"exponent", "sign", "any2"} -> To(Digits, "any2")

(* The labels of scan_number: which characters lead to which *)
NumberPlaces(at) ==
  CASE at = "minus"    -> To({Ascii.zero}, "zero") @@ To(Digits, "any1")
    [] at = "zero"     -> To({Ascii.point}, "decimal1") @@ To({Ascii.e, Ascii.E}, "exponent")
    [] at = "any1"     -> To(Digits, "any1") @@ To({Ascii.point}, "decimal1")
                            @@ To({Ascii.e, Ascii.E}, "exponent")
    [] at = "decimal1" -> To(Digits, "decimal2")
    [] at = "decimal2" -> To(Digits, "decimal2") @@ To({Ascii.e, Ascii.E}, "exponent")
    [] at = "exponent" -> To({Ascii.plus, Ascii.minus}, "sign") @@ To(Digits, "any2")
    [] at \in {"sign", "any2"} -> To(Digits, "any2")

Complete == {"zero", "any1", "decimal2", "any2"}
InNumber == Complete \cup {"minus", "decimal1", "exponent", "sign"}

Natural(digits) == FoldLeft(LAMBDA n, d : 10 * n + d - Ascii.zero, 0, digits)

(* strtoull and strtoll leave errno at 0; an integer too large becomes a double. *)
Fits(type, number) ==
  \/ type = "value_unsigned" /\ Natural(number) < 2^NumberBits
  \/ type = "value_integer" /\ Natural(Tail(number)) <= 2^(NumberBits - 1)

Converted(type, number) == IF Fits(type, number) THEN type ELSE "value_float"

(* strtod gives no infinity: of the digits of the number at most MaxExponent stand before
   the point once its exponent has moved that. *)
PositionOf(s, characters) == Min({i \in DOMAIN s : s[i] \in characters} \cup {Len(s) + 1})

Exponent(digits) ==
  CASE digits = <<>>              -> 0
    [] Head(digits) = Ascii.plus  -> Natural(Tail(digits))
    [] Head(digits) = Ascii.minus -> -Natural(Tail(digits))
    [] OTHER                      -> Natural(digits)

IsFinite(number) ==
  LET e           == PositionOf(number, {Ascii.e, Ascii.E})
      point       == Min({e, PositionOf(number, {Ascii.point})})
      mantissa    == SelectSeq(SubSeq(number, 1, e - 1), LAMBDA c : c \in Digits)
      significant == Len(mantissa) + 1 - PositionOf(mantissa, Digits \ {Ascii.zero})
      fraction    == Max({0, e - point - 1})
  IN  significant = 0
        \/ significant - fraction + Exponent(SubSeq(number, e + 1, Len(number))) <= MaxExponent

scan_number(c) ==
  LET places == NumberPlaces(scanning.at) IN
  /\ scanning.at \in InNumber
  /\ \/ /\ c \in DOMAIN places
        /\ Stay(places[c], <<>>) /\ add(<<c>>) /\ Advance
        /\ number_type' = IF places[c] \in {"decimal1", "exponent"} THEN "value_float"
                          ELSE number_type
     \/ /\ c \notin DOMAIN places /\ scanning.at \in Complete
        /\ Token(Converted(number_type, token_buffer)) /\ unget /\ Keep
     \/ /\ c \notin DOMAIN places /\ scanning.at \notin Complete
        /\ Token("parse_error") /\ Advance /\ Keep

-----------------------------------------------------------------------------
(* scan *)

Structural == To({Ascii.openArray}, "begin_array") @@ To({Ascii.closeArray}, "end_array")
  @@ To({Ascii.openObject}, "begin_object") @@ To({Ascii.closeObject}, "end_object")
  @@ To({Ascii.colon}, "name_separator") @@ To({Ascii.comma}, "value_separator")
  @@ To({Ascii.NUL, EOF}, "end_of_input")

StartNumber(c) ==
  /\ reset(<<c>>)
  /\ IF c = Ascii.minus THEN Stay("minus", <<>>) /\ number_type' = "value_integer"
     ELSE /\ Stay(IF c = Ascii.zero THEN "zero" ELSE "any1", <<>>)
          /\ number_type' = "value_unsigned"

Start(c) ==
  \/ c \in Blanks /\ Stay("start", <<>>) /\ Keep
  \/ c \in DOMAIN Structural /\ Token(Structural[c]) /\ Keep
  \/ \E type \in DOMAIN Literals :
       c = Head(Literals[type]) /\ Stay(type, Tail(Literals[type])) /\ Keep
  \/ c = Ascii.quote /\ Stay("string", <<>>) /\ reset(<<>>) /\ UNCHANGED number_type
  \/ IsWord(c) /\ Token("value_string") /\ reset(<<c>>) /\ UNCHANGED number_type
  \/ c \in Digits \cup {Ascii.minus} /\ StartNumber(c)

Beginnings ==
  Blanks \cup DOMAIN Structural \cup {Head(Literals[type]) : type \in DOMAIN Literals}
    \cup {Ascii.quote, Ascii.minus} \cup Digits

scan(c) ==
  \/ skip_bom(c)
  \/ At("start") /\ Start(c) /\ Advance
  \/ /\ At("start") /\ c \notin Beginnings /\ ~IsWord(c)
     /\ Token("parse_error") /\ Advance /\ Keep
  \/ scan_literal(c) \/ scan_string(c) \/ scan_number(c)
=============================================================================
