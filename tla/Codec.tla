--------------------------------- MODULE Codec ---------------------------------
(***************************************************************************)
(* Frames as text, written and read by both sides.                         *)
(*                                                                         *)
(* A text is a sequence of tokens: the separators the two programs look    *)
(* for, and words that contain none of them.  The NUL behind a frame is    *)
(* left out: a connection is a sequence of texts.  A NUL inside a text     *)
(* would cut it in two for either reader; texts with one are left out.     *)
(* Bytes are what they are in the other program, as they are where the     *)
(* server's platform writes and reads texts as UTF-8.                      *)
(***************************************************************************)
EXTENDS SequencesExt

CONSTANT Throws     \* what a function gives that ends with an exception

NL == "\n"
Colon == ":"
Underscore == "_"
Separators == {NL, Colon, Underscore}

(* The words the two programs write and look for themselves *)
Keywords ==
  {"SEND", "MESSAGE", "ERROR", "destination", "subscription", "message-id", "id", "message",
   "User isnt subscribed to this channel", "user", "team a", "team b", "event name", "time",
   "general game updates", "team a updates", "team b updates", "description",
   "null"}

(* What ends a frame is no token: a text that holds one is not among the Texts. *)
NUL == "NUL"

Tokens == (STRING \ {NUL}) \cup Separators \cup Keywords
Texts == Seq(Tokens)

Empty == <<>>
Line(text) == text \o <<NL>>

(* A map filled from pairs in order by put or operator[], and by emplace, which leaves
   what is there. *)
PutAll(pairs) ==
  [k \in {pairs[i][1] : i \in DOMAIN pairs} |->
     pairs[Max({i \in DOMAIN pairs : pairs[i][1] = k})][2]]
EmplaceAll(pairs) ==
  [k \in {pairs[i][1] : i \in DOMAIN pairs} |->
     pairs[Min({i \in DOMAIN pairs : pairs[i][1] = k})][2]]

-----------------------------------------------------------------------------
(* Splitting *)

(* StompClientProtocol's split: cut at the first occurrence, then go on behind it. *)
split(s, d) ==
  LET found == {k \in 1 .. Len(s) + 1 - Len(d) : \A i \in DOMAIN d : s[k + i - 1] = d[i]}
      from[i \in 1 .. Len(s) + 1] ==
        LET K == {k \in found : k >= i} IN
        IF K = {} THEN <<SubSeq(s, i, Len(s))>>
        ELSE <<SubSeq(s, i, Min(K) - 1)>> \o from[Min(K) + Len(d)]
  IN  from[1]

(* Java's String.split also drops the empty pieces at the end. *)
DropEmptyEnd(pieces) ==
  IF Len(pieces) = 1 THEN pieces
  ELSE SubSeq(pieces, 1, Max({0} \cup {i \in DOMAIN pieces : pieces[i] # Empty}))

JavaSplit(s, d) == DropEmptyEnd(split(s, d))

-----------------------------------------------------------------------------
(* A frame has a command and a body, which are texts, and headers, a function from
   texts to texts.  A hash map gives its entries in any order: TLC takes one. *)

Frame(command, headers, body) == [command |-> command, headers |-> headers, body |-> body]

HeaderLines(headers) ==
  FoldSet(LAMBDA h, text : text \o Line(h \o <<Colon>> \o headers[h]), Empty, DOMAIN headers)

(* Mutant: no blank line between the headers and the body. *)
encodeWithoutBlankLine(f) == Line(f.command) \o HeaderLines(f.headers) \o f.body

(* StompEncoderDecoder.encode *)
encode(f) == Line(f.command) \o HeaderLines(f.headers) \o <<NL>> \o f.body

(* StompClientProtocol::frameToString *)
frameToString(f) == Line(f.command) \o HeaderLines(f.headers) \o <<NL>> \o f.body

-----------------------------------------------------------------------------
(* Reading a frame: of a header line, what lies between its first colon and a second
   is the value; a line with less makes both sides throw. *)

HeaderPairs(headers) == [i \in DOMAIN headers |-> <<headers[i][1], headers[i][2]>>]
AllHaveValues(headers) == \A i \in DOMAIN headers : Len(headers[i]) >= 2

DecodedLines(lines, body) ==
  LET headers == [i \in 1 .. Len(lines) - 1 |-> JavaSplit(lines[i + 1], <<Colon>>)] IN
  IF lines = <<>> \/ ~AllHaveValues(headers) THEN Throws
  ELSE Frame(lines[1], PutAll(HeaderPairs(headers)), body)

(* A body with a blank line in it is dropped whole. *)
DecodedPieces(pieces) ==
  IF pieces = <<>> THEN Throws
  ELSE DecodedLines(JavaSplit(pieces[1], <<NL>>), IF Len(pieces) = 2 THEN pieces[2] ELSE Empty)

(* StompEncoderDecoder.extractFrame *)
extractFrame(text) == DecodedPieces(JavaSplit(text, <<NL, NL>>))

FrameOfLines(lines, body) ==
  LET headers == [i \in 1 .. Len(lines) - 1 |-> split(lines[i + 1], <<Colon>>)] IN
  IF ~AllHaveValues(headers) THEN Throws
  ELSE Frame(lines[1], EmplaceAll(HeaderPairs(headers)), body)

FrameOfPieces(pieces) ==
  IF Len(pieces) < 2 THEN Throws ELSE FrameOfLines(split(pieces[1], <<NL>>), pieces[2])

(* StompClientProtocol::stringToFrameFromServer *)
stringToFrameFromServer(text) == FrameOfPieces(split(text, <<NL, NL>>))
================================================================================
