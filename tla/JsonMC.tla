--------------------------------- MODULE JsonMC --------------------------------
(* Files over small alphabets, one for each kind of text. *)
EXTENDS JsonGrammar

StructureAlphabet == {91, 93, 123, 125, 58, 44, Word(0), Word(1)}
BlankAlphabet == {91, 93, 44, 32, 49, 0}
NumberAlphabet == {45, 48, 49, 46, 101, 43}
LiteralAlphabet == {116, 114, 117, 101, 102, 97, 108, 115, 110}
EscapeAlphabet == {34, 92, 110, 117, 10, Unit(55357), Unit(56832), Unit(8364)}
ByteAlphabet == {34, 127, 128, 143, 144, 159, 160, 191, 193, 194, 223, 224, 225, 237, 238,
                 240, 241, 244, 245}
BomAlphabet == {239, 187, 191, 49}

MCMaxLength == (StructureAlphabet :> 10) @@ (BlankAlphabet :> 6) @@ (NumberAlphabet :> 8)
  @@ (LiteralAlphabet :> 6) @@ (EscapeAlphabet :> 8) @@ (ByteAlphabet :> 6) @@ (BomAlphabet :> 5)
MCAlphabets == DOMAIN MCMaxLength
================================================================================
