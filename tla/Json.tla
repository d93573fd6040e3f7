---------------------------------- MODULE Json ---------------------------------
(***************************************************************************)
(* JSON values as json.hpp keeps them, and the conversions event.cpp asks  *)
(* for.  Every value carries the text dump() gives for it; numbers carry   *)
(* their value (of a fraction, the whole part), objects their members and  *)
(* arrays their elements.                                                  *)
(***************************************************************************)
EXTENDS Codec, Integers, TLC

CONSTANT IntWidth          \* bits of the client's int

ASSUME IntWidthAssumption == IntWidth \in Nat \ {0, 1}

(* An int is at least -IntLimit and less than IntLimit. *)
IntLimit == 2^(IntWidth - 1)
Ints == -IntLimit .. IntLimit - 1

(* What is true of every power, and that a number is written as a word *)
ASSUME IntsAssumption ==
  /\ IntLimit \in Nat \ {0, 1}
  /\ \A n \in Ints : ToString(n) \in Tokens \ Separators

JsonNull == [type |-> "null", text |-> <<"null">>]
JsonString(text) == [type |-> "string", text |-> text]
JsonNumber(n) == [type |-> "number", text |-> <<ToString(n)>>, value |-> n]
JsonBoolean(b) == [type |-> "boolean", text |-> <<ToString(b)>>, value |-> b]
JsonArray(elements) == [type |-> "array", text |-> <<"[...]">>, elements |-> elements]

(* The text of an object has a colon behind each key; its strings are escaped, so that
   no text that dump gives has a line feed in it. *)
JsonObject(members) ==
  [type |-> "object", members |-> members,
   text |-> <<"{">> \o FoldSet(LAMBDA k, text : text \o k \o <<Colon>> \o members[k].text,
                              Empty, DOMAIN members) \o <<"}">>]

(* What a parsed value has, the values in it being as Inner says *)
IsList(s) == Len(s) \in Nat /\ DOMAIN s = 1 .. Len(s)

IsJson(j, Inner(_)) ==
  /\ j.text \in Texts
  /\ j.type = "number" => j.value \in Int
  /\ j.type = "boolean" => j.value \in BOOLEAN
  /\ j.type = "object" => /\ IsFiniteSet(DOMAIN j.members)
                          /\ \A k \in DOMAIN j.members : k \in Texts /\ Inner(j.members[k])
  /\ j.type = "array" => /\ IsList(j.elements) /\ j.elements = [i \in DOMAIN j.elements |-> j.elements[i]]
                         /\ \A i \in DOMAIN j.elements :
                              ToString(i - 1) \in Tokens /\ Inner(j.elements[i])

(* json["key"]: a missing member is added as null, and null becomes an object. *)
Member(j, key) ==
  IF j.type = "object" /\ key \in DOMAIN j.members THEN j.members[key]
  ELSE IF j.type \in {"object", "null"} THEN JsonNull ELSE Throws

(* for (auto &element : json): a value that is no container is its own only element. *)
JsonElements(j) ==
  CASE j.type = "array"  -> j.elements
    [] j.type = "object" -> [i \in DOMAIN SetToSeq(DOMAIN j.members) |->
                               j.members[SetToSeq(DOMAIN j.members)[i]]]
    [] j.type = "null"   -> <<>>
    [] OTHER             -> <<j>>

(* json.items(), as a map from the keys to the values *)
items(j) ==
  CASE j.type = "object" -> j.members
    [] j.type = "array"  -> [k \in {<<ToString(i - 1)>> : i \in DOMAIN j.elements} |->
                               j.elements[CHOOSE i \in DOMAIN j.elements : k = <<ToString(i - 1)>>]]
    [] j.type = "null"   -> Empty
    [] OTHER             -> [k \in {Empty} |-> j]

(* std::string s = json *)
AsString(j) == IF j.type = "string" THEN j.text ELSE Throws

(* static_cast<int> of a number of more bits *)
Narrow(n) ==
  LET m == n % (2 * IntLimit) IN IF m >= IntLimit THEN m - 2 * IntLimit ELSE m

(* int i = json *)
AsInt(j) ==
  CASE j.type = "number"  -> Narrow(j.value)
    [] j.type = "boolean" -> IF j.value THEN 1 ELSE 0
    [] OTHER              -> Throws
================================================================================
