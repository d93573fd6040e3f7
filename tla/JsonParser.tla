------------------------------- MODULE JsonParser ------------------------------
(***************************************************************************)
(* json::parse of a file: sax_parse_internal, a loop with a stack of its   *)
(* own, takes the lexer's tokens, and json_sax_dom_parser builds the value *)
(* they stand for.  A pointer into that value is the path of indices and   *)
(* keys that leads to it.                                                  *)
(***************************************************************************)
EXTENDS JsonLexer

VARIABLES
  expecting,       \* what the parser's loop calls get_token for
  states,          \* for each structure it is in: is it an array
  root,            \* the value so far
  ref_stack,       \* pointers to the structures that are being filled
  object_element,  \* pointer to the member whose value comes next
  result           \* "reading", "accepted" or "refused", which is an exception

dom == <<root, ref_stack, object_element>>
parserVars == <<expecting, states, dom, result>>
vars == <<lexerVars, parserVars>>

-----------------------------------------------------------------------------
(* Values *)

Null == [type |-> "null"]
Boolean(b) == [type |-> "boolean", value |-> b]
String(bytes) == [type |-> "string", bytes |-> bytes]
Number(type, characters) == [type |-> type, characters |-> characters]
Array(elements) == [type |-> "array", elements |-> elements]
Object(members) == [type |-> "object", members |-> members]

Child(value, step) ==
  IF value.type = "array" THEN value.elements[step] ELSE value.members[step]

(* What the steps of a path lead to, from the value itself inwards *)
Along(value, path) ==
  LET to[i \in 0 .. Len(path)] == IF i = 0 THEN value ELSE Child(to[i - 1], path[i]) IN to

Pointee(path) == Along(root, path)[Len(path)]

(* A value with one of its parts added or replaced *)
WithChild(value, step, child) ==
  IF value.type = "object"
  THEN Object([name \in {step} \cup DOMAIN value.members |->
                 IF name = step THEN child ELSE value.members[name]])
  ELSE IF step \in DOMAIN value.elements THEN Array([value.elements EXCEPT ![step] = child])
  ELSE Array(Append(value.elements, child))

(* The root once `value` stands where the path leads *)
Stored(path, value) ==
  LET above == Along(root, Front(path))
      from[i \in 0 .. Len(path)] ==
        IF i = Len(path) THEN value ELSE WithChild(above[i], path[i + 1], from[i + 1])
  IN  from[0]

-----------------------------------------------------------------------------
(* json_sax_dom_parser *)

(* Mutant: the member comes first whatever is being filled. *)
TargetOfTheKey ==
  IF ref_stack = <<>> THEN <<>>
  ELSE IF object_element = <<>> THEN Append(Last(ref_stack), Len(Pointee(Last(ref_stack)).elements) + 1)
  ELSE object_element

(* Where handle_value puts the next value *)
Target ==
  IF ref_stack = <<>> THEN <<>>
  ELSE IF Pointee(Last(ref_stack)).type = "array"
  THEN Append(Last(ref_stack), Len(Pointee(Last(ref_stack)).elements) + 1)
  ELSE object_element

handle_value(value) ==
  root' = Stored(Target, value) /\ UNCHANGED <<ref_stack, object_element>>

start(structure) ==
  /\ root' = Stored(Target, structure)
  /\ ref_stack' = Append(ref_stack, Target)
  /\ UNCHANGED object_element

(* operator[] adds a null where the key is new. *)
key(name) ==
  LET back == Last(ref_stack) IN
  /\ object_element' = Append(back, name)
  /\ root' = IF name \in DOMAIN Pointee(back).members THEN root
             ELSE Stored(Append(back, name), Null)
  /\ UNCHANGED ref_stack

(* end_array and end_object *)
end == ref_stack' = Front(ref_stack) /\ UNCHANGED <<root, object_element>>

-----------------------------------------------------------------------------
(* sax_parse_internal, from one call of get_token to the next *)

Refuse == result' = "refused" /\ UNCHANGED <<expecting, states, dom>>

Goto(place, stack) == expecting' = place /\ states' = stack /\ UNCHANGED result

(* A value is complete: go on in what it is part of. *)
Evaluate(stack) ==
  Goto(IF stack = <<>> THEN "end" ELSE IF Last(stack) THEN "next_element" ELSE "next_member", stack)

Scalar(token) ==
  CASE token = "literal_null"  -> Null
    [] token = "literal_true"  -> Boolean(TRUE)
    [] token = "literal_false" -> Boolean(FALSE)
    [] token = "value_string"  -> String(token_buffer')
    [] OTHER                   -> Number(token, token_buffer')

ScalarTokens == {"literal_null", "literal_true", "literal_false", "value_string",
                 "value_unsigned", "value_integer", "value_float"}

Value(token, stack) ==
  \/ token = "begin_object" /\ start(Object(<<>>)) /\ Goto("first_key", stack)
  \/ token = "begin_array" /\ start(Array(<<>>)) /\ Goto("first_element", stack)
  \/ /\ token \in ScalarTokens
     /\ token = "value_float" => IsFinite(token_buffer')
     /\ handle_value(Scalar(token)) /\ Evaluate(stack)
  \/ token = "value_float" /\ ~IsFinite(token_buffer') /\ Refuse
  \/ token \notin ScalarTokens \cup {"begin_object", "begin_array"} /\ Refuse

NextElement(token) ==
  IF token = "value_separator" THEN Goto("value", states) /\ UNCHANGED dom
  ELSE IF token = "end_array" THEN end /\ Evaluate(Front(states))
  ELSE Refuse

NextMember(token) ==
  IF token = "value_separator" THEN Goto("key", states) /\ UNCHANGED dom
  ELSE IF token = "end_object" THEN end /\ Evaluate(Front(states))
  ELSE Refuse

Key(token, separator) ==
  IF token = "value_string" THEN key(token_buffer') /\ Goto(separator, states)
  ELSE Refuse

Separator(token, stack) ==
  IF token = "name_separator" THEN Goto("value", stack) /\ UNCHANGED dom
  ELSE Refuse

(* In strict mode the value must be all there is. *)
Strict(token) ==
  IF token = "end_of_input"
  THEN result' = "accepted" /\ UNCHANGED <<expecting, states, dom>>
  ELSE Refuse

sax_parse_internal(token) ==
  \/ expecting = "value" /\ Value(token, states)
  \/ /\ expecting = "first_element"
     /\ IF token = "end_array" THEN end /\ Evaluate(states)
        ELSE Value(token, Append(states, TRUE))
  \/ expecting = "next_element" /\ NextElement(token)
  \/ /\ expecting = "first_key"
     /\ IF token = "end_object" THEN end /\ Evaluate(states)
        ELSE Key(token, "first_separator")
  \/ expecting = "first_separator" /\ Separator(token, Append(states, FALSE))
  \/ expecting = "next_member" /\ NextMember(token)
  \/ expecting = "key" /\ Key(token, "separator")
  \/ expecting = "separator" /\ Separator(token, states)
  \/ expecting = "end" /\ Strict(token)

-----------------------------------------------------------------------------
Init ==
  /\ LexerInit
  /\ expecting = "value"
  /\ states = <<>>
  /\ root = Null
  /\ ref_stack = <<>>
  /\ object_element = <<>>
  /\ result = "reading"

(* One character is read, and a token that it completes is taken. *)
Read(c) ==
  /\ result = "reading"
  /\ Get(c)
  /\ scan(c)
  /\ UNCHANGED alphabet
  /\ IF last_token' = "uninitialized" THEN UNCHANGED parserVars
     ELSE sax_parse_internal(last_token')

(* Of a file, byte by byte: sbumpc gives EOF from the end of it on. *)
Next == \E c \in {EOF} \cup alphabet : Read(c)

Spec == Init /\ [][Next]_vars
=============================================================================
