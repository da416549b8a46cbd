------------------------------ MODULE JsonNode ------------------------------
(***************************************************************************)
(* The JSON values of serializable.rs: an object is filled with setters,   *)
(* dumped to text, parsed again and read with getters.  A value is         *)
(* <<type, contents>>; a text is a sequence of tokens <<type, contents>>,  *)
(* a string or a number being one token.                                   *)
(***************************************************************************)
EXTENDS Integers, Sequences, SequencesExt, TLC

CONSTANTS
    JsonKeys,        \* names of sub-nodes
    JsonNumbers,     \* integers the setters get
    Width16, Width32, Width64   \* 2^16, 2^32, 2^64 of the instance

VARIABLES
    node,            \* the JsonValue
    text,            \* the last dump
    stored           \* what the setters were given: key -> <<type, value>>

jsonVars == <<node, text, stored>>

JNull == <<"Null", 0>>
Tok(k) == <<k, 0>>

\* set: whatever is no object becomes one.
SetSub(n, key, v) ==
    <<"Object", IF n[1] = "Object" THEN key :> v @@ n[2] ELSE key :> v>>

\* get_sub_node: the node itself for the empty name, Null where there is none.
GetSubNode(n, name) ==
    IF name = "" THEN n
    ELSE IF n[1] = "Object" /\ name \in DOMAIN n[2] THEN n[2][name] ELSE JNull

----------------------------------------------------------------------------
\* The setters: a signed integer is stored as Int, an unsigned one as Uint.
SetValue(n, key, type, v) ==
    SetSub(n, key,
           CASE type \in {"i32", "i64"} -> <<"Int", v>>
             [] type \in {"u16", "u32", "u64"} -> <<"Uint", v>>
             [] type = "bool" -> <<"Bool", v>>
             [] type = "string" -> <<"String", v>>
             [] type = "blob" -> <<"Array", [i \in DOMAIN v |-> <<"Uint", v[i]>>]>>)

\* The numbers of a type.
InWidth(type, v) ==
    CASE type = "i32" -> v \in -(Width32 \div 2) .. (Width32 \div 2) - 1
      [] type = "i64" -> v \in -(Width64 \div 2) .. (Width64 \div 2) - 1
      [] type = "u16" -> v \in 0 .. Width16 - 1
      [] type = "u32" -> v \in 0 .. Width32 - 1
      [] type = "u64" -> v \in 0 .. Width64 - 1

IsNumberInteger(v) == v[1] \in {"Int", "Uint"}
\* Mutant: a signed number is never an unsigned one.
IsNumberUnsignedMutant(v) == v[1] = "Uint"

IsNumberUnsigned(v) == v[1] = "Uint" \/ (v[1] = "Int" /\ v[2] >= 0)
AsI64(v) == IF v[1] = "Uint" /\ ~InWidth("i64", v[2]) THEN <<>> ELSE <<v[2]>>

\* get_i32, get_i64, get_u16, get_u32, get_u64: <<>> is None.
GetNumber(n, name, type) ==
    LET v == GetSubNode(n, name)
        signed == type \in {"i32", "i64"}
    IN  IF \/ signed /\ (~IsNumberInteger(v) \/ AsI64(v) = <<>>)
           \/ ~signed /\ ~IsNumberUnsigned(v)
           \/ ~InWidth(type, v[2])
        THEN <<>> ELSE <<v[2]>>

GetString(n, name) == LET v == GetSubNode(n, name) IN IF v[1] = "String" THEN <<v[2]>> ELSE <<>>

\* A bool may also be an unsigned number.
GetBool(n, name) ==
    LET v == GetSubNode(n, name)
    IN  IF v[1] = "Bool" THEN <<v[2]>>
        ELSE IF IsNumberUnsigned(v) THEN <<v[2] # 0>> ELSE <<>>

GetBlob(n, name) ==
    LET v == GetSubNode(n, name)
    IN  IF v[1] # "Array" \/ \E i \in DOMAIN v[2] : ~(IsNumberUnsigned(v[2][i]) /\ v[2][i][2] < 256)
        THEN <<>> ELSE <<[i \in DOMAIN v[2] |-> v[2][i][2]]>>

GetValue(n, name, type) ==
    CASE type = "string" -> GetString(n, name)
      [] type = "bool" -> GetBool(n, name)
      [] type = "blob" -> GetBlob(n, name)
      [] OTHER -> GetNumber(n, name, type)

----------------------------------------------------------------------------
\* dump, the elements of a list behind commas, the keys in their order.
Separated(parts) ==
    FlattenSeq([i \in DOMAIN parts |-> (IF i = 1 THEN <<>> ELSE <<Tok(",")>>) \o parts[i]])

RECURSIVE Dump(_)
Dump(v) ==
    CASE v[1] = "Null" -> <<Tok("null")>>
      [] v[1] = "Bool" -> <<<<"bool", v[2]>>>>
      [] v[1] \in {"Int", "Uint"} -> <<<<"number", v[2]>>>>
      [] v[1] = "String" -> <<<<"string", v[2]>>>>
      [] v[1] = "Array" ->
             <<Tok("[")>> \o Separated([i \in DOMAIN v[2] |-> Dump(v[2][i])]) \o <<Tok("]")>>
      [] v[1] = "Object" ->
             LET keys == SetToSeq(DOMAIN v[2])
             IN  <<Tok("{")>>
                 \o Separated([i \in DOMAIN keys |->
                                 <<<<"string", keys[i]>>, Tok(":")>> \o Dump(v[2][keys[i]])])
                 \o <<Tok("}")>>

\* The parser: [ok, val, rest].
Parsed(v, rest) == [ok |-> TRUE, val |-> v, rest |-> rest]
Unparsed == [ok |-> FALSE, val |-> JNull, rest |-> <<>>]
StartsWith(ts, k) == ts # <<>> /\ Head(ts)[1] = k

\* parse_number: a number without a sign is Uint.
ParseNumber(v) == IF v < 0 THEN <<"Int", v>> ELSE <<"Uint", v>>

RECURSIVE ParseValue(_)
RECURSIVE ParseElements(_, _)
RECURSIVE ParseMembers(_, _)
\* parse_array and parse_object from their first element on.
ParseElements(ts, sofar) ==
    LET r == ParseValue(ts) IN
    IF ~r.ok \/ r.rest = <<>> THEN Unparsed
    ELSE CASE StartsWith(r.rest, "]") -> Parsed(<<"Array", Append(sofar, r.val)>>, Tail(r.rest))
           [] StartsWith(r.rest, ",") -> ParseElements(Tail(r.rest), Append(sofar, r.val))
           [] OTHER -> Unparsed

ParseMembers(ts, sofar) ==
    IF ~(StartsWith(ts, "string") /\ StartsWith(Tail(ts), ":")) THEN Unparsed
    ELSE LET r == ParseValue(SubSeq(ts, 3, Len(ts)))
             map == Head(ts)[2] :> r.val @@ sofar
         IN  IF ~r.ok \/ r.rest = <<>> THEN Unparsed
             ELSE CASE StartsWith(r.rest, "}") -> Parsed(<<"Object", map>>, Tail(r.rest))
                    [] StartsWith(r.rest, ",") -> ParseMembers(Tail(r.rest), map)
                    [] OTHER -> Unparsed

ParseValue(ts) ==
    IF ts = <<>> THEN Unparsed
    ELSE LET t == Head(ts) rest == Tail(ts)
         IN  CASE t[1] = "string" -> Parsed(<<"String", t[2]>>, rest)
               [] t[1] = "bool" -> Parsed(<<"Bool", t[2]>>, rest)
               [] t[1] = "null" -> Parsed(JNull, rest)
               [] t[1] = "number" -> Parsed(ParseNumber(t[2]), rest)
               [] t[1] = "[" -> IF StartsWith(rest, "]") THEN Parsed(<<"Array", <<>>>>, Tail(rest))
                                ELSE ParseElements(rest, <<>>)
               [] t[1] = "{" -> IF StartsWith(rest, "}") THEN Parsed(<<"Object", <<>>>>, Tail(rest))
                                ELSE ParseMembers(rest, <<>>)
               [] OTHER -> Unparsed

\* parse: all of the text.
ParseText(ts) == LET r == ParseValue(ts) IN IF r.ok /\ r.rest = <<>> THEN r ELSE Unparsed

\* to_json and unmarshall: a text that does not parse is tried without its first
\* character, then it is Null.
ToJson(ts) ==
    IF ParseText(ts).ok THEN ParseText(ts).val
    ELSE IF ts # <<>> /\ ParseText(Tail(ts)).ok THEN ParseText(Tail(ts)).val ELSE JNull

----------------------------------------------------------------------------
Contents(type) ==
    CASE type = "string" -> {"s"}
      [] type = "bool" -> BOOLEAN
      [] type = "blob" -> {<<>>, <<1, 255>>}
      [] OTHER -> {v \in JsonNumbers : InWidth(type, v)}

JsonTypes == {"i32", "i64", "u16", "u32", "u64", "string", "bool", "blob"}

JsonInit == node = JNull /\ text = <<>> /\ stored = <<>>

Set ==
    /\ text = <<>>
    /\ \E key \in JsonKeys, type \in JsonTypes : \E v \in Contents(type) :
          /\ node' = SetValue(node, key, type, v)
          /\ stored' = key :> <<type, v>> @@ stored
    /\ UNCHANGED text

\* The text, with a character in front of it that does not belong to it or not.
DumpNode ==
    /\ text = <<>> /\ node # JNull
    /\ text' \in {Dump(node), <<Tok("junk")>> \o Dump(node)}
    /\ UNCHANGED <<node, stored>>

ParseNode ==
    /\ text # <<>>
    /\ node' = ToJson(text) /\ text' = <<>>
    /\ UNCHANGED stored

JsonNext == Set \/ DumpNode \/ ParseNode

----------------------------------------------------------------------------
\* Each getter gives what was stored under the key with the setter of its type;
\* the getter of another integer type gives the same number or nothing, never a
\* truncated one; before and after the text was written and parsed.
GetterGivesStored ==
    \A key \in DOMAIN stored :
        /\ GetValue(node, key, stored[key][1]) = <<stored[key][2]>>
        /\ stored[key][1] \in {"i32", "i64", "u16", "u32", "u64"} =>
              \A type \in {"i32", "i64", "u16", "u32", "u64"} :
                  GetNumber(node, key, type) =
                      (IF InWidth(type, stored[key][2]) THEN <<stored[key][2]>> ELSE <<>>)
=============================================================================
