----------------------------- MODULE TomlCodec ------------------------------
(***************************************************************************)
(* toml::serialize() and toml::deserialize() of typed values: encodeValue(),*)
(* which builds a tree of nodes, what each node is written as and parses   *)
(* to, and decodeValue().  A node is a tuple like a value; a table says    *)
(* whether it is to be inline, an array whether its elements are tables.   *)
(***************************************************************************)
EXTENDS Reflection

\* The recursive calls of TomlEncode(), Parsed() and TomlDecode().
CONSTANTS TomlEncoded(_, _), TomlParsed(_), TomlDecoded(_, _)

TableNode(members) == <<"table", members, FALSE>>

\* Parts of which none may be refused, nor null if they are elements.
Elements(t, parts) ==
  IF \E i \in DOMAIN parts : parts[i] \in {Refused, Null} THEN Refused
  ELSE <<"array", parts, t[1] = "struct">>

\* Absent members are left out.
Members(parts) ==
  IF \E k \in DOMAIN parts : parts[k] = Refused THEN Refused
  ELSE TableNode([k \in {j \in DOMAIN parts : parts[j] # Null} |-> parts[k]])

TomlEncodeFields(t, v) ==
  Members([k \in FieldNames(t) |-> IF ValidField(FieldOf(t, k), v[k])
                                THEN TomlEncoded(FieldOf(t, k).type, v[k]) ELSE Refused])

TomlEncode(t, v) ==
  CASE t[1] = "int" -> IF v[2] > Int64Max THEN Refused ELSE v
    [] t[1] \in {"bool", "string", "double"} -> v
    [] t[1] = "date" -> IF v[2] \in Dates THEN v ELSE Refused
    [] t[1] = "enum" -> IF Numbered(t, v[2]) = Refused THEN Refused
                        ELSE IF t[3] THEN <<"string", EntryName(t, v[2])>>
                        ELSE TomlEncoded(t[4], <<"int", v[2]>>)
    [] t[1] = "optional" -> IF ~ Sound(t[2]) THEN Refused
                            ELSE IF v = None THEN Null ELSE TomlEncoded(t[2], v[2])
    [] t[1] = "inline" -> LET n == TomlEncoded(t[2], v)
                          IN IF n[1] = "table" THEN [n EXCEPT ![3] = TRUE] ELSE Refused
    [] t[1] \in {"vector", "array"} ->
         Elements(t[2], [i \in DOMAIN v[2] |-> TomlEncoded(t[2], v[2][i])])
    [] t[1] = "map" -> Members([k \in DOMAIN v[2] |-> TomlEncoded(t[2], v[2][k])])
    [] t[1] = "struct" -> TomlEncodeFields(t, v[2])
    [] OTHER -> Refused

\* What the text that appendInline() makes of a node parses to.
Parsed(n) ==
  CASE n[1] = "int" -> ParseInteger(n[2])
    [] n[1] = "double" /\ n[2] % 2 = 0 /\ n[2] \div 2 \in - Int64Max .. Int64Max -> ParseInteger(n[2] \div 2)
    [] n[1] = "array" -> <<"array", [i \in DOMAIN n[2] |-> TomlParsed(n[2][i])], FALSE>>
    [] n[1] = "table" -> <<"table", [k \in DOMAIN n[2] |-> TomlParsed(n[2][k])], TRUE>>
    [] OTHER -> n

-----------------------------------------------------------------------------
TomlDecodeEnum(t, n) ==
  IF t[3] THEN IF n[1] = "string" THEN Named(t, n[2]) ELSE Refused
  ELSE LET v == TomlDecoded(t[4], n) IN IF v = Refused THEN v ELSE Numbered(t, v[2])

TomlDecodeFields(t, members) ==
  All("object", [k \in FieldNames(t) |->
    LET f == FieldOf(t, k)
        v == IF k \in DOMAIN members THEN TomlDecoded(f.type, members[k])
             ELSE IF f.type[1] = "optional" THEN None ELSE Refused
    IN IF v # Refused /\ ValidField(f, v) THEN v ELSE Refused])

TomlDecode(t, n) ==
  CASE t[1] = "int" -> IF n[1] = "int" /\ n[2] \in - Int64Max - 1 .. Int64Max
                      THEN TomlInteger(t, n[2]) ELSE Refused
    [] t[1] = "double" ->
         CASE n[1] = "double" \/ n = NotANumber -> n
           [] n[1] = "int" -> <<"double", 2 * n[2]>>
           [] OTHER -> Refused
    [] t[1] = "date" -> IF n[1] = "date" /\ n[2] \in Dates THEN n ELSE Refused
    [] t[1] = "enum" -> TomlDecodeEnum(t, n)
    [] t[1] = "optional" -> LET v == TomlDecoded(t[2], n)
                            IN IF v = Refused \/ ~ Sound(t[2]) THEN Refused ELSE <<"some", v>>
    [] t[1] = "inline" -> TomlDecoded(t[2], n)
    [] t[1] \in {"vector", "array"} ->
         IF n[1] # "array" \/ (t[1] = "array" /\ DOMAIN n[2] # 1 .. t[3]) THEN Refused
         ELSE All("array", [i \in DOMAIN n[2] |-> TomlDecoded(t[2], n[2][i])])
    [] t[1] = "map" -> IF n[1] # "table" THEN Refused
                       ELSE All("object", [k \in DOMAIN n[2] |-> TomlDecoded(t[2], n[2][k])])
    [] t[1] = "struct" -> IF n[1] # "table" THEN Refused ELSE TomlDecodeFields(t, n[2])
    [] t[1] \in {"bool", "string"} -> IF n[1] = t[1] THEN n ELSE Refused
    [] OTHER -> Refused
=============================================================================
