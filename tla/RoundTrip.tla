----------------------------- MODULE RoundTrip ------------------------------
(***************************************************************************)
(* A value is serialized, as JSON or as TOML, and the text deserialized    *)
(* into the same type or into another; or a document somebody has written  *)
(* is, whose one member is an integer.                                     *)
(***************************************************************************)
EXTENDS JsonCodec, TomlCodec, TomlText

CONSTANTS
  Types,      \* the structs that are written
  Values(_),  \* values of one; <<"written", n>> is a document that has n
  Readers(_), \* the structs that its texts are read into
  AllTypes,   \* the types that these structs are made of
  TypeNesting(_), NodeNesting(_),  \* how deep types are nested, and the documents in Jsons
  HasTypePart(_, _)  \* the recursive calls of HasType()

IsMap(m) == m = [k \in DOMAIN m |-> m[k]]

\* A C++ variable of type t may have value v.
HasType(t, v) ==
  CASE t[1] = "bool" -> v \in {"bool"} \X BOOLEAN
    [] t[1] = "int" -> v \in {"int"} \X (t[2] .. t[3])
    [] t[1] = "double" -> v = NotANumber \/ v \in {"double"} \X Int
    [] t[1] \in {"string", "date"} -> v \in {t[1]} \X STRING
    [] t[1] = "enum" -> v \in {"enum"} \X (t[4][2] .. t[4][3])
    [] t[1] \in {"raw", "json"} -> v \in {t[1]} \X Jsons
    [] t[1] = "optional" -> v = None \/ (v = <<"some", v[2]>> /\ HasTypePart(t[2], v[2]))
    [] t[1] = "inline" -> HasTypePart(t[2], v)
    [] t[1] = "variant" -> /\ v = <<"alternative", v[2], v[3]>> /\ v[2] \in 1 .. Len(t[2])
                           /\ HasTypePart(t[2][v[2]], v[3])
    [] t[1] \in {"vector", "array", "map"} ->
         /\ v = <<IF t[1] = "map" THEN "object" ELSE "array", v[2]>> /\ IsMap(v[2])
         /\ t[1] = "vector" => Len(v[2]) \in Nat /\ DOMAIN v[2] = 1 .. Len(v[2])
         /\ t[1] = "array" => DOMAIN v[2] = 1 .. t[3]
         /\ t[1] = "map" => DOMAIN v[2] \subseteq Keys /\ IsFiniteSet(DOMAIN v[2])
         /\ \A i \in DOMAIN v[2] : HasTypePart(t[2], v[2][i])
    [] t[1] = "struct" ->
         /\ v = <<"object", v[2]>> /\ IsMap(v[2]) /\ DOMAIN v[2] = FieldNames(t)
         /\ \A k \in FieldNames(t) : HasTypePart(FieldOf(t, k).type, v[2][k])

ASSUME TypesAssumption ==
  /\ \A t \in Types : \A u \in {t} \cup Readers(t) : u \in AllTypes /\ u[1] = "struct"
  /\ AreTypes(AllTypes, TypeNesting)
  /\ \A t \in AllTypes : t[1] = "struct" => FieldNames(t) \subseteq Keys

\* No document holds a whole double, which would be read as an integer.
ASSUME JsonsAssumption ==
  \A n \in Jsons :
    /\ n[1] # "refused" /\ Text(n) = n /\ NodeNesting(n) \in Nat
    /\ n[1] \in {"array", "object"} =>
         /\ n = <<n[1], n[2]>> /\ IsMap(n[2]) /\ IsFiniteSet(DOMAIN n[2])
         /\ \A i \in DOMAIN n[2] : n[2][i] \in Jsons /\ NodeNesting(n[2][i]) < NodeNesting(n)

\* What is written by hand is read into structs of one member.
ASSUME ValuesAssumption ==
  \A t \in Types : \A v \in Values(t) :
    \/ HasType(t, v)
    \/ v \in {"written"} \X Int /\ \A u \in Readers(t) : Len(u[2]) = 1

ASSUME SerializeAssumption == {MaxDepth, MaxNodes, MaxItems} \subseteq Nat

VARIABLES
  format,
  type, value, reader,   \* what is written, and the type that is asked for
  nulls,      \* non_finite = null_value
  stage,      \* what is done next, or has come of it
  document,   \* what the JSON text parses to
  result      \* the value that has been read

vars == <<format, type, value, reader, nulls, stage, document, result, textVars>>

ByHand == value[1] = "written"
Integer == <<"int", value[2]>>
Only == reader[2][1].name

-----------------------------------------------------------------------------
SerializeJson ==
  /\ stage = "begin" /\ format = "json"
  /\ document' = IF ByHand THEN <<"object", [k \in {Only} |-> Integer]>>
                 ELSE Serialize(type, value, nulls)
  /\ stage' = IF document' = Refused THEN "refused" ELSE "written"
  /\ UNCHANGED <<format, type, value, reader, nulls, result, textVars>>

SerializeToml ==
  /\ stage = "begin" /\ format = "toml"
  /\ LET root == IF ByHand THEN TableNode([k \in {Only} |-> Integer])
                 ELSE TomlEncode(type, value)
     IN IF root = Refused THEN stage' = "refused" /\ UNCHANGED textVars
        ELSE stage' = "write" /\ Begin(root)
  /\ UNCHANGED <<format, type, value, reader, nulls, document, result>>

WriteLine ==
  /\ stage = "write"
  /\ WriteText(Parsed(Head(todo).node))
  /\ UNCHANGED <<format, type, value, reader, nulls, stage, document, result>>

WrittenToml ==
  /\ stage = "write" /\ todo = <<>>
  /\ stage' = "written"
  /\ UNCHANGED <<format, type, value, reader, nulls, document, result, textVars>>

\* The node that has been read at address x.
NodeAt[x \in DOMAIN tree] ==
  IF "value" \in DOMAIN tree[x] THEN tree[x].value
  ELSE IF tree[x].kind = "array"
    THEN <<"array", [i \in 1 .. tree[x].size |-> NodeAt[Append(x, i)]], TRUE>>
  ELSE <<"table", [k \in {j \in Keys : Append(x, j) \in DOMAIN tree} |-> NodeAt[Append(x, k)]], FALSE>>

Deserialize ==
  /\ stage = "written"
  /\ result' = IF format = "json" THEN JsonDecode(reader, document)
               ELSE TomlDecode(reader, NodeAt[<<>>])
  /\ stage' = "read"
  /\ UNCHANGED <<format, type, value, reader, nulls, document, textVars>>

Init ==
  /\ format \in {"json", "toml"}
  /\ type \in Types /\ value \in Values(type) /\ reader \in Readers(type)
  /\ nulls \in BOOLEAN /\ (format = "toml" => ~ nulls)
  /\ stage = "begin" /\ document = Null /\ result = None
  /\ InitText

Next == SerializeJson \/ SerializeToml \/ WriteLine \/ WrittenToml \/ Deserialize

Spec == Init /\ [][Next]_vars
=============================================================================
