----------------------------- MODULE JsonCodec ------------------------------
(***************************************************************************)
(* json::serialize() and json::decode() of typed values: encodeValue(),    *)
(* which builds a tree of nodes and counts them, the text that is written  *)
(* of it, and decodeValue().  Which error a refusal reports is left out,   *)
(* and so are the sizes of strings and keys.  A tree is built as its text  *)
(* parses.                                                                 *)
(* A field has the policies of wire_options: "optional", "raw", ...; a     *)
(* text that is to be raw JSON is what it parses to, <<"bad">> if it does  *)
(* not, or <<"empty">>.                                                    *)
(***************************************************************************)
EXTENDS Reflection

CONSTANTS
  MaxDepth, MaxNodes, MaxItems,   \* of SerializeOptions
  \* The recursive calls of JsonEncode(), EncodeRaw(), EncodeJson(), JsonDecode() and DecodeRaw().
  JsonEncoded(_, _, _), RawEncoded(_, _), NodeEncoded(_), JsonDecoded(_, _), RawDecoded(_, _)

\* What the text of a node parses to: a whole double, unless it is so large that it
\* gets an exponent, is written without a fraction and taken for an integer.
Text(n) ==
  IF n[1] = "double" /\ n[2] % 2 = 0 /\ n[2] \div 2 \in - Int64Max .. Int64Max
    THEN <<"int", n[2] \div 2>> ELSE n

\* What encodeValue() comes to: the node, the values that EncodeContext counts for
\* it and the levels that depth goes down for them.
Refusal == [node |-> Refused, count |-> 0, height |-> 0]
One(n) == [node |-> Text(n), count |-> 1, height |-> 1]
Free(n) == [node |-> n, count |-> 0, height |-> 0]
Within(r) == [r EXCEPT !.count = @ + 1, !.height = @ + 1]

\* Mutant: depth is not counted in arrays and objects.
FlatHeight(parts) == 1

Height(parts) == 1 + Max({0} \cup {parts[i].height : i \in DOMAIN parts})

Total(parts) == 1 + FoldFunction(LAMBDA r, n : r.count + n, 0, parts)

\* An array or an object of these parts.
Compound(tag, parts) ==
  IF Cardinality(DOMAIN parts) > MaxItems \/ \E i \in DOMAIN parts : parts[i].node = Refused
    THEN Refusal
    ELSE [node |-> <<tag, [i \in DOMAIN parts |-> parts[i].node]>>,
          count |-> Total(parts), height |-> Height(parts)]

\* A Json.
EncodeJson(n) ==
  CASE n[1] \in {"array", "object"} -> Compound(n[1], [i \in DOMAIN n[2] |-> NodeEncoded(n[2][i])])
    [] n[1] \in {"bad", "empty"} -> Refusal
    [] OTHER -> One(n)

EncodeRaw(t, v) ==
  CASE t[1] = "optional" -> IF v = None THEN One(Null) ELSE RawEncoded(t[2], v[2])
    [] t[1] = "vector" -> Compound("array", [i \in DOMAIN v[2] |-> RawEncoded(t[2], v[2][i])])
    [] t[1] = "raw" -> NodeEncoded(v[2])
    [] OTHER -> Refusal

\* The policies object_only and array_only.
HasShape(f, n) ==
  /\ "object_only" \in f.policy =>
       IF f.type[1] = "vector"
         THEN n[1] = "array" /\ \A i \in DOMAIN n[2] : n[2][i][1] = "object"
         ELSE n[1] = "object"
  /\ "array_only" \in f.policy => n[1] = "array"

EmptyField(t, v) ==
  CASE t[1] = "optional" -> v = None
    [] t[1] \in {"vector", "array", "map"} -> v[2] = <<>>
    [] t[1] = "string" -> v[2] = ""
    [] t[1] = "raw" -> v[2] = <<"empty">>
    [] OTHER -> FALSE

\* Mutant: false is left out of the object whatever the policy.
OmitsFalse(f, v) ==
  ("omit_empty" \in f.policy /\ EmptyField(f.type, v)) \/ (f.type[1] = "bool" /\ ~ v[2])

Omits(f, v) ==
  \/ "omit_empty" \in f.policy /\ EmptyField(f.type, v)
  \/ {"omit_false", "presence_object"} \cap f.policy # {} /\ f.type[1] = "bool" /\ ~ v[2]

\* encodeValue(), with or without null for what is not a finite number.
EncodeField(f, v, nulls) ==
  IF \/ "presence_object" \in f.policy /\ f.type[1] = "bool"
     \/ {"raw", "empty_object"} \subseteq f.policy /\ f.type[1] = "raw" /\ v[2] = <<"empty">>
    THEN Free(<<"object", <<>>>>)
  ELSE IF "raw" \in f.policy
    THEN LET r == RawEncoded(f.type, v)
         IN IF r.node # Refused /\ HasShape(f, r.node) THEN r ELSE Refusal
  ELSE JsonEncoded(f.type, v, nulls)

JsonEncodeFields(t, v, nulls) ==
  Compound("object", [k \in {n \in FieldNames(t) : ~ Omits(FieldOf(t, n), v[n])} |->
                        IF ValidField(FieldOf(t, k), v[k])
                          THEN EncodeField(FieldOf(t, k), v[k], nulls) ELSE Refusal])

EncodeEnum(t, n) ==
  IF Numbered(t, n) = Refused THEN Refusal
  ELSE Within(One(IF t[3] THEN <<"string", EntryName(t, n)>> ELSE <<"int", n>>))

EncodeScalar(t, v, nulls) ==
  CASE v = NotANumber -> IF nulls THEN One(Null) ELSE Refusal
    [] t[1] = "date" -> IF v[2] \in Dates THEN One(<<"string", v[2]>>) ELSE Refusal
    [] OTHER -> One(v)

EncodeContainer(t, v, nulls) ==
  Compound(v[1], [i \in DOMAIN v[2] |-> JsonEncoded(t[2], v[2][i], nulls)])

JsonEncode(t, v, nulls) ==
  CASE t[1] \in {"raw", "json"} -> NodeEncoded(v[2])
    [] t[1] = "variant" -> JsonEncoded(t[2][v[2]], v[3], nulls)
    [] t[1] = "optional" -> IF ~ Sound(t[2]) THEN Refusal
                            ELSE IF v = None THEN One(Null) ELSE Within(JsonEncoded(t[2], v[2], nulls))
    [] t[1] = "inline" -> Within(JsonEncoded(t[2], v, nulls))
    [] t[1] = "enum" -> EncodeEnum(t, v[2])
    [] t[1] \in {"vector", "array", "map"} -> EncodeContainer(t, v, nulls)
    [] t[1] = "struct" -> JsonEncodeFields(t, v[2], nulls)
    [] OTHER -> EncodeScalar(t, v, nulls)

Serialize(t, v, nulls) ==
  LET r == JsonEncode(t, v, nulls)
  IN IF r.node = Refused \/ r.count > MaxNodes \/ r.height > MaxDepth THEN Refused ELSE r.node

-----------------------------------------------------------------------------
DecodeRaw(t, n) ==
  CASE t[1] = "optional" -> LET v == RawDecoded(t[2], n)
                            IN IF v = Refused THEN v ELSE <<"some", v>>
    [] t[1] = "vector" -> IF n[1] # "array" THEN Refused
                          ELSE All("array", [i \in DOMAIN n[2] |-> RawDecoded(t[2], n[2][i])])
    [] t[1] = "raw" -> <<"raw", n>>
    [] OTHER -> Refused

DecodeWireField(f, n) ==
  IF "reject_null" \in f.policy /\ n = Null THEN Refused
  ELSE IF "presence_object" \in f.policy /\ f.type[1] = "bool" THEN <<"bool", n # Null>>
  ELSE IF ~ HasShape(f, n) THEN Refused
  ELSE IF "raw" \in f.policy THEN RawDecoded(f.type, n)
  ELSE JsonDecoded(f.type, n)

DecodeMember(f, n) ==
  LET v == DecodeWireField(f, n) IN IF v # Refused /\ ValidField(f, v) THEN v ELSE Refused

JsonDecodeFields(t, members) ==
  All("object", [k \in FieldNames(t) |->
    LET f == FieldOf(t, k)
    IN IF k \in DOMAIN members THEN DecodeMember(f, members[k])
       ELSE IF "optional" \in f.policy THEN Default(f.type)
       ELSE IF f.type[1] = "optional" /\ ValidField(f, None) THEN None
       ELSE Refused])

\* The descriptor is checked before the value is looked at.
JsonDecodeEnum(t, n) ==
  IF t[3] THEN IF n[1] = "string" THEN Named(t, n[2]) ELSE Refused
  ELSE LET v == JsonDecoded(t[4], n) IN IF v = Refused THEN v ELSE Numbered(t, v[2])

\* The first alternative that decodes.
DecodeVariant(t, n) ==
  LET fit == {i \in DOMAIN t[2] : JsonDecoded(t[2][i], n) # Refused}
  IN IF fit = {} THEN Refused ELSE <<"alternative", Min(fit), JsonDecoded(t[2][Min(fit)], n)>>

\* Mutant: an array may have any size.
AnySize(t, n) == TRUE

RightSize(t, n) == t[1] = "array" => DOMAIN n = 1 .. t[3]

DecodeScalar(t, n) ==
  CASE t[1] = "int" -> IF n[1] = "int" THEN JsonInteger(t, n[2]) ELSE Refused
    [] t[1] = "double" /\ n[1] = "int" -> <<"double", 2 * n[2]>>
    [] t[1] = "date" -> IF n[1] = "string" /\ n[2] \in Dates THEN <<"date", n[2]>> ELSE Refused
    [] OTHER -> IF n[1] = t[1] THEN n ELSE Refused

\* vector, array and map
DecodeContainer(t, n) ==
  IF n[1] # (IF t[1] = "map" THEN "object" ELSE "array") \/ ~ RightSize(t, n[2]) THEN Refused
  ELSE All(n[1], [i \in DOMAIN n[2] |-> JsonDecoded(t[2], n[2][i])])

JsonDecode(t, n) ==
  CASE t[1] \in {"raw", "json"} -> <<t[1], n>>
    [] t[1] = "variant" -> DecodeVariant(t, n)
    [] t[1] = "optional" -> IF ~ Sound(t[2]) THEN Refused
                            ELSE IF n = Null THEN None
                            ELSE LET v == JsonDecoded(t[2], n)
                                 IN IF v = Refused THEN v ELSE <<"some", v>>
    [] t[1] = "inline" -> JsonDecoded(t[2], n)
    [] t[1] = "enum" -> JsonDecodeEnum(t, n)
    [] t[1] \in {"vector", "array", "map"} -> DecodeContainer(t, n)
    [] t[1] = "struct" -> IF n[1] # "object" THEN Refused ELSE JsonDecodeFields(t, n[2])
    [] OTHER -> DecodeScalar(t, n)
=============================================================================
